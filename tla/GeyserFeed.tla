----------------------------- MODULE GeyserFeed -----------------------------
(***************************************************************************)
(* The feed of a validator of one's own: a task reads the transactions of   *)
(* the launchpad's program from a stream that may end or break, tells       *)
(* creations from trades, and puts these into the queue of their mint; the  *)
(* bot takes the tokens, subscribes to mints, reads their queues until a    *)
(* timeout and unsubscribes.  Who untaken a token is known from when the    *)
(* bot takes it until the bot unsubscribes from it.  A queue is an object   *)
(* its reader keeps, whatever becomes of the subscription.                  *)
(***************************************************************************)
EXTENDS Selection, SequencesExt

CONSTANTS
  ChainMints,   (* mints                                                     *)
  Transactions, (* [mint, signer, says, amounts]: what the logs say, and     *)
                (* whether balances of SOL and of the mint changed           *)
  Makers,       (* [mint -> who signs its creation]                          *)
  MaxHeard,     (* bound: transactions received                              *)
  MaxQueues     (* bound: subscriptions                                      *)

NoSigner == ""

ASSUME GeyserAssumption ==
  /\ \A x \in Transactions :
       /\ x.mint \in ChainMints /\ x.says \subseteq {"create", "buy", "sell"}
       /\ x.signer # NoSigner
       /\ "create" \in x.says => x.signer = Makers[x.mint]
  /\ MaxHeard \in Nat /\ MaxQueues \in Nat

VARIABLES
  wire,     (* what the task that reads is doing                            *)
  untaken,  (* tokens the bot has not taken                                 *)
  makerOf,  (* mint -> its creator, "" if not known                         *)
  queues,   (* every queue there was: [mint, waiting], and of its history   *)
            (* what was taken and which transactions fell to it             *)
  pipe,     (* mint -> its queue, 0 if none                                 *)
  readers,  (* mint -> the queue its stream reads, and whether the bot      *)
            (* unsubscribed since                                           *)
  chain     (* history: transactions as received                            *)

geyserVars == <<wire, untaken, makerOf, queues, pipe, readers, chain>>

NobodyReads == [queue |-> 0, left |-> FALSE]

GeyserInit ==
  /\ wire = "unconnected" /\ untaken = <<>>
  /\ makerOf = [m \in ChainMints |-> NoSigner] /\ queues = <<>>
  /\ pipe = [m \in ChainMints |-> 0]
  /\ readers = [m \in ChainMints |-> NobodyReads] /\ chain = <<>>

GeyserOff ==
  /\ wire = "off" /\ untaken = <<>> /\ makerOf = <<>>
  /\ queues = <<>> /\ pipe = <<>> /\ readers = <<>> /\ chain = <<>>

Running == wire \in {"reads", "asleep"}

(* ------------------- the task ------------------------------------------ *)
(* _decode_pumpfun_event: a creation that buys at once is only a creation,  *)
(* a transaction that buys and sells a purchase, and a trade moves both     *)
(* sides.                                                                   *)
Decode(tx) == CASE "create" \in tx.says -> "create"
                [] "create" \notin tx.says /\ tx.says # {} /\ tx.amounts ->
                     IF "buy" \in tx.says THEN "buy" ELSE "sell"
                [] OTHER -> "none"

TradeOf(tx) == [side |-> Decode(tx), wallet |-> tx.signer,
                isCreator |-> tx.signer = makerOf[tx.mint]]

ConnectGeyser ==
  /\ wire = "unconnected"
  /\ wire' = "reads"
  /\ UNCHANGED <<untaken, makerOf, queues, pipe, readers, chain>>

(* A mint's creation precedes its trades; any of them may have passed        *)
(* before the task was reading.                                             *)
HandleTransaction ==
  /\ wire = "reads" /\ Len(chain) < MaxHeard
  /\ \E tx \in Transactions :
       LET q == pipe[tx.mint]
           kind == Decode(tx)
       IN /\ kind = "create" => \A i \in DOMAIN chain : chain[i].mint # tx.mint
          /\ chain' = Append(chain, tx)
          /\ untaken' = IF kind = "create" THEN Append(untaken, tx) ELSE untaken
          /\ queues' = IF kind \in {"buy", "sell"} /\ q # 0
               THEN [queues EXCEPT ![q].waiting = Append(@, TradeOf(tx))]
               ELSE queues
  /\ UNCHANGED <<wire, makerOf, pipe, readers>>

(* A stream that breaks is subscribed to again after a sleep, one that ends *)
(* cleanly at once.                                                         *)
StreamBreaks ==
  /\ wire = "reads"
  /\ wire' = "asleep"
  /\ UNCHANGED <<untaken, makerOf, queues, pipe, readers, chain>>

ResumeReading ==
  /\ wire = "asleep"
  /\ wire' = "reads"
  /\ UNCHANGED <<untaken, makerOf, queues, pipe, readers, chain>>

(* disconnect cancels the task; queues and their readers stay.              *)
DisconnectGeyser ==
  /\ Running
  /\ wire' = "closed"
  /\ UNCHANGED <<untaken, makerOf, queues, pipe, readers, chain>>

(* ------------------- the bot ------------------------------------------- *)
TakeToken ==
  /\ Running /\ untaken # <<>>
  /\ makerOf' = [makerOf EXCEPT ![Head(untaken).mint] = Head(untaken).signer]
  /\ untaken' = Tail(untaken)
  /\ UNCHANGED <<wire, queues, pipe, readers, chain>>

NewQueue(m) == [mint |-> m, waiting |-> <<>>, taken |-> <<>>,
                met |-> makerOf[m] # NoSigner, from |-> Len(chain) + 1, to |-> 0]

(* Fault: a second subscription gets a queue of its own.                    *)
SubscribeGeyserAnew(m) ==
  /\ Len(queues) < MaxQueues
  /\ queues' = Append(queues, NewQueue(m))
  /\ pipe' = [pipe EXCEPT ![m] = Len(queues')]
  /\ UNCHANGED <<wire, untaken, makerOf, readers, chain>>

(* A mint that has a queue keeps it.                                        *)
SubscribeGeyser(m) ==
  /\ pipe[m] = 0 /\ Len(queues) < MaxQueues
  /\ queues' = Append(queues, NewQueue(m))
  /\ pipe' = [pipe EXCEPT ![m] = Len(queues')]
  /\ UNCHANGED <<wire, untaken, makerOf, readers, chain>>

UnsubscribeGeyser(m) ==
  /\ queues' = IF pipe[m] = 0 THEN queues
               ELSE [queues EXCEPT ![pipe[m]].to = Len(chain)]
  /\ pipe' = [pipe EXCEPT ![m] = 0]
  /\ makerOf' = [makerOf EXCEPT ![m] = NoSigner]
  /\ readers' = [readers EXCEPT ![m].left = @ \/ readers[m].queue # 0]
  /\ UNCHANGED <<wire, untaken, chain>>

(* stream_trades: nothing for a mint without a queue; else its trades until *)
(* the deadline or until none came for too long, connected or not.          *)
StartReading(m) ==
  /\ readers[m].queue = 0 /\ pipe[m] # 0
  /\ readers' = [readers EXCEPT ![m] = [queue |-> pipe[m], left |-> FALSE]]
  /\ UNCHANGED <<wire, untaken, makerOf, queues, pipe, chain>>

ReadTrade(m) ==
  LET q == readers[m].queue
  IN /\ q # 0 /\ queues[q].waiting # <<>>
     /\ queues' = [queues EXCEPT ![q].waiting = Tail(@),
                     ![q].taken = Append(@, Head(queues[q].waiting))]
     /\ UNCHANGED <<wire, untaken, makerOf, pipe, readers, chain>>

EndReading(m) ==
  /\ readers[m].queue # 0
  /\ readers' = [readers EXCEPT ![m] = NobodyReads]
  /\ UNCHANGED <<wire, untaken, makerOf, queues, pipe, chain>>

GeyserNext ==
  \/ ConnectGeyser \/ HandleTransaction \/ StreamBreaks
  \/ ResumeReading \/ DisconnectGeyser \/ TakeToken
  \/ \E m \in DOMAIN pipe :
       \/ SubscribeGeyser(m) \/ UnsubscribeGeyser(m)
       \/ StartReading(m) \/ ReadTrade(m) \/ EndReading(m)

GeyserTypeOK ==
  /\ wire \in {"off", "unconnected", "reads", "asleep", "closed"}
  /\ \A m \in DOMAIN pipe : {pipe[m], readers[m].queue} \subseteq 0..Len(queues)

IsTrade(tx) == Decode(tx) \in {"buy", "sell"}

(* A stream hears every trade of its mint that was received since the mint   *)
(* was subscribed to and until it was unsubscribed from, each once and in   *)
(* order, over reconnections and whoever reads; one that reads another      *)
(* queue than the mint's has been unsubscribed from.  A trade marked as the *)
(* creator's was signed by the creator, and where the bot had taken the     *)
(* token before it subscribed, all of the creator's are marked              *)
(* (geyser.py subscribe_trades, _handle_transaction, stream_trades).        *)
HeardAsReceived ==
  /\ \A q \in DOMAIN queues :
       LET old == queues[q]
           heard == old.taken \o old.waiting
           span == SubSeq(chain, old.from, IF old.to > 0 THEN old.to ELSE
                     IF pipe[old.mint] = q THEN Len(chain) ELSE old.from - 1)
           due == Among(span, {tx \in Transactions : tx.mint = old.mint /\ IsTrade(tx)})
       IN /\ Len(heard) = Len(due)
          /\ \A i \in DOMAIN due :
               /\ heard[i].side = Decode(due[i])
               /\ heard[i].wallet = due[i].signer
               /\ heard[i].isCreator => due[i].signer = Makers[old.mint]
               /\ old.met => (heard[i].isCreator <=> due[i].signer = Makers[old.mint])
  /\ \A m \in DOMAIN readers :
       \/ readers[m].queue \in {0, pipe[m]}
       \/ readers[m].left
=============================================================================
