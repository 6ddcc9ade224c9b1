--------------------------- MODULE WalletClusters ---------------------------
(***************************************************************************)
(* The wallet classifier: it reads what each wallet did, pairs the wallets  *)
(* that bought the same mints at the same time, groups the pairs with a     *)
(* union-find that halves paths, and replaces wallet_classifications in one *)
(* transaction.  The bot inserts trades between its queries.                *)
(***************************************************************************)
EXTENDS Integers, FiniteSets, FiniteSetsExt

CONSTANTS
  People,      (* the wallets                                              *)
  Linked,      (* sets of pairs the co-buying query may return             *)
  MaxRuns      (* bound: passes of the classifier                          *)

ASSUME WalletClustersAssumption ==
  /\ MaxRuns \in Nat /\ IsFiniteSet(People) /\ 0 \notin People
  /\ \A l \in Linked : \A p \in l : p \in People \X People /\ p[1] # p[2]

VARIABLES
  traded,      (* wallets that have traded                                 *)
  pairs,       (* pairs still to be united                                 *)
  united,      (* history: pairs united                                    *)
  parent,      (* the union-find forest                                    *)
  find,        (* the find under way, and the union it is for              *)
  stats,       (* wallets of compute_per_wallet_stats                      *)
  published,   (* wallet_classifications: wallet -> [cluster, size]        *)
  runs         (* passes begun                                             *)

clusterVars == <<traded, pairs, united, parent, find, stats, published, runs>>

Alone == [cluster |-> 0, size |-> 0]
NoFind == [pc |-> "idle", a |-> 0, b |-> 0, w |-> 0, ra |-> 0]

ClusterInit ==
  /\ traded \in SUBSET People
  /\ pairs = {} /\ united = {} /\ parent = << >>
  /\ find = NoFind /\ stats = {} /\ published = << >> /\ runs = 0

ClusterOff ==
  /\ traded = {} /\ pairs = {} /\ united = {} /\ parent = << >>
  /\ find = [NoFind EXCEPT !.pc = "off"] /\ stats = {} /\ published = << >>
  /\ runs = 0

(* A wallet nobody knew trades.                                             *)
NewWallet ==
  /\ find.pc # "off"
  /\ \E w \in People \ traded : traded' = traded \cup {w}
  /\ UNCHANGED <<pairs, united, parent, find, stats, published, runs>>

ComputePerWalletStats ==
  /\ find.pc = "idle" /\ runs < MaxRuns
  /\ stats' = traded
  /\ runs' = runs + 1
  /\ find' = [NoFind EXCEPT !.pc = "stats"]
  /\ UNCHANGED <<traded, pairs, united, parent, published>>

(* The query for pairs sees the wallets of its own moment; with               *)
(* --no-clusters it is not run.                                             *)
ComputeClusters ==
  /\ find.pc = "stats"
  /\ \E l \in Linked \cup {{}} : pairs' = {p \in l : {p[1], p[2]} \subseteq traded}
  /\ united' = {} /\ parent' = << >>
  /\ find' = [NoFind EXCEPT !.pc = "next"]
  /\ UNCHANGED <<traded, stats, published, runs>>

Union ==
  /\ find.pc = "next"
  /\ \E p \in pairs :
       /\ pairs' = pairs \ {p}
       /\ find' = [NoFind EXCEPT !.pc = "a", !.a = p[1], !.b = p[2], !.w = p[1]]
  /\ UNCHANGED <<traded, united, parent, stats, published, runs>>

SetDefault(w) == IF w \in DOMAIN parent THEN parent
                 ELSE [x \in DOMAIN parent \cup {w} |-> IF x = w THEN w ELSE parent[x]]

(* Fault: the wallet itself is hung below the other root.                    *)
LinkedWallet(p) == [p EXCEPT ![find.a] = find.w]

(* union: the root of the first wallet gets that of the second as parent.    *)
LinkedRoots(p) == [p EXCEPT ![find.ra] = find.w]

(* One turn of the loop of find: an unknown wallet is its own parent; the     *)
(* parent of a wallet that is no root becomes its grandparent, and the search *)
(* goes on from there.                                                       *)
FindStep ==
  /\ find.pc \in {"a", "b"}
  /\ LET p == SetDefault(find.w)
         up == p[p[find.w]]
     IN IF p[find.w] # find.w
        THEN /\ parent' = [p EXCEPT ![find.w] = up]
             /\ find' = [find EXCEPT !.w = up]
             /\ UNCHANGED united
        ELSE IF find.pc = "a"
        THEN /\ parent' = p
             /\ find' = [find EXCEPT !.pc = "b", !.ra = find.w, !.w = find.b]
             /\ UNCHANGED united
        ELSE /\ parent' = LinkedRoots(p)
             /\ united' = united \cup {<<find.a, find.b>>}
             /\ find' = [NoFind EXCEPT !.pc = "next"]
  /\ UNCHANGED <<traded, pairs, stats, published, runs>>
Root == LET root[w \in DOMAIN parent] ==
              IF parent[w] = w THEN w ELSE root[parent[w]]
        IN root

Members(w) == {x \in DOMAIN parent : Root[x] = Root[w]}

(* TRUNCATE and INSERT are committed together.  Rows are written for the      *)
(* wallets of the first query, sizes count those of the second.              *)
Publish ==
  /\ find.pc = "next" /\ pairs = {}
  /\ published' = [w \in stats |-> IF w \in DOMAIN parent
                     THEN [cluster |-> Root[w], size |-> Cardinality(Members(w))]
                     ELSE Alone]
  /\ find' = NoFind
  /\ UNCHANGED <<traded, pairs, united, parent, stats, runs>>

ClassifierDies ==
  /\ find.pc \notin {"off", "idle"}
  /\ find' = NoFind /\ pairs' = {} /\ united' = {} /\ parent' = << >>
  /\ UNCHANGED <<traded, stats, published, runs>>

ClusterNext == \/ NewWallet
               \/ ComputePerWalletStats \/ ComputeClusters
               \/ Union \/ FindStep \/ Publish \/ ClassifierDies

ClusterTypeOK ==
  /\ DOMAIN parent \subseteq traded
  /\ \A w \in DOMAIN parent : parent[w] \in DOMAIN parent
  /\ DOMAIN published \subseteq traded /\ stats \subseteq traded
  /\ find.pc \in {"off", "idle", "stats", "next", "a", "b"}

Connected(x, y) ==
  \A S \in SUBSET DOMAIN parent :
    x \in S /\ (\A e \in united : e[1] \in S <=> e[2] \in S) => y \in S

(* Whatever the order of the pairs, and though every search rewrites the      *)
(* paths it walks, two wallets are in one tree exactly when united pairs      *)
(* connect them; what is published names clusters of at least two wallets     *)
(* and no more rows than their sizes say, with wallets coming in between the  *)
(* queries (ml/wallet_classifier.py, compute_clusters).                      *)
ClustersAreComponents ==
  /\ \A x, y \in DOMAIN parent : Root[x] = Root[y] <=> Connected(x, y)
  /\ \A w \in DOMAIN published : published[w] # Alone =>
       /\ published[w].size > 1
       /\ published[w].size >= Cardinality({x \in DOMAIN published :
                                   published[x].cluster = published[w].cluster})
=============================================================================
