----------------------------- MODULE MCCluster -----------------------------
(* Finite instances of Cluster and, through it, of StorageNodes.            *)
EXTENDS Cluster, TLC

CONSTANTS n1, n2, d1, d2, j1, j2, c1, c2

\* Nodes, connections and clients are not told apart (sound: used with safety
\* properties only).
Alike == Permutations(Nodes) \cup Permutations(Jobs) \cup Permutations(Clients)

\* Once every database is evicted or misled OneHome and DroppedIsGone say nothing
\* any more, then or later.
SomeKept == evicted \cup misled # DBs

\* At most one statement on a table is under way.  What one node can hold is explored
\* in full; as soon as two nodes are in use one client is busy, with no statement,
\* and the heartbeat has restarted only one of them.
Asked   == {c \in Clients : handler[c].op = "sql" /\ handler[c].pc # "waiting"}
Running == {j \in Jobs : "sql" \in Range(job[j].left)}
InUse   ==
  {n \in Nodes : Up(n) \/ n \in Registered \/ \E s \in Starters : dbs[n][s] # {}}
Bounded ==
  /\ Cardinality(Asked) + Cardinality(Running) <= 1
  /\ Cardinality(InUse) > 1 =>
       /\ Cardinality({c \in Clients : handler[c].pc # "idle"}) <= 1
       /\ Asked = {} /\ Running = {}
       /\ Cardinality({n \in Nodes : process[n] \in {"child", "forgotten"}}) <= 1
=============================================================================
