------------------------------ MODULE Cluster ------------------------------
(***************************************************************************)
(* The entry point (class Entrypoint of Entrypoint.cpp) with the storage   *)
(* nodes: the list of nodes, the routes of databases, the threads of the   *)
(* clients, and the heartbeat that restarts dead nodes.  mutex_ guards     *)
(* nodes and routes; a client's thread takes it only to look up or change  *)
(* them and asks the node without it, the heartbeat holds it for a whole   *)
(* round of connections.                                                   *)
(*                                                                         *)
(* All clients are authenticated and may do everything.                    *)
(***************************************************************************)
EXTENDS StorageNodes, FiniteSets, Functions

CONSTANTS
  Clients,
  Requests,  \* what the clients ask for
  Cycle      \* next_node_index_ is kept modulo Cycle

ASSUME ClusterAssumption ==
  /\ None \notin Clients
  /\ Requests \subseteq {"create", "drop", "sql"}
  /\ Cycle \in Nat \ {0}
  /\ \A k \in 1 .. Cardinality(Nodes) : Cycle % k = 0

VARIABLES
  nodes,    \* storage_nodes_
  alive,    \* StorageNodeInfo::alive
  route,    \* db_to_storage_
  next,     \* next_node_index_
  beat,     \* the nodes the round of the heartbeat has checked; 0: it sleeps
  handler,  \* the threads of the clients
  evicted   \* history: databases whose route went without a DROP

entryVars == <<nodes, alive, route, next, beat, handler, evicted>>
vars == <<nodeVars, entryVars>>

Handler ==
  [pc : {"idle", "asking", "sending", "waiting", "dropped"},
   op : {"create", "drop", "sql", None},
   db : DBs \cup {None}, node : Nodes \cup {None}, job : Jobs \cup {None}]

IdleHandler ==
  [pc |-> "idle", op |-> None, db |-> None, node |-> None, job |-> None]

Put(f, x, v) == [y \in DOMAIN f \cup {x} |-> IF y = x THEN v ELSE f[y]]

Registered == Range(nodes)
FreeMutex  == beat = 0
Routed(d)  == d \in DOMAIN route

TypeOK ==
  /\ NodesTypeOK
  /\ nodes \in Seq(Nodes) /\ IsInjective(nodes)
  /\ alive \in [Nodes -> BOOLEAN]
  /\ DOMAIN route \subseteq DBs /\ Range(route) \subseteq Nodes
  /\ next \in 0 .. (Cycle - 1)
  /\ beat \in Nat /\ (beat = 0 \/ beat < Len(nodes))
  /\ handler \in [Clients -> Handler]
  /\ evicted \subseteq DBs

EntryInit ==
  /\ nodes = <<>> /\ beat = 0 /\ next = 0
  /\ alive = [n \in Nodes |-> FALSE]
  /\ route = [d \in {} |-> None]
  /\ handler = [c \in Clients |-> IdleHandler]
  /\ evicted = {}

Init == NodesInit /\ EntryInit

-----------------------------------------------------------------------------
(* Administration *)

\* Mutant: a node registered already is not looked for.
AddStorage_Twice(n) ==
  /\ FreeMutex /\ Len(nodes) <= Cardinality(Nodes)
  /\ nodes' = Append(nodes, n)
  /\ UNCHANGED <<nodeVars, alive, route, next, beat, handler, evicted>>

AddStorage(n) ==
  /\ FreeMutex /\ n \notin Registered
  /\ nodes' = Append(nodes, n)
  /\ UNCHANGED <<nodeVars, alive, route, next, beat, handler, evicted>>

RoutedTo(n) == {d \in DOMAIN route : route[d] = n}

\* The nodes without the one at position i.
WithoutAt(i) == [k \in 1 .. Len(nodes) - 1 |-> nodes[IF k < i THEN k ELSE k + 1]]

\* Mutant: the databases of the node keep their routes.
RemoveStorage_KeepsRoutes(n) ==
  /\ FreeMutex
  /\ \E i \in DOMAIN nodes : nodes[i] = n /\ nodes' = WithoutAt(i)
  /\ alive' = [alive EXCEPT ![n] = FALSE]
  /\ UNCHANGED <<nodeVars, route, next, beat, handler, evicted>>

RemoveStorage(n) ==
  /\ FreeMutex
  /\ \E i \in DOMAIN nodes : nodes[i] = n /\ nodes' = WithoutAt(i)
  /\ alive' = [alive EXCEPT ![n] = FALSE]
  /\ route' = Restrict(route, DOMAIN route \ RoutedTo(n))
  /\ evicted' = evicted \cup RoutedTo(n)
  /\ process' = [process EXCEPT ![n] = IF @ = "child" THEN "forgotten" ELSE @]
  /\ UNCHANGED <<dbs, current, cout, job, misled, next, beat, handler>>

-----------------------------------------------------------------------------
(* The thread of a client *)

\* A request has come; the thread waits for mutex_.
Request(c, op, d) ==
  /\ op \in Requests /\ handler[c].pc = "idle"
  /\ handler' = [handler EXCEPT ![c] =
                    [IdleHandler EXCEPT !.pc = "asking", !.op = op, !.db = d]]
  /\ UNCHANGED <<nodeVars, nodes, alive, route, next, beat, evicted>>

Asks(c, ops) == handler[c].pc = "asking" /\ handler[c].op \in ops /\ FreeMutex

\* The node to ask is known; mutex_ is released before it is asked.
AskNode(c, n) ==
  handler' = [handler EXCEPT ![c].pc = "sending", ![c].node = n]

\* chooseStorageForNewDB takes the alive nodes of the list in turn.
AliveAt == {i \in DOMAIN nodes : alive[nodes[i]]}
HasTurn(i) ==
  /\ i \in AliveAt
  /\ Cardinality({k \in AliveAt : k < i}) = next % Cardinality(AliveAt)

\* Mutant: the name of a database that exists is taken.
CreateDatabase_Again(c) ==
  /\ Asks(c, {"create"})
  /\ \E i \in DOMAIN nodes :
       /\ HasTurn(i)
       /\ AskNode(c, nodes[i])
       /\ route' = Put(route, handler[c].db, nodes[i])
  /\ next' = (next + 1) % Cycle
  /\ UNCHANGED <<nodeVars, nodes, alive, beat, evicted>>

\* The route is there before the node is asked.
CreateDatabase(c) ==
  /\ Asks(c, {"create"}) /\ ~Routed(handler[c].db)
  /\ \E i \in DOMAIN nodes :
       /\ HasTurn(i)
       /\ AskNode(c, nodes[i])
       /\ route' = Put(route, handler[c].db, nodes[i])
  /\ next' = (next + 1) % Cycle
  /\ UNCHANGED <<nodeVars, nodes, alive, beat, evicted>>

\* DROP DATABASE or a statement on a table: the route is read.
AskNodeOfDatabase(c) ==
  /\ Asks(c, {"drop", "sql"}) /\ Routed(handler[c].db)
  /\ AskNode(c, route[handler[c].db])
  /\ UNCHANGED <<nodeVars, nodes, alive, route, next, beat, evicted>>

\* The name is taken, there is no node alive, or the database is not known.
Refuse(c) ==
  /\ \/ Asks(c, {"create"}) /\ (Routed(handler[c].db) \/ AliveAt = {})
     \/ Asks(c, {"drop", "sql"}) /\ ~Routed(handler[c].db)
  /\ handler' = [handler EXCEPT ![c] = IdleHandler]
  /\ UNCHANGED <<nodeVars, nodes, alive, route, next, beat, evicted>>

CommandsOf(h) == IF h.op = "sql" THEN <<"use", "sql">> ELSE <<h.op>>

\* forwardToStorage: connect and send.
Send(c, j) ==
  LET h == handler[c] IN
  /\ h.pc = "sending"
  /\ Accept(j, h.node, h.db, CommandsOf(h))
  /\ handler' = [handler EXCEPT ![c].pc = "waiting", ![c].job = j]
  /\ UNCHANGED <<nodes, alive, route, next, beat, evicted>>

\* The node is down or the connection takes too long: the client gets an error.
SendFails(c) ==
  /\ handler[c].pc = "sending"
  /\ handler' = [handler EXCEPT ![c] = IdleHandler]
  /\ UNCHANGED <<nodeVars, nodes, alive, route, next, beat, evicted>>

\* Mutant: any answer to a DROP counts as its confirmation.
Receive_AnyAnswer(c) ==
  LET h == handler[c]  j == job[h.job] IN
  /\ h.pc = "waiting" /\ j.at \in {"closed", "lost"}
  /\ handler' = [handler EXCEPT ![c] =
       IF h.op = "drop" THEN [h EXCEPT !.pc = "dropped", !.job = None]
       ELSE IdleHandler]
  /\ job' = [job EXCEPT ![h.job] = Left(@)]
  /\ UNCHANGED <<process, dbs, current, cout, misled,
                 nodes, alive, route, next, beat, evicted>>

\* The end of the answer, of a whole one or of one cut short by the death of the
\* node; it goes to the client unless a DROP is confirmed by it.
Receive(c) ==
  LET h == handler[c]  j == job[h.job] IN
  /\ h.pc = "waiting" /\ j.at \in {"closed", "lost"}
  /\ handler' = [handler EXCEPT ![c] =
       IF h.op = "drop" /\ j.at = "closed" /\ j.dropped
       THEN [h EXCEPT !.pc = "dropped", !.job = None] ELSE IdleHandler]
  /\ job' = [job EXCEPT ![h.job] = Left(@)]
  /\ UNCHANGED <<process, dbs, current, cout, misled,
                 nodes, alive, route, next, beat, evicted>>

\* Mutant: setTimeout is not called.
Timeout_NotSet(c) == handler[c].pc = "waiting" /\ FALSE /\ UNCHANGED vars

\* No answer for five seconds: what was received so far goes to the client.
Timeout(c) ==
  LET h == handler[c] IN
  /\ h.pc = "waiting" /\ job[h.job].at \notin {"closed", "lost"}
  /\ handler' = [handler EXCEPT ![c] = IdleHandler]
  /\ job' = [job EXCEPT ![h.job] = Left(@)]
  /\ UNCHANGED <<process, dbs, current, cout, misled,
                 nodes, alive, route, next, beat, evicted>>

\* The route goes after the database, by name, under a lock of its own.
EraseRoute(c) ==
  LET h == handler[c] IN
  /\ h.pc = "dropped" /\ FreeMutex
  /\ route' = Restrict(route, DOMAIN route \ {h.db})
  /\ handler' = [handler EXCEPT ![c] = IdleHandler]
  /\ UNCHANGED <<nodeVars, nodes, alive, next, beat, evicted>>

-----------------------------------------------------------------------------
(* The heartbeat *)

Checked == nodes[beat + 1]
BeatGoesOn ==
  /\ beat < Len(nodes)
  /\ beat' = (beat + 1) % Len(nodes)
  /\ UNCHANGED <<dbs, current, misled, nodes, route, next, handler, evicted>>

\* A node answers, or one taken for dead does not.
BeatQuiet ==
  /\ BeatGoesOn
  /\ alive[Checked] => Up(Checked)
  /\ alive' = [alive EXCEPT ![Checked] = Up(Checked)]
  /\ UNCHANGED <<process, cout, job>>

\* Mutant: the return for a node it cannot restart comes before alive is set.
RestartStorageNode_Returns ==
  /\ BeatGoesOn /\ alive[Checked] /\ ~Up(Checked)
  /\ UNCHANGED <<process, cout, job, alive>>

\* A node taken for alive does not answer: it is down, or the connection takes
\* too long.  A process the entry point knows is ended first; any other keeps the
\* port and the new one cannot listen.  It may fail to for another reason (a table
\* cannot be opened) or take longer than the half second it is given.
RestartStorageNode ==
  LET n == Checked IN
  /\ BeatGoesOn /\ alive[n]
  /\ \/ /\ process[n] \in {"operator", "forgotten"}
        /\ UNCHANGED <<process, cout, job>>
     \/ /\ process[n] \in {"none", "child"}
        /\ job' = Orphaned(n)
        /\ cout' = [cout EXCEPT ![n] = None]
        /\ \E new \in {"none", "child"} : process' = [process EXCEPT ![n] = new]
  /\ \/ alive' = [alive EXCEPT ![n] = FALSE]
     \/ process'[n] # "none" /\ UNCHANGED alive

\* The entry point is killed and started again: nothing of it is saved.  A node
\* it has started holds its listening socket too, and must be gone.
RestartEntry ==
  /\ \A n \in Nodes : process[n] \in {"none", "operator"}
  /\ nodes' = <<>> /\ beat' = 0 /\ next' = 0
  /\ alive' = [n \in Nodes |-> FALSE]
  /\ route' = [d \in {} |-> None]
  /\ handler' = [c \in Clients |-> IdleHandler]
  /\ job' = [j \in Jobs |-> Left(job[j])]
  /\ evicted' = evicted \cup DOMAIN route
  /\ UNCHANGED <<process, dbs, current, cout, misled>>

-----------------------------------------------------------------------------
ClientStep(c) ==
  \/ \E j \in Jobs : Send(c, j)
  \/ SendFails(c) \/ Receive(c) \/ Timeout(c)

\* The steps for which the thread of a client must get mutex_.
LockingStep(c) == CreateDatabase(c) \/ AskNodeOfDatabase(c) \/ Refuse(c) \/ EraseRoute(c)

BeatStep == BeatQuiet \/ RestartStorageNode

Next ==
  \/ NodeStep /\ UNCHANGED entryVars
  \/ \E n \in Nodes : AddStorage(n) \/ RemoveStorage(n)
  \/ \E c \in Clients, d \in DBs, op \in Requests : Request(c, op, d)
  \/ \E c \in Clients : LockingStep(c) \/ ClientStep(c)
  \/ BeatStep
  \/ RestartEntry

\* A thread waits for a node with time limits only; the heartbeat sleeps five
\* seconds between two rounds, so that whoever waits for mutex_ gets it at last.
Fairness ==
  /\ \A c \in Clients : WF_vars(ClientStep(c)) /\ SF_vars(LockingStep(c))
  /\ WF_vars(BeatStep)

Spec == Init /\ [][Next]_vars /\ Fairness

-----------------------------------------------------------------------------
(* Properties *)

\* The directories that hold a database.
Homes(d) == {h \in Nodes \X Starters : d \in dbs[h[1]][h[2]]}

\* A database is in one directory of one node, and its route leads to this node,
\* whatever requests are on the way, late or lost, and whichever nodes were killed
\* and restarted: the route is made before the database and goes after it.  A
\* database whose route went with REMOVE STORAGE or with the entry point itself is
\* out of reach and not spoken of, nor is one whose DROP was answered by the
\* "dropped" of another thread.
OneHome ==
  \A d \in DBs \ (evicted \cup misled) :
    /\ Cardinality(Homes(d)) <= 1
    /\ \A h \in Homes(d) : Routed(d) /\ route[d] = h[1]

\* A route leads to a node of the list (CREATE DATABASE and REMOVE STORAGE decide
\* under one lock).
RoutesKnown == Range(route) \subseteq Registered

\* A client told that its database was dropped finds it gone: no copy is left and
\* the name is free, unless it was another thread that told so.
DroppedIsGone ==
  [][\A c \in Clients, d \in DBs :
       EraseRoute(c) /\ handler[c].db = d /\ d \notin evicted' \cup misled'
       => Homes(d)' = {} /\ ~Routed(d)']_vars

\* Every request is answered: no thread waits for ever, neither for a node nor for
\* the lock the heartbeat holds while it connects and restarts.
Answered == \A c \in Clients : handler[c].pc # "idle" ~> handler[c].pc = "idle"

\* A node that is down for good is taken for dead at last, and stays so.
DeadNoticed ==
  \A n \in Nodes : <>[](~Up(n) /\ n \in Registered) => <>[](~alive[n])

=============================================================================
