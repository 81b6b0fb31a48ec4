--------------------------- MODULE ClusterProofs ---------------------------
(***************************************************************************)
(* Theorems about Cluster and, with it, StorageNodes, for any nodes,       *)
(* databases, connections and clients, whose threads run side by side and  *)
(* may print into each other's answers.                                    *)
(***************************************************************************)
EXTENDS Cluster, FiniteSetTheorems, TLAPS

-----------------------------------------------------------------------------
(* The inductive invariant *)

\* A job that is not done: connections carry what forwardToStorage sends.
Busy(j) == job[j].at \in {"ready", "redirected", "executed"}

JobsFit ==
  \A j \in Jobs : Busy(j) =>
    /\ job[j].node \in Nodes /\ job[j].db \in DBs
    /\ job[j].left \in {<<"create">>, <<"drop">>, <<"sql">>, <<"use", "sql">>}

\* What a thread of a client is doing; its connection is its own.
HandlersFit ==
  /\ \A c \in Clients :
       /\ handler[c].pc # "idle" => handler[c].op \in {"create", "drop", "sql"} /\ handler[c].db \in DBs
       /\ handler[c].pc = "sending" => handler[c].node \in Nodes
       /\ handler[c].pc = "dropped" => handler[c].op = "drop"
       /\ handler[c].pc = "waiting" =>
            /\ handler[c].job \in Jobs
            /\ job[handler[c].job].at # "free" /\ job[handler[c].job].awaited
            /\ job[handler[c].job].db = handler[c].db
            /\ handler[c].op = "drop" /\ Busy(handler[c].job) =>
                 job[handler[c].job].left = <<"drop">>
  /\ \A b, c \in Clients :
       handler[b].pc = "waiting" /\ handler[c].pc = "waiting" /\ handler[b].job = handler[c].job
       => b = c

\* Who may still make database d, or has seen its end.
Asking(d) ==
  {c \in Clients : handler[c].pc = "sending" /\ handler[c].op = "create" /\ handler[c].db = d}
Making(d) ==
  {j \in Jobs : /\ job[j].at \in {"ready", "redirected"}
                /\ job[j].left = <<"create">> /\ job[j].db = d}
Confirmed(d) ==
  {c \in Clients :
     /\ handler[c].op = "drop" /\ handler[c].db = d
     /\ \/ handler[c].pc = "dropped"
        \/ handler[c].pc = "waiting" /\ job[handler[c].job].dropped}

\* All of them lead to the node of the route.
Routes(d) ==
  /\ \A h \in Homes(d) : Routed(d) /\ route[d] = h[1]
  /\ \A c \in Asking(d) : Routed(d) /\ route[d] = handler[c].node
  /\ \A j \in Making(d) : Routed(d) /\ route[d] = job[j].node
  /\ Confirmed(d) # {} => Routed(d)

\* The name of a database passes from the request to create it to the node, from
\* there to its directory, and to the client who is told that it is gone: there
\* is never more than one of them.
OneOf(S) == \A x, y \in S : x = y
OneClaim(d) ==
  /\ OneOf(Homes(d)) /\ OneOf(Asking(d)) /\ OneOf(Making(d)) /\ OneOf(Confirmed(d))
  /\ Homes(d) # {} => Asking(d) = {} /\ Making(d) = {} /\ Confirmed(d) = {}
  /\ Asking(d) # {} => Making(d) = {} /\ Confirmed(d) = {}
  /\ Making(d) # {} => Confirmed(d) = {}

Claims == \A d \in DBs \ (evicted \cup misled) : Routes(d) /\ OneClaim(d)

TypeInv == TypeOK /\ JobsFit /\ HandlersFit

-----------------------------------------------------------------------------
(* Connections *)

LEMMA FreeJobType ==
  /\ FreeJob \in JobRecord
  /\ FreeJob.at = "free" /\ FreeJob.awaited /\ ~FreeJob.dropped
BY DEF FreeJob, JobRecord

\* Two records of a connection that are about the same.
Same(r, q) == r.node = q.node /\ r.db = q.db /\ r.left = q.left /\ r.dropped = q.dropped

LEMMA LeftIs ==
  ASSUME NEW r \in JobRecord
  PROVE  /\ Left(r) \in JobRecord
         /\ \/ Left(r) = FreeJob
            \/ Same(Left(r), r) /\ Left(r).at = r.at /\ ~Left(r).awaited
BY FreeJobType DEF Left, JobRecord, Same

LEMMA EndedIs ==
  ASSUME NEW r \in JobRecord, NEW end \in {"closed", "lost"}
  PROVE  /\ Ended(r, end) \in JobRecord
         /\ \/ Ended(r, end) = FreeJob /\ ~r.awaited
            \/ /\ r.awaited /\ Ended(r, end).awaited
               /\ Same(Ended(r, end), r) /\ Ended(r, end).at = end
BY FreeJobType DEF Ended, JobRecord, Same

LEMMA CommandSeqs ==
  /\ \A x \in Commands : <<x>> \in Seq(Commands)
  /\ \A x, y \in Commands : <<x, y>> \in Seq(Commands) /\ Tail(<<x, y>>) = <<y>>
  /\ \A x : Tail(<<x>>) = <<>>
  /\ <<>> \in Seq(Commands)
OBVIOUS

\* The command of j is done; what it printed is in its own answer, in one that is
\* not the answer to a DROP, or in one to a DROP that it misleads.
LEMMA ExecutedIs ==
  ASSUME TypeInv, NEW j \in Jobs, NEW prints \in BOOLEAN, Executed(j, prints)
  PROVE  /\ job' \in [Jobs -> JobRecord]
         /\ \A k \in Jobs :
              /\ job'[k].node = job[k].node /\ job'[k].db = job[k].db
              /\ job'[k].left = job[k].left /\ job'[k].awaited = job[k].awaited
              /\ job'[k].at = IF k = j THEN "executed" ELSE job[k].at
              /\ job'[k].dropped =>
                   \/ job[k].dropped
                   \/ prints /\ k = j
                   \/ prints /\ Busy(k) /\ (job[k].left # <<"drop">> \/ job[k].db \in misled')
         /\ misled' \subseteq DBs /\ misled \subseteq misled'
<1> DEFINE readers == {k \in Jobs : prints /\ k = cout[job[j].node] /\ Executing(k)}
<1>t. job \in [Jobs -> JobRecord] /\ misled \subseteq DBs
  BY DEF TypeInv, TypeOK, NodesTypeOK
<1>r. readers \subseteq Jobs /\ \A k \in readers : prints /\ Busy(k)
  BY DEF Executing, Busy
<1>j. job' = [k \in Jobs |-> [job[k] EXCEPT !.at = IF k = j THEN "executed" ELSE @,
                                            !.dropped = @ \/ k \in readers]]
  BY DEF Executed
<1>m. misled' = misled \cup {job[k].db : k \in {q \in readers \ {j} : job[q].left = <<"drop">>}}
  BY DEF Executed
<1> HIDE DEF readers
<1>1. ASSUME NEW k \in Jobs
      PROVE  /\ job'[k] \in JobRecord
             /\ job'[k].node = job[k].node /\ job'[k].db = job[k].db
             /\ job'[k].left = job[k].left /\ job'[k].awaited = job[k].awaited
             /\ job'[k].at = IF k = j THEN "executed" ELSE job[k].at
             /\ job'[k].dropped <=> (job[k].dropped \/ k \in readers)
  <2> DEFINE d == job[k].dropped \/ k \in readers
             a == IF k = j THEN "executed" ELSE job[k].at
  <2>1. job[k] \in JobRecord
    BY <1>t
  <2>2. d \in BOOLEAN
    OBVIOUS
  <2>3. a \in {"free", "ready", "redirected", "executed", "closed", "lost"}
    BY <2>1 DEF JobRecord
  <2>4. job'[k] = [job[k] EXCEPT !.at = a, !.dropped = d]
    BY <1>j
  <2>5. ASSUME NEW e \in BOOLEAN, NEW b \in {"free", "ready", "redirected", "executed", "closed", "lost"},
               job'[k] = [job[k] EXCEPT !.at = b, !.dropped = e]
        PROVE  /\ job'[k] \in JobRecord
               /\ job'[k].node = job[k].node /\ job'[k].db = job[k].db
               /\ job'[k].left = job[k].left /\ job'[k].awaited = job[k].awaited
               /\ job'[k].at = b /\ job'[k].dropped = e
    BY <2>1, <2>5 DEF JobRecord
  <2> HIDE DEF d, a
  <2>6. /\ job'[k] \in JobRecord
        /\ job'[k].node = job[k].node /\ job'[k].db = job[k].db
        /\ job'[k].left = job[k].left /\ job'[k].awaited = job[k].awaited
        /\ job'[k].at = a /\ job'[k].dropped = d
    BY <2>2, <2>3, <2>4, <2>5
  <2> QED
    BY <2>6, Zenon DEF a, d
<1>2. job' = [k \in Jobs |-> job'[k]]
  BY <1>j
<1>3. \A k \in readers : k = j \/ job[k].left # <<"drop">> \/ job[k].db \in misled'
  BY <1>m
<1>4. misled' \subseteq DBs /\ misled \subseteq misled'
  <2>1. ASSUME NEW k \in readers, job[k].left = <<"drop">> PROVE job[k].db \in DBs
    <3>1. Busy(k) /\ k \in Jobs
      BY <1>r, <2>1
    <3> QED
      BY <3>1 DEF TypeInv, JobsFit
  <2> QED
    BY <1>m, <1>t, <2>1
<1> QED
  BY <1>1, <1>2, <1>3, <1>4, <1>r

\* A thread of a node goes on with its command: nothing but its progress and what
\* was printed changes.
LEMMA WorkStep ==
  ASSUME TypeInv, NEW j \in Jobs,
         Redirect(j) \/ Use(j) \/ RunStatement(j) \/ Create(j) \/ Drop(j)
  PROVE  /\ Busy(j) /\ job' \in [Jobs -> JobRecord]
         /\ job'[j].at \in {"redirected", "executed"}
         /\ \A k \in Jobs :
              /\ job'[k].node = job[k].node /\ job'[k].db = job[k].db
              /\ job'[k].left = job[k].left /\ job'[k].awaited = job[k].awaited
              /\ k # j => job'[k].at = job[k].at
         /\ misled' \subseteq DBs /\ misled \subseteq misled'
<1> DEFINE n == job[j].node
<1>m. misled \subseteq DBs
  BY DEF TypeInv, TypeOK, NodesTypeOK
<1>t. job \in [Jobs -> JobRecord] /\ cout \in [Nodes -> Jobs \cup {None}]
  BY DEF TypeInv, TypeOK, NodesTypeOK
<1>n. Busy(j) => n \in Nodes
  BY DEF TypeInv, JobsFit
<1>1. CASE Redirect(j)
  <2>1. Busy(j) /\ job' = [job EXCEPT ![j].at = "redirected", ![j].saved = cout[n]]
    BY <1>1 DEF Redirect, Busy
  <2>2. cout[n] \in Jobs \cup {None}
    BY <1>t, <1>n, <2>1
  <2>3. misled' = misled
    BY <1>1 DEF Redirect
  <2> HIDE DEF n
  <2>4. job' \in [Jobs -> JobRecord]
    <3> DEFINE x == cout[n]
    <3>1. x \in Jobs \cup {None}
      BY <2>2
    <3>2. job' = [job EXCEPT ![j].at = "redirected", ![j].saved = x]
      BY <2>1
    <3> HIDE DEF x
    <3>3. \A r \in JobRecord : [r EXCEPT !.at = "redirected", !.saved = x] \in JobRecord
      BY <3>1 DEF JobRecord
    <3>4. job' = [job EXCEPT ![j] = [job[j] EXCEPT !.at = "redirected", !.saved = x]]
      BY <1>t, <3>2 DEF JobRecord
    <3> QED
      BY <1>t, <3>3, <3>4
  <2>5. /\ job'[j].at = "redirected"
        /\ \A k \in Jobs :
             /\ job'[k].node = job[k].node /\ job'[k].db = job[k].db
             /\ job'[k].left = job[k].left /\ job'[k].awaited = job[k].awaited
             /\ k # j => job'[k].at = job[k].at
    BY <1>t, <2>1 DEF JobRecord
  <2> QED
    BY <1>m, <2>1, <2>3, <2>4, <2>5
<1>2. ASSUME NEW prints \in BOOLEAN, Executed(j, prints), job[j].at = "redirected"
      PROVE  /\ Busy(j) /\ job' \in [Jobs -> JobRecord]
             /\ job'[j].at \in {"redirected", "executed"}
             /\ \A k \in Jobs :
                  /\ job'[k].node = job[k].node /\ job'[k].db = job[k].db
                  /\ job'[k].left = job[k].left /\ job'[k].awaited = job[k].awaited
                  /\ k # j => job'[k].at = job[k].at
             /\ misled' \subseteq DBs /\ misled \subseteq misled'
  BY <1>2, ExecutedIs DEF Busy
<1>3. CASE Use(j) \/ RunStatement(j) \/ Create(j) \/ Drop(j)
  <2>1. PICK prints \in BOOLEAN : Executed(j, prints)
    <3>1. CASE Use(j) \/ RunStatement(j) \/ Create(j)
      BY <3>1 DEF Use, RunStatement, Create
    <3>2. CASE Drop(j)
      <4> DEFINE done == job[j].db \in dbs[job[j].node][Starter(job[j].node)]
      <4>1. done \in BOOLEAN
        OBVIOUS
      <4>2. Executed(j, done)
        BY <3>2 DEF Drop
      <4> HIDE DEF done
      <4> QED
        BY <4>1, <4>2
    <3> QED
      BY <1>3, <3>1, <3>2
  <2>2. job[j].at = "redirected"
    BY <1>3 DEF Use, RunStatement, Create, Drop, Doing
  <2> QED
    BY <1>2, <2>1, <2>2
<1> QED
  BY <1>1, <1>3

\* The connections of a node whose process dies.
LEMMA OrphanedIs ==
  ASSUME TypeInv, NEW n, job' = Orphaned(n)
  PROVE  /\ job' \in [Jobs -> JobRecord]
         /\ \A k \in Jobs : \/ job'[k] = job[k] /\ (job[k].node = n => ~Busy(k))
                            \/ job'[k] = FreeJob /\ ~job[k].awaited
                            \/ /\ job[k].awaited /\ job'[k].awaited
                               /\ Same(job'[k], job[k]) /\ job'[k].at = "lost"
<1>1. job \in [Jobs -> JobRecord]
  BY DEF TypeInv, TypeOK, NodesTypeOK
<1>2. \A k \in Jobs : /\ Ended(job[k], "lost") \in JobRecord
                      /\ \/ Ended(job[k], "lost") = FreeJob /\ ~job[k].awaited
                         \/ /\ job[k].awaited /\ Ended(job[k], "lost").awaited
                            /\ Same(Ended(job[k], "lost"), job[k]) /\ Ended(job[k], "lost").at = "lost"
  BY <1>1, EndedIs
<1> QED
  BY <1>1, <1>2 DEF Orphaned, Busy

LEMMA RestoreIs ==
  ASSUME TypeInv, NEW j \in Jobs, Restore(j)
  PROVE  /\ job[j].at = "executed" /\ job[j].node \in Nodes
         /\ job' \in [Jobs -> JobRecord]
         /\ \A k \in Jobs : k # j => job'[k] = job[k]
         /\ \/ job'[j] = FreeJob /\ ~job[j].awaited
            \/ /\ job'[j].node = job[j].node /\ job'[j].db = job[j].db
               /\ job'[j].awaited = job[j].awaited /\ job'[j].dropped = job[j].dropped
               /\ \/ job'[j].at = "closed" /\ job[j].awaited
                  \/ /\ job'[j].at = "ready"
                     /\ job'[j].left = <<"sql">> /\ job[j].left = <<"use", "sql">>
<1> DEFINE rest == [job[j] EXCEPT !.left = Tail(@), !.at = "ready", !.saved = None]
           r == IF rest.left = <<>> THEN Ended(rest, "closed") ELSE rest
<1>1. job \in [Jobs -> JobRecord] /\ job[j].at = "executed" /\ job' = [job EXCEPT ![j] = r]
  BY DEF TypeInv, TypeOK, NodesTypeOK, Restore
<1>2. job[j].node \in Nodes /\ job[j].left \in {<<"create">>, <<"drop">>, <<"sql">>, <<"use", "sql">>}
  BY <1>1 DEF TypeInv, JobsFit, Busy
<1>3. /\ Tail(job[j].left) \in {<<>>, <<"sql">>}
      /\ Tail(job[j].left) = <<"sql">> => job[j].left = <<"use", "sql">>
      /\ <<"sql">> # <<>> /\ <<"sql">> \in Seq(Commands) /\ <<>> \in Seq(Commands)
  <2>1. \A x : Tail(<<x>>) = <<>> /\ <<x>> # <<>>
    OBVIOUS
  <2>2. Tail(<<"use", "sql">>) = <<"sql">>
    OBVIOUS
  <2>3. <<"sql">> \in Seq(Commands) /\ <<>> \in Seq(Commands)
    BY CommandSeqs DEF Commands
  <2> QED
    BY <1>2, <2>1, <2>2, <2>3
<1>4. /\ rest \in JobRecord /\ rest.left = Tail(job[j].left) /\ rest.at = "ready"
      /\ rest.node = job[j].node /\ rest.db = job[j].db
      /\ rest.awaited = job[j].awaited /\ rest.dropped = job[j].dropped
  <2>1. job[j] \in JobRecord
    BY <1>1
  <2>2. Tail(job[j].left) \in Seq(Commands)
    BY <1>3
  <2> QED
    BY <2>1, <2>2 DEF JobRecord
<1> HIDE DEF rest
<1>5. /\ Ended(rest, "closed") \in JobRecord
      /\ \/ Ended(rest, "closed") = FreeJob /\ ~rest.awaited
         \/ /\ rest.awaited /\ Ended(rest, "closed").awaited
            /\ Same(Ended(rest, "closed"), rest) /\ Ended(rest, "closed").at = "closed"
  BY <1>4, EndedIs
<1>6. r \in JobRecord
  BY <1>4, <1>5
<1>7. job' \in [Jobs -> JobRecord] /\ job'[j] = r /\ \A k \in Jobs : k # j => job'[k] = job[k]
  BY <1>1, <1>6
<1> QED
  BY <1>1, <1>2, <1>3, <1>4, <1>5, <1>7 DEF Same

\* A connection that the entry point leaves.
LEMMA LeaveIs ==
  ASSUME TypeInv, NEW j, job' = [job EXCEPT ![j] = Left(@)]
  PROVE  /\ job' \in [Jobs -> JobRecord]
         /\ \A k \in Jobs : \/ job'[k] = job[k]
                            \/ k = j /\ job'[k] = FreeJob
                            \/ /\ k = j /\ Same(job'[k], job[k])
                               /\ job'[k].at = job[k].at /\ ~job'[k].awaited
<1>1. job \in [Jobs -> JobRecord]
  BY DEF TypeInv, TypeOK, NodesTypeOK
<1> QED
  BY <1>1, LeftIs

LEMMA AcceptIs ==
  ASSUME TypeInv, NEW c \in Clients, NEW j \in Jobs, Send(c, j)
  PROVE  /\ handler[c].pc = "sending" /\ job[j].at = "free"
         /\ handler[c].node \in Nodes /\ handler[c].db \in DBs
         /\ CommandsOf(handler[c]) \in {<<"create">>, <<"drop">>, <<"use", "sql">>}
         /\ CommandsOf(handler[c]) = <<"create">> => handler[c].op = "create"
         /\ handler[c].op = "drop" => CommandsOf(handler[c]) = <<"drop">>
         /\ job' \in [Jobs -> JobRecord]
         /\ \A k \in Jobs : k # j => job'[k] = job[k]
         /\ job'[j].at = "ready" /\ job'[j].node = handler[c].node /\ job'[j].db = handler[c].db
         /\ job'[j].left = CommandsOf(handler[c]) /\ job'[j].awaited /\ ~job'[j].dropped
<1> DEFINE h == handler[c]
<1>1. /\ h.pc = "sending" /\ job[j].at = "free"
      /\ job' = [job EXCEPT ![j] = [FreeJob EXCEPT !.at = "ready", !.node = h.node, !.db = h.db,
                                                   !.left = CommandsOf(h)]]
  BY DEF Send, Accept
<1>2. /\ h.node \in Nodes /\ h.db \in DBs /\ h.op \in {"create", "drop", "sql"}
      /\ job \in [Jobs -> JobRecord]
  BY <1>1 DEF TypeInv, HandlersFit, TypeOK, NodesTypeOK, Handler
<1>3. /\ CommandsOf(h) \in {<<"create">>, <<"drop">>, <<"use", "sql">>}
      /\ CommandsOf(h) = <<"create">> => h.op = "create"
      /\ h.op = "drop" => CommandsOf(h) = <<"drop">>
      /\ CommandsOf(h) \in Seq(Commands)
  <2>1. CASE h.op = "sql"
    BY <2>1, CommandSeqs DEF CommandsOf, Commands
  <2>2. CASE h.op \in {"create", "drop"}
    BY <2>2, CommandSeqs DEF CommandsOf, Commands
  <2> QED
    BY <1>2, <2>1, <2>2
<1> HIDE DEF h
<1> DEFINE new == [FreeJob EXCEPT !.at = "ready", !.node = h.node, !.db = h.db, !.left = CommandsOf(h)]
<1>4. /\ new \in JobRecord
      /\ new.at = "ready" /\ new.node = h.node /\ new.db = h.db
      /\ new.left = CommandsOf(h) /\ new.awaited /\ ~new.dropped
  BY <1>2, <1>3 DEF JobRecord, FreeJob
<1>5. job' = [job EXCEPT ![j] = new]
  BY <1>1
<1> HIDE DEF new
<1>6. /\ job' \in [Jobs -> JobRecord] /\ job'[j] = new
      /\ \A k \in Jobs : k # j => job'[k] = job[k]
  BY <1>2, <1>4, <1>5
<1> QED
  BY <1>1, <1>2, <1>3, <1>4, <1>6 DEF h

-----------------------------------------------------------------------------
(* Types *)

LEMMA InitType == Init => TypeInv
<1> SUFFICES ASSUME Init PROVE TypeInv
  OBVIOUS
<1>1. NodesTypeOK
  BY FreeJobType DEF Init, NodesInit, NodesTypeOK, Processes
<1>2. TypeOK
  BY <1>1, ClusterAssumption DEF Init, EntryInit, TypeOK, IdleHandler, Handler, IsInjective, Range
<1>3. JobsFit /\ HandlersFit
  BY DEF Init, NodesInit, EntryInit, JobsFit, HandlersFit, Busy, FreeJob, IdleHandler
<1> QED
  BY <1>2, <1>3 DEF TypeInv

LEMMA NextNodesType == TypeInv /\ [Next]_vars => NodesTypeOK'
<1> SUFFICES ASSUME TypeInv, [Next]_vars PROVE NodesTypeOK'
  OBVIOUS
<1>t. /\ process \in [Nodes -> Processes] /\ misled \subseteq DBs
      /\ dbs \in [Nodes -> [Starters -> SUBSET DBs]]
      /\ current \in [Nodes -> [Starters -> DBs \cup {None}]]
      /\ cout \in [Nodes -> Jobs \cup {None}] /\ job \in [Jobs -> JobRecord]
  BY DEF TypeInv, TypeOK, NodesTypeOK
<1>b. \A j \in Jobs : Busy(j) => job[j].node \in Nodes /\ job[j].db \in DBs
  BY DEF TypeInv, JobsFit
<1>1. ASSUME NEW j \in Jobs, Redirect(j) PROVE NodesTypeOK'
  <2>1. Busy(j) /\ job' \in [Jobs -> JobRecord]
    BY <1>1, WorkStep
  <2> QED
    BY <1>t, <1>1, <2>1 DEF Redirect, NodesTypeOK
<1>2. ASSUME NEW j \in Jobs, Use(j) \/ RunStatement(j) \/ Create(j) \/ Drop(j) PROVE NodesTypeOK'
  <2>1. Busy(j) /\ job' \in [Jobs -> JobRecord] /\ misled' \subseteq DBs
    BY <1>2, WorkStep
  <2>2. job[j].node \in Nodes /\ job[j].db \in DBs /\ Starter(job[j].node) \in Starters
    BY <1>t, <1>b, <2>1 DEF Starter, Starters
  <2>3. CASE Use(j)
    BY <1>t, <2>1, <2>2, <2>3 DEF Use, NodesTypeOK
  <2>4. CASE RunStatement(j)
    BY <1>t, <2>1, <2>4 DEF RunStatement, NodesTypeOK
  <2>5. CASE Create(j)
    BY <1>t, <2>1, <2>2, <2>5 DEF Create, NodesTypeOK
  <2>6. CASE Drop(j)
    BY <1>t, <2>1, <2>2, <2>6 DEF Drop, NodesTypeOK
  <2> QED
    BY <1>2, <2>3, <2>4, <2>5, <2>6
<1>3. ASSUME NEW j \in Jobs, Restore(j) PROVE NodesTypeOK'
  <2>1. job' \in [Jobs -> JobRecord] /\ job[j].node \in Nodes
    BY <1>3, RestoreIs
  <2>2. job[j].saved \in Jobs \cup {None}
    BY <1>t DEF JobRecord
  <2> QED
    BY <1>t, <1>3, <2>1, <2>2 DEF Restore, NodesTypeOK
<1>4. ASSUME NEW n \in Nodes, Kill(n) PROVE NodesTypeOK'
  BY <1>t, <1>4, OrphanedIs DEF Kill, NodesTypeOK, Processes
<1>5. ASSUME NEW n \in Nodes, StartByOperator(n) PROVE NodesTypeOK'
  BY <1>t, <1>5 DEF StartByOperator, NodesTypeOK, Processes
<1>6. ASSUME NEW c \in Clients, NEW j \in Jobs, Send(c, j) PROVE NodesTypeOK'
  BY <1>t, <1>6, AcceptIs DEF Send, Accept, NodesTypeOK
<1>7. ASSUME NEW c \in Clients, Receive(c) \/ Timeout(c) PROVE NodesTypeOK'
  BY <1>t, <1>7, LeaveIs DEF Receive, Timeout, NodesTypeOK
<1>8. CASE RestartStorageNode
  <2>1. UNCHANGED <<dbs, current, misled>>
    BY <1>8 DEF RestartStorageNode, BeatGoesOn
  <2>2. CASE UNCHANGED <<process, cout, job>>
    BY <1>t, <2>1, <2>2 DEF NodesTypeOK
  <2>3. CASE ~UNCHANGED <<process, cout, job>>
    <3>1. PICK new \in {"none", "child"} :
            /\ job' = Orphaned(Checked) /\ cout' = [cout EXCEPT ![Checked] = None]
            /\ process' = [process EXCEPT ![Checked] = new]
      BY <1>8, <2>3 DEF RestartStorageNode
    <3>2. process' \in [Nodes -> Processes]
      BY <1>t, <3>1 DEF Processes
    <3>3. job' \in [Jobs -> JobRecord]
      BY <3>1, OrphanedIs
    <3>4. cout' \in [Nodes -> Jobs \cup {None}]
      BY <1>t, <3>1
    <3> QED
      BY <1>t, <2>1, <3>2, <3>3, <3>4 DEF NodesTypeOK
  <2> QED
    BY <2>2, <2>3
<1>9. CASE RestartEntry
  <2>1. job' \in [Jobs -> JobRecord]
    BY <1>t, <1>9, LeftIs DEF RestartEntry
  <2> QED
    BY <1>t, <1>9, <2>1 DEF RestartEntry, NodesTypeOK
<1>10. CASE UNCHANGED nodeVars
  BY <1>t, <1>10 DEF nodeVars, NodesTypeOK
<1>11. ASSUME NEW c \in Clients, NEW d \in DBs, NEW op \in Requests, Request(c, op, d)
       PROVE  UNCHANGED nodeVars
  BY <1>11 DEF Request
<1>12. ASSUME NEW c \in Clients, SendFails(c) \/ LockingStep(c) PROVE UNCHANGED nodeVars
  BY <1>12 DEF SendFails, LockingStep, CreateDatabase, AskNodeOfDatabase, Refuse, EraseRoute
<1>13. ASSUME NEW n \in Nodes, AddStorage(n) \/ RemoveStorage(n) PROVE NodesTypeOK'
  <2>1. CASE AddStorage(n)
    BY <1>10, <2>1 DEF AddStorage
  <2>2. CASE RemoveStorage(n)
    <3>1. UNCHANGED <<dbs, current, cout, job, misled>>
      BY <2>2 DEF RemoveStorage
    <3>2. process' \in [Nodes -> Processes]
      BY <1>t, <2>2 DEF RemoveStorage, Processes
    <3> QED
      BY <1>t, <3>1, <3>2 DEF NodesTypeOK
  <2> QED
    BY <1>13, <2>1, <2>2
<1>14. CASE BeatQuiet \/ UNCHANGED vars
  BY <1>10, <1>14 DEF BeatQuiet, BeatGoesOn, vars, nodeVars
<1> QED
  BY <1>1, <1>2, <1>3, <1>4, <1>5, <1>6, <1>7, <1>8, <1>9, <1>10, <1>11, <1>12, <1>13, <1>14
  DEF Next, NodeStep, JobStep, ClientStep, BeatStep

LEMMA WithoutAtIs ==
  ASSUME NEW i \in DOMAIN nodes, nodes \in Seq(Nodes), IsInjective(nodes)
  PROVE  /\ WithoutAt(i) \in Seq(Nodes) /\ IsInjective(WithoutAt(i))
         /\ Range(WithoutAt(i)) = Range(nodes) \ {nodes[i]}
<1> DEFINE m == Len(nodes) - 1
           p(k) == IF k < i THEN k ELSE k + 1
<1>1. Len(nodes) \in Nat /\ DOMAIN nodes = 1 .. Len(nodes) /\ i \in 1 .. Len(nodes)
      /\ \A k \in DOMAIN nodes : nodes[k] \in Nodes
  OBVIOUS
<1>2. m \in Nat
  BY <1>1
<1>3. \A k \in 1 .. m : p(k) \in DOMAIN nodes /\ p(k) # i
  BY <1>1
<1>4. \A k, l \in 1 .. m : p(k) = p(l) => k = l
  BY <1>1
<1>5. \A q \in DOMAIN nodes : q # i => \E k \in 1 .. m : p(k) = q
  <2> SUFFICES ASSUME NEW q \in DOMAIN nodes, q # i PROVE \E k \in 1 .. m : p(k) = q
    OBVIOUS
  <2>1. CASE q < i
    <3>1. q \in 1 .. m /\ p(q) = q
      BY <1>1, <2>1
    <3> QED
      BY <3>1
  <2>2. CASE q > i
    <3>1. q - 1 \in 1 .. m /\ p(q - 1) = q
      BY <1>1, <2>2
    <3> QED
      BY <3>1
  <2> QED
    BY <1>1, <2>1, <2>2
<1>6. WithoutAt(i) = [k \in 1 .. m |-> nodes[p(k)]]
  BY DEF WithoutAt
<1> HIDE DEF m, p
<1>7. \A k \in 1 .. m : nodes[p(k)] \in Nodes
  BY <1>1, <1>3
<1>8. WithoutAt(i) \in Seq(Nodes)
  BY <1>2, <1>6, <1>7
<1>9. IsInjective(WithoutAt(i))
  BY <1>3, <1>4, <1>6 DEF IsInjective
<1>10. Range(WithoutAt(i)) = Range(nodes) \ {nodes[i]}
  BY <1>3, <1>5, <1>6 DEF Range, IsInjective
<1> QED
  BY <1>8, <1>9, <1>10

LEMMA NextEntryType == TypeInv /\ [Next]_vars => TypeOK'
<1> SUFFICES ASSUME TypeInv, [Next]_vars PROVE TypeOK'
  OBVIOUS
<1> DEFINE EntryOK ==
      /\ nodes \in Seq(Nodes) /\ IsInjective(nodes)
      /\ alive \in [Nodes -> BOOLEAN]
      /\ DOMAIN route \subseteq DBs /\ Range(route) \subseteq Nodes
      /\ next \in 0 .. (Cycle - 1)
      /\ beat \in Nat /\ (beat = 0 \/ beat < Len(nodes))
      /\ handler \in [Clients -> Handler] /\ evicted \subseteq DBs
<1>t. EntryOK
  BY DEF TypeInv, TypeOK
<1>n. NodesTypeOK'
  BY NextNodesType
<1>0. SUFFICES EntryOK'
  BY <1>n DEF TypeOK
<1>i. IdleHandler \in Handler
  BY DEF IdleHandler, Handler
<1>1. ASSUME UNCHANGED <<nodes, alive, route, next, beat, evicted>>, handler' \in [Clients -> Handler]
      PROVE  EntryOK'
  BY <1>t, <1>1 DEF Range, IsInjective
<1>2. ASSUME NEW n \in Nodes, AddStorage(n) PROVE EntryOK'
  <2>1. nodes' = Append(nodes, n) /\ n \notin Range(nodes) /\ beat' = 0
    BY <1>2 DEF AddStorage, Registered, FreeMutex
  <2>2. nodes' \in Seq(Nodes) /\ IsInjective(nodes')
    BY <1>t, <2>1 DEF Range, IsInjective
  <2> QED
    BY <1>t, <1>2, <2>1, <2>2 DEF AddStorage
<1>3. ASSUME NEW n \in Nodes, RemoveStorage(n) PROVE EntryOK'
  <2>1. PICK i \in DOMAIN nodes : nodes[i] = n /\ nodes' = WithoutAt(i)
    BY <1>3 DEF RemoveStorage
  <2>2. nodes' \in Seq(Nodes) /\ IsInjective(nodes')
    BY <1>t, <2>1, WithoutAtIs
  <2>3. beat' = 0 /\ UNCHANGED <<next, handler>>
        /\ alive' = [alive EXCEPT ![n] = FALSE]
    BY <1>3 DEF RemoveStorage, FreeMutex
  <2>4. DOMAIN route' \subseteq DBs /\ Range(route') \subseteq Nodes
    BY <1>t, <1>3 DEF RemoveStorage, Restrict, Range
  <2>5. evicted' \subseteq DBs
    BY <1>t, <1>3 DEF RemoveStorage, RoutedTo
  <2> QED
    BY <1>t, <2>2, <2>3, <2>4, <2>5
<1>4. ASSUME NEW c \in Clients, NEW n \in Nodes, AskNode(c, n)
      PROVE  handler' \in [Clients -> Handler]
  <2>1. \A h \in Handler : [h EXCEPT !.pc = "sending", !.node = n] \in Handler
    BY DEF Handler
  <2>2. handler' = [handler EXCEPT ![c] = [handler[c] EXCEPT !.pc = "sending", !.node = n]]
    BY <1>t, <1>4 DEF AskNode, Handler
  <2> QED
    BY <1>t, <2>1, <2>2
<1>5. ASSUME NEW c \in Clients, CreateDatabase(c) PROVE EntryOK'
  <2> DEFINE d == handler[c].db
  <2>1. PICK i \in DOMAIN nodes : AskNode(c, nodes[i]) /\ route' = Put(route, d, nodes[i])
    BY <1>5 DEF CreateDatabase
  <2>2. nodes[i] \in Nodes /\ d \in DBs
    BY <1>t, <1>5 DEF CreateDatabase, Asks, TypeInv, HandlersFit
  <2>3. handler' \in [Clients -> Handler]
    BY <1>4, <2>1, <2>2
  <2> HIDE DEF d
  <2>4. DOMAIN route' \subseteq DBs /\ Range(route') \subseteq Nodes
    BY <1>t, <2>1, <2>2 DEF Put, Range
  <2>5. next' \in 0 .. (Cycle - 1) /\ UNCHANGED <<nodes, alive, beat, evicted>>
    <3>1. next' = (next + 1) % Cycle /\ UNCHANGED <<nodes, alive, beat, evicted>>
      BY <1>5 DEF CreateDatabase
    <3>2. Cycle \in Nat \ {0} /\ next + 1 \in Nat
      BY <1>t, ClusterAssumption
    <3>3. \A a \in Nat, b \in Nat \ {0} : a % b \in 0 .. (b - 1)
      OBVIOUS
    <3> QED
      BY <3>1, <3>2, <3>3
  <2> QED
    BY <1>t, <2>3, <2>4, <2>5 DEF IsInjective
<1>6. ASSUME NEW c \in Clients, AskNodeOfDatabase(c) PROVE EntryOK'
  <2>1. AskNode(c, route[handler[c].db]) /\ handler[c].db \in DOMAIN route
    BY <1>6 DEF AskNodeOfDatabase, Routed
  <2>2. route[handler[c].db] \in Nodes
    BY <1>t, <2>1 DEF Range
  <2> QED
    BY <1>1, <1>4, <1>6, <2>1, <2>2 DEF AskNodeOfDatabase
<1>7. ASSUME NEW c \in Clients, NEW j \in Jobs, Send(c, j) PROVE EntryOK'
  <2>1. handler' \in [Clients -> Handler]
    BY <1>t, <1>7, ZenonT(40) DEF Send, Handler
  <2> QED
    BY <1>1, <1>7, <2>1 DEF Send
<1>8. ASSUME NEW c \in Clients, Refuse(c) \/ SendFails(c) \/ Receive(c) \/ Timeout(c) PROVE EntryOK'
  <2>1. CASE Refuse(c) \/ SendFails(c) \/ Timeout(c)
    <3>1. handler' \in [Clients -> Handler]
      BY <1>t, <1>i, <2>1 DEF Refuse, SendFails, Timeout
    <3> QED
      BY <1>1, <2>1, <3>1 DEF Refuse, SendFails, Timeout
  <2>2. CASE Receive(c)
    <3>1. handler[c] \in Handler
      BY <1>t
    <3>2. [handler[c] EXCEPT !.pc = "dropped", !.job = None] \in Handler
      BY <3>1 DEF Handler
    <3>3. handler' \in [Clients -> Handler]
      BY <1>t, <1>i, <2>2, <3>2 DEF Receive
    <3> QED
      BY <1>1, <2>2, <3>3 DEF Receive
  <2> QED
    BY <1>8, <2>1, <2>2
<1>9. ASSUME NEW c \in Clients, EraseRoute(c) PROVE EntryOK'
  <2>1. handler' \in [Clients -> Handler] /\ UNCHANGED <<nodes, alive, next, beat, evicted>>
    BY <1>t, <1>i, <1>9 DEF EraseRoute
  <2>2. DOMAIN route' \subseteq DBs /\ Range(route') \subseteq Nodes
    BY <1>t, <1>9 DEF EraseRoute, Restrict, Range
  <2> QED
    BY <1>t, <2>1, <2>2 DEF IsInjective
<1>10. CASE BeatStep
  <2>1. beat < Len(nodes) /\ beat' = (beat + 1) % Len(nodes)
        /\ UNCHANGED <<nodes, route, next, handler, evicted>>
    BY <1>10 DEF BeatStep, BeatQuiet, RestartStorageNode, BeatGoesOn
  <2>2. beat' \in Nat /\ beat' < Len(nodes)
    <3>1. \A a \in Nat, b \in Nat \ {0} : a % b \in 0 .. (b - 1)
      OBVIOUS
    <3>2. Len(nodes) \in Nat \ {0} /\ beat + 1 \in Nat
      BY <1>t, <2>1
    <3> QED
      BY <2>1, <3>1, <3>2, SMTT(30)
  <2>3. alive' \in [Nodes -> BOOLEAN]
    <3>1. CASE BeatQuiet
      BY <1>t, <3>1 DEF BeatQuiet, Up
    <3>2. CASE RestartStorageNode
      BY <1>t, <3>2 DEF RestartStorageNode
    <3> QED
      BY <1>10, <3>1, <3>2 DEF BeatStep
  <2> QED
    BY <1>t, <2>1, <2>2, <2>3 DEF IsInjective, Range
<1>11. CASE RestartEntry
  <2>1. 0 \in 0 .. (Cycle - 1)
    BY ClusterAssumption
  <2> QED
    BY <1>t, <1>i, <1>11, <2>1 DEF RestartEntry, IsInjective, Range
<1>12. CASE UNCHANGED entryVars
  BY <1>1, <1>t, <1>12 DEF entryVars
<1>13. ASSUME NEW c \in Clients, NEW d \in DBs, NEW op \in Requests, Request(c, op, d) PROVE EntryOK'
  <2>1. handler' \in [Clients -> Handler]
    BY <1>t, <1>i, <1>13, ClusterAssumption DEF Request, Handler, IdleHandler
  <2> QED
    BY <1>1, <1>13, <2>1 DEF Request
<1> HIDE DEF EntryOK
<1> QED
  BY <1>2, <1>3, <1>5, <1>6, <1>7, <1>8, <1>9, <1>10, <1>11, <1>12, <1>13
  DEF Next, ClientStep, LockingStep, vars

\* The steps, by what they do to connections and to the threads of the clients.
LEMMA StepCases ==
  ASSUME [Next]_vars
  PROVE  \/ (\E j \in Jobs : JobStep(j)) /\ UNCHANGED entryVars
         \/ (\E n \in Nodes : Kill(n)) /\ UNCHANGED entryVars
         \/ \E c \in Clients, j \in Jobs : Send(c, j)
         \/ \E c \in Clients : Receive(c) \/ Timeout(c)
         \/ RestartStorageNode
         \/ RestartEntry
         \/ /\ UNCHANGED <<dbs, cout, job>>
            /\ \/ UNCHANGED handler
               \/ \E c \in Clients : SendFails(c) \/ LockingStep(c)
               \/ \E c \in Clients, d \in DBs, op \in Requests : Request(c, op, d)
<1>1. ASSUME NEW n \in Nodes, StartByOperator(n), UNCHANGED entryVars
      PROVE  UNCHANGED <<dbs, cout, job, handler>>
  BY <1>1 DEF StartByOperator, entryVars
<1>2. ASSUME NEW n \in Nodes, AddStorage(n) \/ RemoveStorage(n) PROVE UNCHANGED <<dbs, cout, job, handler>>
  BY <1>2 DEF AddStorage, RemoveStorage, nodeVars
<1>3. ASSUME NEW c \in Clients, SendFails(c) \/ LockingStep(c) PROVE UNCHANGED <<dbs, cout, job>>
  BY <1>3 DEF SendFails, LockingStep, CreateDatabase, AskNodeOfDatabase, Refuse, EraseRoute, nodeVars
<1>4. ASSUME NEW c \in Clients, NEW d \in DBs, NEW op \in Requests, Request(c, op, d)
      PROVE  UNCHANGED <<dbs, cout, job>>
  BY <1>4 DEF Request, nodeVars
<1>5. CASE BeatQuiet \/ UNCHANGED vars
  BY <1>5 DEF BeatQuiet, BeatGoesOn, vars, nodeVars, entryVars
<1> QED
  BY <1>1, <1>2, <1>3, <1>4, <1>5 DEF Next, NodeStep, ClientStep, BeatStep

\* What the threads of the nodes do to a connection that somebody listens to.
LEMMA JobStepIs ==
  ASSUME TypeInv, NEW j \in Jobs, JobStep(j)
  PROVE  /\ \A k \in Jobs : k # j => job'[k].at = job[k].at
         /\ \A k \in Jobs :
              /\ job[k].awaited /\ job[k].at # "free" =>
                   /\ job'[k].awaited /\ job'[k].at # "free"
                   /\ job'[k].db = job[k].db /\ job'[k].node = job[k].node
              /\ Busy(k)' => /\ Busy(k) /\ job'[k].node = job[k].node /\ job'[k].db = job[k].db
                             /\ \/ job'[k].left = job[k].left
                                \/ job'[k].left = <<"sql">> /\ job[k].left = <<"use", "sql">>
<1>1. CASE Restore(j)
  BY <1>1, RestoreIs DEF Busy, FreeJob
<1>2. CASE Redirect(j) \/ Use(j) \/ RunStatement(j) \/ Create(j) \/ Drop(j)
  BY <1>2, WorkStep DEF Busy
<1> QED
  BY <1>1, <1>2 DEF JobStep

LEMMA NextJobsFit == TypeInv /\ [Next]_vars => JobsFit'
<1> SUFFICES ASSUME TypeInv, [Next]_vars PROVE JobsFit'
  OBVIOUS
<1> USE DEF Busy, JobsFit
<1>0. JobsFit /\ job \in [Jobs -> JobRecord]
  BY DEF TypeInv, TypeOK, NodesTypeOK
<1>1. ASSUME NEW j \in Jobs, JobStep(j) PROVE JobsFit'
  <2>1. <<"sql">> \in {<<"create">>, <<"drop">>, <<"sql">>, <<"use", "sql">>}
    OBVIOUS
  <2> QED
    BY <1>0, <1>1, <2>1, JobStepIs
<1>2. ASSUME NEW n, job' = Orphaned(n) PROVE JobsFit'
  BY <1>0, <1>2, OrphanedIs, FreeJobType DEF Same
<1>3. ASSUME NEW c \in Clients, NEW j \in Jobs, Send(c, j) PROVE JobsFit'
  BY <1>0, <1>3, AcceptIs
<1>4. ASSUME NEW c \in Clients, Receive(c) \/ Timeout(c) PROVE JobsFit'
  <2>1. job' = [job EXCEPT ![handler[c].job] = Left(@)]
    BY <1>4 DEF Receive, Timeout
  <2>2. \A k \in Jobs : \/ job'[k] = job[k] \/ job'[k] = FreeJob
                        \/ Same(job'[k], job[k]) /\ job'[k].at = job[k].at
    BY <2>1, LeaveIs
  <2> QED
    BY <1>0, <2>2, FreeJobType DEF Same
<1>5. CASE RestartEntry
  <2>1. \A k \in Jobs : job'[k] = FreeJob \/ (Same(job'[k], job[k]) /\ job'[k].at = job[k].at)
    BY <1>0, <1>5, LeftIs DEF RestartEntry
  <2> QED
    BY <1>0, <2>1, FreeJobType DEF Same
<1>6. CASE job' = job
  BY <1>0, <1>6
<1>7. CASE RestartStorageNode
  BY <1>2, <1>6, <1>7 DEF RestartStorageNode
<1>8. ASSUME NEW n \in Nodes, Kill(n) PROVE JobsFit'
  BY <1>2, <1>8 DEF Kill
<1> QED
  BY <1>1, <1>3, <1>4, <1>5, <1>6, <1>7, <1>8, StepCases

LEMMA NextHandlersFit == TypeInv /\ [Next]_vars => HandlersFit'
<1> SUFFICES ASSUME TypeInv, [Next]_vars PROVE HandlersFit'
  OBVIOUS
<1>0. HandlersFit /\ job \in [Jobs -> JobRecord] /\ handler \in [Clients -> Handler]
  BY DEF TypeInv, TypeOK, NodesTypeOK
\* It is enough that no connection that is waited for is lost.
<1> DEFINE Kept(k) == /\ job'[k].awaited /\ job'[k].at # "free" /\ job'[k].db = job[k].db
                      /\ Busy(k)' => Busy(k) /\ (job[k].left = <<"drop">> => job'[k].left = <<"drop">>)
<1>1. ASSUME UNCHANGED handler,
             \A k \in Jobs : job[k].awaited /\ job[k].at # "free" => Kept(k)
      PROVE  HandlersFit'
  BY <1>0, <1>1 DEF HandlersFit
<1>2. ASSUME NEW c \in Clients, \A b \in Clients : b # c => handler'[b] = handler[b],
                          \/ handler'[c] = IdleHandler
             \/ /\ handler'[c].pc = "asking" \/ (handler'[c].pc = "sending" /\ handler'[c].node \in Nodes)
                /\ handler'[c].op \in {"create", "drop", "sql"} /\ handler'[c].db \in DBs,
             job' = job
      PROVE  HandlersFit'
  BY <1>0, <1>2 DEF HandlersFit, IdleHandler, Busy
<1>3. ASSUME NEW j \in Jobs, JobStep(j), UNCHANGED entryVars PROVE HandlersFit'
  <2>1. \A k \in Jobs : job[k].awaited /\ job[k].at # "free" => Kept(k)
    <3>1. <<"use", "sql">> # <<"drop">>
      OBVIOUS
    <3> QED
      BY <1>3, <3>1, JobStepIs
  <2> QED
    BY <1>1, <1>3, <2>1 DEF entryVars
<1>14. ASSUME UNCHANGED <<handler, job>> PROVE HandlersFit'
  <2>1. \A k \in Jobs : job[k].awaited /\ job[k].at # "free" => Kept(k)
    BY <1>14 DEF Busy
  <2> QED
    BY <1>1, <1>14, <2>1
<1>4. ASSUME NEW n, job' = Orphaned(n), UNCHANGED handler PROVE HandlersFit'
  <2>1. \A k \in Jobs : job[k].awaited /\ job[k].at # "free" => Kept(k)
    BY <1>0, <1>4, OrphanedIs DEF Same, Busy
  <2> QED
    BY <1>1, <1>4, <2>1
<1>5. ASSUME NEW c \in Clients, NEW j \in Jobs, Send(c, j) PROVE HandlersFit'
  <2>1. /\ job'[j].at = "ready" /\ job'[j].awaited /\ job'[j].db = handler[c].db
        /\ job[j].at = "free" /\ \A k \in Jobs : k # j => job'[k] = job[k]
        /\ handler[c].op = "drop" => job'[j].left = <<"drop">>
    BY <1>5, AcceptIs
  <2>2. /\ handler[c].pc = "sending" /\ handler'[c].pc = "waiting" /\ handler'[c].job = j
        /\ handler'[c].op = handler[c].op /\ handler'[c].db = handler[c].db
        /\ \A b \in Clients : b # c => handler'[b] = handler[b]
    BY <1>0, <1>5 DEF Send, Handler
  <2>3. \A b \in Clients : handler[b].pc = "waiting" => handler[b].job # j /\ handler[b].job \in Jobs
    BY <1>0, <2>1 DEF HandlersFit
  <2> QED
    BY <1>0, <2>1, <2>2, <2>3 DEF HandlersFit, Busy
<1>6. ASSUME NEW c \in Clients, Receive(c) \/ Timeout(c) PROVE HandlersFit'
  <2>1. /\ job' = [job EXCEPT ![handler[c].job] = Left(@)] /\ handler[c].pc = "waiting"
        /\ \A b \in Clients : b # c => handler'[b] = handler[b]
    BY <1>0, <1>6 DEF Receive, Timeout
  <2>2. \/ handler'[c] = IdleHandler
        \/ handler'[c].pc = "dropped" /\ handler'[c].op = "drop" /\ handler'[c].db = handler[c].db
    <3>1. CASE Timeout(c)
      BY <1>0, <3>1 DEF Timeout
    <3>2. CASE Receive(c)
      BY <1>0, <3>2 DEF Receive, Handler
    <3> QED
      BY <1>6, <3>1, <3>2
  <2>3. \A k \in Jobs : k # handler[c].job => job'[k] = job[k]
    BY <1>0, <2>1
  <2>4. \A b \in Clients : b # c /\ handler[b].pc = "waiting" =>
          handler[b].job # handler[c].job /\ handler[b].job \in Jobs
    BY <1>0, <2>1 DEF HandlersFit
  <2> QED
    BY <1>0, <2>1, <2>2, <2>3, <2>4 DEF HandlersFit, IdleHandler, Busy
<1>7. CASE RestartEntry
  BY <1>7 DEF RestartEntry, HandlersFit, IdleHandler
<1>8. CASE RestartStorageNode
  <2>1. handler' = handler /\ (job' = job \/ job' = Orphaned(Checked))
    BY <1>8 DEF RestartStorageNode, BeatGoesOn
  <2>2. CASE job' = job
    BY <1>14, <2>1, <2>2
  <2>3. CASE job' = Orphaned(Checked)
    BY <1>4, <2>1, <2>3
  <2> QED
    BY <2>1, <2>2, <2>3
<1>9. ASSUME NEW n \in Nodes, Kill(n), UNCHANGED entryVars PROVE HandlersFit'
  BY <1>4, <1>9 DEF Kill, entryVars
<1>10. ASSUME NEW c \in Clients, SendFails(c) \/ Refuse(c) \/ EraseRoute(c), job' = job PROVE HandlersFit'
  BY <1>0, <1>2, <1>10 DEF SendFails, Refuse, EraseRoute
<1>11. ASSUME NEW c \in Clients, NEW d \in DBs, NEW op \in Requests, Request(c, op, d), job' = job
       PROVE  HandlersFit'
  <2>1. op \in {"create", "drop", "sql"}
    BY ClusterAssumption
  <2> QED
    BY <1>0, <1>2, <1>11, <2>1 DEF Request, IdleHandler
<1>12. ASSUME NEW c \in Clients, NEW n \in Nodes, AskNode(c, n), handler[c].pc = "asking", job' = job
       PROVE  HandlersFit'
  <2>1. /\ \A b \in Clients : b # c => handler'[b] = handler[b]
        /\ handler'[c].pc = "sending" /\ handler'[c].node = n
        /\ handler'[c].op = handler[c].op /\ handler'[c].db = handler[c].db
    BY <1>0, <1>12 DEF AskNode, Handler
  <2>2. handler[c].op \in {"create", "drop", "sql"} /\ handler[c].db \in DBs
    BY <1>0, <1>12 DEF HandlersFit
  <2> QED
    BY <1>2, <1>12, <2>1, <2>2
<1>13. ASSUME NEW c \in Clients, CreateDatabase(c) \/ AskNodeOfDatabase(c), job' = job PROVE HandlersFit'
  <2>1. PICK n : AskNode(c, n) /\ (n \in Range(nodes) \/ n \in Range(route)) /\ handler[c].pc = "asking"
    BY <1>13 DEF CreateDatabase, AskNodeOfDatabase, Asks, Routed, Range
  <2>2. n \in Nodes
    BY <2>1 DEF TypeInv, TypeOK, Range
  <2> QED
    BY <1>12, <1>13, <2>1, <2>2
<1> QED
  BY <1>3, <1>5, <1>6, <1>7, <1>8, <1>9, <1>10, <1>11, <1>13, <1>14, StepCases DEF LockingStep

LEMMA TypeInvHolds == Spec => []TypeInv
<1>1. TypeInv /\ [Next]_vars => TypeInv'
  BY NextEntryType, NextJobsFit, NextHandlersFit DEF TypeInv
<1> QED
  BY <1>1, InitType, PTL DEF Spec

\* Every reachable state is type correct: no node is in the list twice, and every
\* thread asks for a database on a node (Entrypoint::handleClient, Server).
THEOREM TypeCorrect == Spec => []TypeOK
<1>1. TypeInv => TypeOK
  BY DEF TypeInv
<1> QED
  BY <1>1, TypeInvHolds, PTL

-----------------------------------------------------------------------------
(* Routes *)

\* The steps, by what they do to the list of nodes and to routes.
LEMMA RouteCases ==
  ASSUME [Next]_vars
  PROVE  \/ \E n \in Nodes : AddStorage(n) \/ RemoveStorage(n)
         \/ \E c \in Clients : CreateDatabase(c) \/ EraseRoute(c)
         \/ RestartEntry
         \/ UNCHANGED <<nodes, route, evicted>>
<1>1. ASSUME NEW c \in Clients, NEW d \in DBs, NEW op, Request(c, op, d)
      PROVE  UNCHANGED <<nodes, route, evicted>>
  BY <1>1 DEF Request
<1>2. ASSUME NEW c \in Clients, \/ AskNodeOfDatabase(c) \/ Refuse(c)
                                \/ SendFails(c) \/ Receive(c) \/ Timeout(c) \/ \E j \in Jobs : Send(c, j)
      PROVE  UNCHANGED <<nodes, route, evicted>>
  BY <1>2 DEF AskNodeOfDatabase, Refuse, SendFails, Receive, Timeout, Send
<1>3. CASE BeatStep
  BY <1>3 DEF BeatStep, BeatQuiet, RestartStorageNode, BeatGoesOn
<1>4. CASE UNCHANGED entryVars
  BY <1>4 DEF entryVars
<1> QED
  BY <1>1, <1>2, <1>3, <1>4 DEF Next, ClientStep, LockingStep, vars

LEMMA NextRoutesKnown == TypeInv /\ RoutesKnown /\ [Next]_vars => RoutesKnown'
<1> SUFFICES ASSUME TypeInv, RoutesKnown, [Next]_vars PROVE RoutesKnown'
  OBVIOUS
<1>0. /\ nodes \in Seq(Nodes) /\ IsInjective(nodes)
      /\ \A d \in DOMAIN route : route[d] \in Range(nodes)
  BY DEF TypeInv, TypeOK, RoutesKnown, Registered, Range
<1>1. SUFFICES \A d \in DOMAIN route' : route'[d] \in Range(nodes')
  BY DEF RoutesKnown, Registered, Range
<1>2. ASSUME NEW n \in Nodes, AddStorage(n) PROVE \A d \in DOMAIN route' : route'[d] \in Range(nodes')
  <2>1. nodes' = Append(nodes, n) /\ route' = route
    BY <1>2 DEF AddStorage
  <2>2. Range(nodes) \subseteq Range(nodes')
    BY <1>0, <2>1 DEF Range
  <2> QED
    BY <1>0, <2>1, <2>2
<1>3. ASSUME NEW n \in Nodes, RemoveStorage(n) PROVE \A d \in DOMAIN route' : route'[d] \in Range(nodes')
  <2>1. PICK i \in DOMAIN nodes : nodes[i] = n /\ nodes' = WithoutAt(i)
    BY <1>3 DEF RemoveStorage
  <2>2. Range(nodes') = Range(nodes) \ {n}
    BY <1>0, <2>1, WithoutAtIs
  <2>3. \A d \in DOMAIN route' : d \in DOMAIN route /\ route'[d] = route[d] /\ route[d] # n
    BY <1>3 DEF RemoveStorage, RoutedTo, Restrict
  <2> QED
    BY <1>0, <2>2, <2>3
<1>4. ASSUME NEW c \in Clients, CreateDatabase(c)
      PROVE  \A d \in DOMAIN route' : route'[d] \in Range(nodes')
  <2>1. PICK i \in DOMAIN nodes : route' = Put(route, handler[c].db, nodes[i])
    BY <1>4 DEF CreateDatabase
  <2>2. nodes' = nodes /\ nodes[i] \in Range(nodes)
    BY <1>4 DEF CreateDatabase, Range
  <2> QED
    BY <1>0, <2>1, <2>2 DEF Put
<1>5. ASSUME NEW c \in Clients, EraseRoute(c) PROVE \A d \in DOMAIN route' : route'[d] \in Range(nodes')
  BY <1>0, <1>5 DEF EraseRoute, Restrict
<1>6. CASE RestartEntry
  BY <1>6 DEF RestartEntry
<1>7. CASE UNCHANGED <<nodes, route, evicted>>
  BY <1>0, <1>7
<1> QED
  BY <1>2, <1>3, <1>4, <1>5, <1>6, <1>7, RouteCases

\* Whatever nodes are added and removed between the steps of the clients, a route
\* leads to a node of the list (Entrypoint::createDatabase, removeStorageNode).
THEOREM RoutesLead == Spec => []RoutesKnown
<1>1. Init => RoutesKnown
  BY DEF Init, EntryInit, RoutesKnown, Range
<1> QED
  BY <1>1, NextRoutesKnown, TypeInvHolds, PTL DEF Spec

-----------------------------------------------------------------------------
(* Where a database is *)

SameRoute(d) ==
  /\ d \in DOMAIN route' <=> d \in DOMAIN route
  /\ d \in DOMAIN route => route'[d] = route[d]

\* A step after which nobody claims database d who did not before.
Fewer(d) ==
  /\ Homes(d)' \subseteq Homes(d)
  /\ \A c \in Asking(d)' : c \in Asking(d) /\ handler'[c].node = handler[c].node
  /\ \A j \in Making(d)' : j \in Making(d) /\ job'[j].node = job[j].node
  /\ Confirmed(d)' \subseteq Confirmed(d)
  /\ SameRoute(d)

LEMMA FewerHolds ==
  ASSUME NEW d, Routes(d), OneClaim(d), Fewer(d)
  PROVE  Routes(d)' /\ OneClaim(d)'
<1>1. Routes(d)'
  BY DEF Routes, Fewer, SameRoute, Routed
<1>2. OneClaim(d)'
  BY DEF OneClaim, OneOf, Fewer
<1> QED
  BY <1>1, <1>2

JobsFade(d) ==
  \A k \in Jobs :
    /\ job'[k].at \in {"ready", "redirected"} /\ job'[k].left = <<"create">> /\ job'[k].db = d =>
         k \in Making(d) /\ job'[k].node = job[k].node
    /\ job'[k].dropped => \/ job[k].dropped \/ job[k].db # d \/ ~job[k].awaited \/ job[k].at = "free"
                          \/ Busy(k) /\ job[k].left # <<"drop">>

HandlersFade(d) ==
  \A c \in Clients :
    \/ handler'[c] = handler[c]
    \/ handler'[c].pc \in {"idle", "asking"}
    \/ handler'[c].pc = "sending" /\ (handler'[c].op # "create" \/ handler'[c].db # d)
    \/ /\ handler'[c].pc = "waiting" /\ ~job'[handler'[c].job].dropped
    \/ /\ handler'[c].pc = "dropped" /\ handler[c].pc = "waiting" /\ handler[c].op = "drop"
       /\ handler'[c].db = handler[c].db /\ job[handler[c].job].dropped

LEMMA FadeFewer ==
  ASSUME TypeInv, NEW d, JobsFade(d), HandlersFade(d), Homes(d)' \subseteq Homes(d), SameRoute(d)
  PROVE  Fewer(d)
<1>1. \A c \in Asking(d)' : c \in Asking(d) /\ handler'[c].node = handler[c].node
  BY DEF HandlersFade, Asking
<1>2. \A j \in Making(d)' : j \in Making(d) /\ job'[j].node = job[j].node
  BY DEF JobsFade, Making
<1>3. ASSUME NEW c \in Confirmed(d)' PROVE c \in Confirmed(d)
  <2>1. /\ c \in Clients /\ handler'[c].op = "drop" /\ handler'[c].db = d
        /\ handler'[c].pc = "dropped" \/ (handler'[c].pc = "waiting" /\ job'[handler'[c].job].dropped)
    BY <1>3 DEF Confirmed
  <2>2. handler[c].pc = "waiting" =>
          /\ handler[c].job \in Jobs /\ job[handler[c].job].db = handler[c].db
          /\ job[handler[c].job].awaited /\ job[handler[c].job].at # "free"
          /\ handler[c].op = "drop" /\ Busy(handler[c].job) => job[handler[c].job].left = <<"drop">>
    BY <2>1 DEF TypeInv, HandlersFit
  <2>3. CASE handler'[c] = handler[c]
    BY <2>1, <2>2, <2>3 DEF Confirmed, JobsFade
  <2>4. CASE handler'[c].pc = "dropped" /\ handler[c].pc = "waiting" /\ handler[c].op = "drop"
             /\ handler'[c].db = handler[c].db /\ job[handler[c].job].dropped
    BY <2>1, <2>4 DEF Confirmed
  <2> QED
    BY <2>1, <2>3, <2>4 DEF HandlersFade
<1> QED
  BY <1>1, <1>2, <1>3 DEF Fewer

LEMMA HomesAre ==
  ASSUME NEW d
  PROVE  /\ \A m \in Nodes, t \in Starters : <<m, t>> \in Homes(d) <=> d \in dbs[m][t]
         /\ \A m \in Nodes, t \in Starters : <<m, t>> \in Homes(d)' <=> d \in dbs'[m][t]
         /\ \A h \in Homes(d) : \E m \in Nodes, t \in Starters : h = <<m, t>> /\ h[1] = m
         /\ \A h \in Homes(d)' : \E m \in Nodes, t \in Starters : h = <<m, t>> /\ h[1] = m
BY DEF Homes

\* Steps that touch no directory and no route, and take no claim up.
LEMMA FadeHolds ==
  ASSUME TypeInv, NEW d, Routes(d), OneClaim(d), JobsFade(d), HandlersFade(d), dbs' = dbs, route' = route
  PROVE  Routes(d)' /\ OneClaim(d)'
<1>1. Homes(d)' \subseteq Homes(d) /\ SameRoute(d)
  BY DEF Homes, SameRoute
<1> QED
  BY <1>1, FadeFewer, FewerHolds

LEMMA PlainStep ==
  ASSUME TypeInv, NEW j \in Jobs, NEW d, d \notin misled',
         Redirect(j) \/ Use(j) \/ RunStatement(j) \/ Restore(j)
  PROVE  JobsFade(d) /\ dbs' = dbs
<1>0. job \in [Jobs -> JobRecord]
  BY DEF TypeInv, TypeOK, NodesTypeOK
<1>1. ASSUME \A k \in Jobs : job'[k].dropped => \/ job[k].dropped
                                                \/ Busy(k) /\ (job[k].left # <<"drop">> \/ job[k].db # d),
             job[j].at \in {"ready", "redirected"},
             Redirect(j) \/ Use(j) \/ RunStatement(j)
      PROVE  JobsFade(d)
  BY <1>1, WorkStep DEF JobsFade, Making
<1>2. CASE Redirect(j)
  <2>1. \A k \in Jobs : job'[k].dropped => job[k].dropped
    BY <1>0, <1>2 DEF Redirect, JobRecord
  <2> QED
    BY <1>1, <1>2, <2>1 DEF Redirect
<1>3. CASE Use(j)
  <2>1. \A k \in Jobs : job'[k].dropped => job[k].dropped
    BY <1>3, ExecutedIs DEF Use
  <2> QED
    BY <1>1, <1>3, <2>1 DEF Use, Doing
<1>4. CASE RunStatement(j)
  <2>1. PICK prints \in BOOLEAN : Executed(j, prints)
    BY <1>4 DEF RunStatement
  <2>2. job[j].at = "redirected" /\ Head(job[j].left) = "sql"
    BY <1>4 DEF RunStatement, Doing
  <2>3. Busy(j) /\ job[j].left # <<"drop">>
    <3>1. Head(<<"drop">>) = "drop"
      OBVIOUS
    <3> QED
      BY <2>2, <3>1 DEF Busy
  <2>4. \A k \in Jobs : job'[k].dropped =>
          \/ job[k].dropped
          \/ Busy(k) /\ (job[k].left # <<"drop">> \/ job[k].db # d)
    <3>1. \A k \in Jobs : job'[k].dropped =>
            \/ job[k].dropped \/ k = j
            \/ Busy(k) /\ (job[k].left # <<"drop">> \/ job[k].db \in misled')
      BY <2>1, <2>3, ExecutedIs
    <3> QED
      BY <2>3, <3>1
  <2> QED
    BY <1>1, <1>4, <2>2, <2>4 DEF RunStatement
<1>5. CASE Restore(j)
  <2>1. <<"sql">> # <<"create">>
    OBVIOUS
  <2>2. JobsFade(d)
    BY <1>5, <2>1, RestoreIs, FreeJobType DEF JobsFade, Making
  <2> QED
    BY <1>5, <2>2 DEF Restore
<1> QED
  BY <1>2, <1>3, <1>4, <1>5

LEMMA LossStep ==
  ASSUME TypeInv, NEW d,
         \/ \E n : job' = Orphaned(n)
         \/ \E j : job' = [job EXCEPT ![j] = Left(@)]
         \/ job' = [j \in Jobs |-> Left(job[j])]
         \/ job' = job
  PROVE  JobsFade(d)
<1>0. job \in [Jobs -> JobRecord]
  BY DEF TypeInv, TypeOK, NodesTypeOK
<1>1. \A k \in Jobs : \/ job'[k] = job[k]
                      \/ job'[k] = FreeJob
                      \/ Same(job'[k], job[k]) /\ (job'[k].at = job[k].at \/ job'[k].at = "lost")
  <2> DEFINE Kept(k) == \/ job'[k] = job[k]
                        \/ job'[k] = FreeJob
                        \/ Same(job'[k], job[k]) /\ (job'[k].at = job[k].at \/ job'[k].at = "lost")
  <2>1. ASSUME NEW n, job' = Orphaned(n), NEW k \in Jobs PROVE Kept(k)
    BY <2>1, OrphanedIs
  <2>2. ASSUME NEW j, job' = [job EXCEPT ![j] = Left(@)], NEW k \in Jobs PROVE Kept(k)
    BY <2>2, LeaveIs
  <2>3. ASSUME job' = [j \in Jobs |-> Left(job[j])], NEW k \in Jobs PROVE Kept(k)
    BY <1>0, <2>3, LeftIs
  <2> QED
    BY <2>1, <2>2, <2>3
<1> QED
  BY <1>1, FreeJobType DEF JobsFade, Making, Same

\* DBMS::createDatabase: the claim passes from the connection to the directory.
LEMMA CreateStep ==
  ASSUME TypeInv, NEW j \in Jobs, NEW d \in DBs, Routes(d), OneClaim(d), Create(j), UNCHANGED entryVars
  PROVE  Routes(d)' /\ OneClaim(d)'
<1> DEFINE n == job[j].node
           s == Starter(n)
<1>0. /\ Starter(n) \in Starters /\ dbs \in [Nodes -> [Starters -> SUBSET DBs]]
      /\ job \in [Jobs -> JobRecord]
  BY DEF TypeInv, TypeOK, NodesTypeOK, Starter, Starters
<1>1. /\ job[j].at = "redirected" /\ Head(job[j].left) = "create"
      /\ dbs' = [dbs EXCEPT ![n][s] = @ \cup {job[j].db}] /\ Executed(j, FALSE)
  BY DEF Create, Doing
<1>2. n \in Nodes /\ s \in Starters /\ job[j].left = <<"create">>
  <2>1. n \in Nodes /\ job[j].left \in {<<"create">>, <<"drop">>, <<"sql">>, <<"use", "sql">>}
    BY <1>1 DEF TypeInv, JobsFit, Busy
  <2>2. Head(<<"drop">>) = "drop" /\ Head(<<"sql">>) = "sql" /\ Head(<<"use", "sql">>) = "use"
    OBVIOUS
  <2> QED
    BY <1>0, <1>1, <2>1, <2>2
<1>3. \A k \in Jobs : /\ job'[k].node = job[k].node /\ job'[k].db = job[k].db /\ job'[k].left = job[k].left
                      /\ job'[k].at = IF k = j THEN "executed" ELSE job[k].at
                      /\ job'[k].dropped => job[k].dropped
  BY <1>1, ExecutedIs
<1>4. \A m \in Nodes, t \in Starters :
        dbs'[m][t] = IF m = n /\ t = s THEN dbs[m][t] \cup {job[j].db} ELSE dbs[m][t]
  BY <1>0, <1>1, <1>2
<1>5. handler' = handler /\ route' = route
  BY DEF entryVars
<1>6. JobsFade(d) /\ HandlersFade(d) /\ SameRoute(d)
  BY <1>3, <1>5 DEF JobsFade, HandlersFade, SameRoute, Making
<1> HIDE DEF n, s
<1>7. CASE d # job[j].db
  <2>1. ASSUME NEW h \in Homes(d)' PROVE h \in Homes(d)
    <3>1. PICK m \in Nodes, t \in Starters : h = <<m, t>> /\ d \in dbs'[m][t]
      BY HomesAre
    <3>2. d \in dbs[m][t]
      BY <1>4, <1>7, <3>1
    <3> QED
      BY <3>1, <3>2, HomesAre
  <2> QED
    BY <1>6, <2>1, FadeFewer, FewerHolds
<1>8. CASE d = job[j].db
  <2>1. j \in Making(d)
    BY <1>1, <1>2, <1>8 DEF Making
  <2>2. Homes(d) = {} /\ Asking(d) = {} /\ Confirmed(d) = {} /\ Routed(d) /\ route[d] = n
    BY <2>1 DEF OneClaim, Routes, n
  <2>3. Making(d)' = {}
    <3>1. \A k \in Making(d) : k = j
      BY <2>1 DEF OneClaim, OneOf
    <3> QED
      BY <1>3, <3>1 DEF Making
  <2>4. Asking(d)' = {}
    BY <1>5, <2>2 DEF Asking
  <2>5. Confirmed(d)' = {}
    <3>1. \A c \in Clients : handler[c].pc = "waiting" => handler[c].job \in Jobs
      BY DEF TypeInv, HandlersFit
    <3> QED
      BY <1>3, <1>5, <2>2, <3>1 DEF Confirmed
  <2>6. \A h \in Homes(d)' : h = <<n, s>>
    <3>1. \A m \in Nodes, t \in Starters : d \notin dbs[m][t]
      BY <2>2, HomesAre
    <3>2. \A m \in Nodes, t \in Starters : d \in dbs'[m][t] => m = n /\ t = s
      BY <1>4, <3>1
    <3> QED
      BY <3>2, HomesAre
  <2>7. Routes(d)'
    BY <1>5, <2>2, <2>3, <2>4, <2>5, <2>6 DEF Routes, Routed
  <2>8. OneClaim(d)'
    BY <2>3, <2>4, <2>5, <2>6 DEF OneClaim, OneOf
  <2> QED
    BY <2>7, <2>8
<1> QED
  BY <1>7, <1>8

\* DBMS::dropDatabase: the claim passes from the directory to the client who is told.
LEMMA DropStep ==
  ASSUME TypeInv, NEW j \in Jobs, NEW d \in DBs, Routes(d), OneClaim(d),
         Drop(j), d \notin misled', UNCHANGED entryVars
  PROVE  Routes(d)' /\ OneClaim(d)'
<1> DEFINE n == job[j].node
           s == Starter(n)
           done == job[j].db \in dbs[n][s]
<1>0. /\ Starter(n) \in Starters /\ dbs \in [Nodes -> [Starters -> SUBSET DBs]]
      /\ job \in [Jobs -> JobRecord]
  BY DEF TypeInv, TypeOK, NodesTypeOK, Starter, Starters
<1>1. /\ job[j].at = "redirected" /\ dbs' = [dbs EXCEPT ![n][s] = @ \ {job[j].db}] /\ Executed(j, done)
  BY DEF Drop, Doing
<1>2. n \in Nodes /\ s \in Starters
  BY <1>0, <1>1 DEF TypeInv, JobsFit, Busy
<1>3. done \in BOOLEAN
  OBVIOUS
<1> HIDE DEF done
<1>4. \A k \in Jobs : /\ job'[k].node = job[k].node /\ job'[k].db = job[k].db /\ job'[k].left = job[k].left
                      /\ job'[k].at = IF k = j THEN "executed" ELSE job[k].at
                      /\ job'[k].dropped => \/ job[k].dropped \/ (done /\ k = j)
                                            \/ Busy(k) /\ (job[k].left # <<"drop">> \/ job[k].db # d)
  BY <1>1, <1>3, ExecutedIs
<1>5. \A m \in Nodes, t \in Starters :
        dbs'[m][t] = IF m = n /\ t = s THEN dbs[m][t] \ {job[j].db} ELSE dbs[m][t]
  BY <1>0, <1>1, <1>2
<1>6. handler' = handler /\ route' = route
  BY DEF entryVars
<1> HIDE DEF n, s
<1>7. HandlersFade(d) /\ SameRoute(d) /\ Homes(d)' \subseteq Homes(d)
  BY <1>5, <1>6, ZenonT(40) DEF HandlersFade, SameRoute, Homes
<1>8. CASE d # job[j].db \/ ~done
  <2>1. JobsFade(d)
    BY <1>4, <1>8 DEF JobsFade, Making
  <2> QED
    BY <1>7, <2>1, FadeFewer, FewerHolds
<1>9. CASE d = job[j].db /\ done
  <2>1. <<n, s>> \in Homes(d)
    BY <1>2, <1>9 DEF Homes, done, n, s
  <2>2. Asking(d) = {} /\ Making(d) = {} /\ Confirmed(d) = {} /\ Routed(d)
        /\ \A h \in Homes(d) : h = <<n, s>>
    BY <2>1 DEF OneClaim, OneOf, Routes
  <2>3. Homes(d)' = {}
    <3>1. ASSUME NEW m \in Nodes, NEW t \in Starters, d \in dbs[m][t] PROVE m = n /\ t = s
      <4>1. <<m, t>> \in Homes(d)
        BY <3>1, HomesAre
      <4>2. <<m, t>> = <<n, s>>
        BY <2>2, <4>1
      <4> QED
        BY <4>2
    <3>2. \A m \in Nodes, t \in Starters : d \notin dbs'[m][t]
      BY <1>5, <1>9, <3>1
    <3> QED
      BY <3>2, HomesAre
  <2>4. Asking(d)' = {}
    BY <1>6, <2>2 DEF Asking
  <2>5. Making(d)' = {}
    BY <1>4, <2>2 DEF Making
  <2>6. \A c \in Confirmed(d)' : c \in Clients /\ handler[c].pc = "waiting" /\ handler[c].job = j
    <3>1. \A c \in Clients : handler[c].pc = "waiting" =>
            /\ handler[c].job \in Jobs /\ job[handler[c].job].db = handler[c].db
            /\ handler[c].op = "drop" /\ Busy(handler[c].job) => job[handler[c].job].left = <<"drop">>
      BY DEF TypeInv, HandlersFit
    <3> QED
      BY <1>4, <1>6, <2>2, <3>1 DEF Confirmed
  <2>7. OneOf(Confirmed(d)')
    BY <2>6 DEF TypeInv, HandlersFit, OneOf
  <2>8. Routes(d)'
    BY <1>6, <2>2, <2>3, <2>4, <2>5 DEF Routes, Routed
  <2>9. OneClaim(d)'
    BY <2>3, <2>4, <2>5, <2>7 DEF OneClaim, OneOf
  <2> QED
    BY <2>8, <2>9
<1> QED
  BY <1>8, <1>9

\* Entrypoint::forwardToStorage: the claim passes from the thread to its connection.
LEMMA SendStep ==
  ASSUME TypeInv, NEW c \in Clients, NEW j \in Jobs, NEW d \in DBs, Routes(d), OneClaim(d), Send(c, j)
  PROVE  Routes(d)' /\ OneClaim(d)'
<1>0. job \in [Jobs -> JobRecord] /\ handler \in [Clients -> Handler]
  BY DEF TypeInv, TypeOK, NodesTypeOK
<1>1. /\ handler[c].pc = "sending" /\ job[j].at = "free"
      /\ \A k \in Jobs : k # j => job'[k] = job[k]
      /\ job'[j].at = "ready" /\ job'[j].node = handler[c].node /\ job'[j].db = handler[c].db
      /\ job'[j].left = <<"create">> => handler[c].op = "create"
      /\ ~job'[j].dropped
  BY AcceptIs
<1>2. /\ handler'[c].pc = "waiting" /\ handler'[c].job = j
      /\ handler'[c].op = handler[c].op /\ handler'[c].db = handler[c].db
      /\ \A b \in Clients : b # c => handler'[b] = handler[b]
  BY <1>0 DEF Send, Handler
<1>3. dbs' = dbs /\ route' = route
  BY DEF Send, Accept
<1>4. HandlersFade(d)
  BY <1>1, <1>2 DEF HandlersFade
<1>5. CASE handler[c].op # "create" \/ handler[c].db # d
  <2>1. JobsFade(d)
    BY <1>1, <1>5 DEF JobsFade, Making
  <2> QED
    BY <1>3, <1>4, <2>1, FadeHolds
<1>6. CASE handler[c].op = "create" /\ handler[c].db = d
  <2>1. c \in Asking(d)
    BY <1>1, <1>6 DEF Asking
  <2>2. /\ Homes(d) = {} /\ Making(d) = {} /\ Confirmed(d) = {}
        /\ \A b \in Asking(d) : b = c
        /\ Routed(d) /\ route[d] = handler[c].node
    BY <2>1 DEF OneClaim, OneOf, Routes
  <2>3. Asking(d)' = {}
    BY <1>2, <2>2 DEF Asking
  <2>4. \A k \in Making(d)' : k = j
    BY <1>1, <2>2 DEF Making
  <2>5. Homes(d)' = {}
    BY <1>3, <2>2 DEF Homes
  <2>6. Confirmed(d)' = {}
    <3>1. \A b \in Clients : handler[b].pc = "waiting" => handler[b].job \in Jobs /\ handler[b].job # j
      BY <1>1 DEF TypeInv, HandlersFit
    <3> QED
      BY <1>1, <1>2, <2>2, <3>1 DEF Confirmed
  <2>7. Routes(d)'
    BY <1>1, <1>3, <2>2, <2>3, <2>4, <2>5, <2>6 DEF Routes, Routed
  <2>8. OneClaim(d)'
    BY <2>3, <2>4, <2>5, <2>6 DEF OneClaim, OneOf
  <2> QED
    BY <2>7, <2>8
<1> QED
  BY <1>5, <1>6

\* Entrypoint::createDatabase takes a name without a route: nobody claims it.
LEMMA CreateDatabaseStep ==
  ASSUME TypeInv, NEW c \in Clients, NEW d \in DBs, Routes(d), OneClaim(d), CreateDatabase(c)
  PROVE  Routes(d)' /\ OneClaim(d)'
<1> DEFINE e == handler[c].db
<1>1. PICK i \in DOMAIN nodes : AskNode(c, nodes[i]) /\ route' = Put(route, e, nodes[i])
  BY DEF CreateDatabase
<1>2. ~Routed(e) /\ UNCHANGED <<dbs, job>>
  BY DEF CreateDatabase, nodeVars
<1>3. /\ \A b \in Clients : b # c => handler'[b] = handler[b]
      /\ handler'[c].pc = "sending" /\ handler'[c].db = e /\ handler'[c].node = nodes[i]
  BY <1>1 DEF AskNode, Handler, TypeInv, TypeOK
<1> HIDE DEF e
<1>4. CASE d # e
  <2>1. SameRoute(d)
    BY <1>1, <1>4 DEF SameRoute, Put
  <2>2. JobsFade(d) /\ HandlersFade(d) /\ Homes(d)' \subseteq Homes(d)
    BY <1>2, <1>3, <1>4 DEF JobsFade, HandlersFade, Homes, Making
  <2> QED
    BY <2>1, <2>2, FadeFewer, FewerHolds
<1>5. CASE d = e
  <2>1. Homes(d) = {} /\ Asking(d) = {} /\ Making(d) = {} /\ Confirmed(d) = {}
    BY <1>2, <1>5 DEF Routes
  <2>2. Homes(d)' = {} /\ Making(d)' = {}
    BY <1>2, <2>1 DEF Homes, Making
  <2>3. \A b \in Asking(d)' : b = c
    BY <1>3, <2>1 DEF Asking
  <2>4. Confirmed(d)' = {}
    BY <1>2, <1>3, <2>1 DEF Confirmed
  <2>5. d \in DOMAIN route' /\ route'[d] = nodes[i]
    BY <1>1, <1>5 DEF Put
  <2>6. Routes(d)'
    BY <1>3, <2>2, <2>3, <2>4, <2>5 DEF Routes, Routed
  <2>7. OneClaim(d)'
    BY <2>2, <2>3, <2>4 DEF OneClaim, OneOf
  <2> QED
    BY <2>6, <2>7
<1> QED
  BY <1>4, <1>5

\* Entrypoint::dropDatabase: when the route goes, so does the last claim.
LEMMA EraseStep ==
  ASSUME TypeInv, NEW c \in Clients, NEW d \in DBs, Routes(d), OneClaim(d), EraseRoute(c)
  PROVE  /\ Routes(d)' /\ OneClaim(d)'
         /\ handler[c].db = d => Homes(d)' = {} /\ ~Routed(d)'
<1>1. /\ handler[c].pc = "dropped" /\ handler[c].op = "drop" /\ UNCHANGED <<dbs, job>>
      /\ route' = Restrict(route, DOMAIN route \ {handler[c].db})
  BY DEF EraseRoute, nodeVars, TypeInv, HandlersFit
<1>2. handler'[c].pc = "idle" /\ \A b \in Clients : b # c => handler'[b] = handler[b]
  BY DEF EraseRoute, IdleHandler, TypeInv, TypeOK
<1>3. CASE handler[c].db # d
  <2>1. SameRoute(d)
    BY <1>1, <1>3 DEF SameRoute, Restrict
  <2>2. JobsFade(d) /\ HandlersFade(d) /\ Homes(d)' \subseteq Homes(d)
    BY <1>1, <1>2 DEF JobsFade, HandlersFade, Homes, Making
  <2> QED
    BY <1>3, <2>1, <2>2, FadeFewer, FewerHolds
<1>4. CASE handler[c].db = d
  <2>1. c \in Confirmed(d)
    BY <1>1, <1>4 DEF Confirmed
  <2>2. Homes(d) = {} /\ Asking(d) = {} /\ Making(d) = {} /\ \A b \in Confirmed(d) : b = c
    BY <2>1 DEF OneClaim, OneOf
  <2>3. Homes(d)' = {} /\ Making(d)' = {}
    BY <1>1, <2>2 DEF Homes, Making
  <2>4. Asking(d)' = {}
    BY <1>2, <2>2 DEF Asking
  <2>5. Confirmed(d)' = {}
    BY <1>1, <1>2, <2>2 DEF Confirmed
  <2>6. d \notin DOMAIN route'
    BY <1>1, <1>4 DEF Restrict
  <2> QED
    BY <2>3, <2>4, <2>5, <2>6 DEF Routes, OneClaim, OneOf, Routed
<1> QED
  BY <1>3, <1>4

LEMMA MisledGrows ==
  ASSUME TypeInv, [Next]_vars
  PROVE  misled \subseteq misled'
<1>1. ASSUME NEW j \in Jobs, JobStep(j) PROVE misled \subseteq misled'
  <2>1. CASE Restore(j)
    BY <2>1 DEF Restore
  <2> QED
    BY <1>1, <2>1, WorkStep DEF JobStep
<1>2. ASSUME NEW n \in Nodes, Kill(n) \/ StartByOperator(n) \/ AddStorage(n) \/ RemoveStorage(n)
      PROVE  misled' = misled
  BY <1>2 DEF Kill, StartByOperator, AddStorage, RemoveStorage, nodeVars
<1>3. ASSUME NEW c \in Clients, LockingStep(c) \/ ClientStep(c) PROVE misled' = misled
  <2>1. CASE LockingStep(c)
    BY <2>1 DEF LockingStep, CreateDatabase, AskNodeOfDatabase, Refuse, EraseRoute, nodeVars
  <2>2. CASE ClientStep(c)
    BY <2>2 DEF ClientStep, Send, Accept, SendFails, Receive, Timeout, nodeVars
  <2> QED
    BY <1>3, <2>1, <2>2
<1>4. ASSUME NEW c \in Clients, NEW d \in DBs, NEW op \in Requests, Request(c, op, d) PROVE misled' = misled
  BY <1>4 DEF Request, nodeVars
<1>5. CASE BeatStep \/ RestartEntry \/ UNCHANGED vars
  BY <1>5 DEF BeatStep, BeatQuiet, RestartStorageNode, BeatGoesOn, RestartEntry, vars, nodeVars
<1> QED
  BY <1>1, <1>2, <1>3, <1>4, <1>5 DEF Next, NodeStep

LEMMA NextClaims == TypeInv /\ Claims /\ [Next]_vars => Claims'
<1> SUFFICES ASSUME TypeInv, Claims, [Next]_vars PROVE Claims'
  OBVIOUS
<1>0. SUFFICES ASSUME NEW d \in DBs, d \notin evicted', d \notin misled' PROVE Routes(d)' /\ OneClaim(d)'
  BY DEF Claims
<1>1. evicted \subseteq evicted' /\ misled \subseteq misled'
  BY MisledGrows, RouteCases DEF AddStorage, RemoveStorage, CreateDatabase, EraseRoute, RestartEntry
<1>2. Routes(d) /\ OneClaim(d)
  BY <1>0, <1>1 DEF Claims
<1>3. ASSUME NEW j \in Jobs, JobStep(j), UNCHANGED entryVars PROVE Routes(d)' /\ OneClaim(d)'
  <2>1. CASE Redirect(j) \/ Use(j) \/ RunStatement(j) \/ Restore(j)
    <3>1. JobsFade(d) /\ dbs' = dbs
      BY <1>0, <2>1, PlainStep
    <3>2. HandlersFade(d) /\ route' = route
      BY <1>3 DEF HandlersFade, entryVars
    <3> QED
      BY <1>2, <3>1, <3>2, FadeHolds
  <2> QED
    BY <1>0, <1>2, <1>3, <2>1, CreateStep, DropStep DEF JobStep
<1>4. ASSUME NEW n \in Nodes, Kill(n), UNCHANGED entryVars PROVE Routes(d)' /\ OneClaim(d)'
  <2>1. JobsFade(d) /\ dbs' = dbs
    BY <1>4, LossStep DEF Kill
  <2>2. HandlersFade(d) /\ route' = route
    BY <1>4 DEF HandlersFade, entryVars
  <2> QED
    BY <1>2, <2>1, <2>2, FadeHolds
<1>5. ASSUME NEW c \in Clients, Receive(c) \/ Timeout(c) PROVE Routes(d)' /\ OneClaim(d)'
  <2>1. JobsFade(d) /\ dbs' = dbs /\ route' = route
    BY <1>5, LossStep DEF Receive, Timeout
  <2>2. handler \in [Clients -> Handler]
    BY DEF TypeInv, TypeOK
  <2>3. HandlersFade(d)
    <3>1. CASE Timeout(c)
      BY <2>2, <3>1 DEF HandlersFade, Timeout, IdleHandler
    <3>2. CASE Receive(c)
      BY <2>2, <3>2 DEF HandlersFade, Receive, IdleHandler, Handler
    <3> QED
      BY <1>5, <3>1, <3>2
  <2> QED
    BY <1>2, <2>1, <2>3, FadeHolds
<1>6. CASE RestartStorageNode
  <2>1. JobsFade(d)
    BY <1>6, LossStep DEF RestartStorageNode
  <2>2. HandlersFade(d) /\ dbs' = dbs /\ route' = route
    BY <1>6 DEF RestartStorageNode, BeatGoesOn, HandlersFade
  <2> QED
    BY <1>2, <2>1, <2>2, FadeHolds
<1>7. CASE RestartEntry
  <2>1. JobsFade(d) /\ HandlersFade(d) /\ Homes(d)' \subseteq Homes(d)
    BY <1>7, LossStep DEF RestartEntry, HandlersFade, IdleHandler, Homes
  <2>2. SameRoute(d)
    BY <1>0, <1>7 DEF RestartEntry, SameRoute
  <2> QED
    BY <1>2, <2>1, <2>2, FadeFewer, FewerHolds
<1>8. ASSUME NEW n \in Nodes, AddStorage(n) \/ RemoveStorage(n) PROVE Routes(d)' /\ OneClaim(d)'
  <2>1. UNCHANGED <<dbs, job, handler>>
    BY <1>8 DEF AddStorage, RemoveStorage, nodeVars
  <2>2. SameRoute(d)
    BY <1>0, <1>8 DEF AddStorage, RemoveStorage, RoutedTo, Restrict, SameRoute
  <2>3. JobsFade(d) /\ HandlersFade(d) /\ Homes(d)' \subseteq Homes(d)
    BY <2>1 DEF JobsFade, HandlersFade, Homes, Making
  <2> QED
    BY <1>2, <2>2, <2>3, FadeFewer, FewerHolds
<1>9. ASSUME UNCHANGED <<dbs, job>>, UNCHANGED <<nodes, route, evicted>>,
             \/ UNCHANGED handler
             \/ \E c \in Clients : SendFails(c) \/ Refuse(c) \/ AskNodeOfDatabase(c)
             \/ \E c \in Clients, e \in DBs, op \in Requests : Request(c, op, e)
      PROVE  Routes(d)' /\ OneClaim(d)'
  <2>h. handler \in [Clients -> Handler]
    BY DEF TypeInv, TypeOK
  <2>1. HandlersFade(d)
    <3>1. ASSUME NEW c \in Clients, SendFails(c) \/ Refuse(c) PROVE HandlersFade(d)
      BY <2>h, <3>1 DEF HandlersFade, SendFails, Refuse, IdleHandler
    <3>2. ASSUME NEW c \in Clients, AskNodeOfDatabase(c) PROVE HandlersFade(d)
      <4>1. /\ \A b \in Clients : b # c => handler'[b] = handler[b]
            /\ handler'[c].pc = "sending" /\ handler'[c].op # "create"
        BY <2>h, <3>2 DEF AskNodeOfDatabase, Asks, AskNode, Handler
      <4> QED
        BY <4>1 DEF HandlersFade
    <3>3. ASSUME NEW c \in Clients, NEW e \in DBs, NEW op \in Requests, Request(c, op, e)
          PROVE  HandlersFade(d)
      <4>1. /\ \A b \in Clients : b # c => handler'[b] = handler[b]
            /\ handler'[c].pc = "asking"
        BY <2>h, <3>3 DEF Request, IdleHandler
      <4> QED
        BY <4>1 DEF HandlersFade
    <3> QED
      BY <1>9, <3>1, <3>2, <3>3 DEF HandlersFade
  <2>2. JobsFade(d)
    BY <1>9 DEF JobsFade, Making
  <2> QED
    BY <1>2, <1>9, <2>1, <2>2, FadeHolds
<1> QED
  BY <1>2, <1>3, <1>4, <1>5, <1>6, <1>7, <1>8, <1>9, SendStep, CreateDatabaseStep, EraseStep,
     StepCases, RouteCases DEF LockingStep

HomeInv == TypeInv /\ Claims

LEMMA HomeInvHolds == Spec => []HomeInv
<1>1. ASSUME Init PROVE Claims
  <2>1. ASSUME NEW d PROVE Homes(d) = {} /\ Asking(d) = {} /\ Making(d) = {} /\ Confirmed(d) = {}
    BY <1>1 DEF Init, NodesInit, EntryInit, Homes, Asking, Making, Confirmed, FreeJob, IdleHandler
  <2> QED
    BY <2>1 DEF Claims, Routes, OneClaim, OneOf
<1>2. HomeInv /\ [Next]_vars => HomeInv'
  BY NextEntryType, NextJobsFit, NextHandlersFit, NextClaims DEF HomeInv, TypeInv
<1> QED
  BY <1>1, <1>2, InitType, PTL DEF Spec, HomeInv

\* A database whose route was not taken away, and whose DROP was not answered by what
\* another thread printed, is in one directory of the node its route leads to, for
\* any number of requests on the way, threads side by side, kills and restarts
\* (Entrypoint::handleClient, DBMS::createDatabase and dropDatabase).
THEOREM OneHomeOnly == Spec => []OneHome
<1>1. HomeInv => OneHome
  <2> SUFFICES ASSUME HomeInv, NEW d \in DBs \ (evicted \cup misled)
               PROVE  /\ Cardinality(Homes(d)) <= 1
                      /\ \A h \in Homes(d) : Routed(d) /\ route[d] = h[1]
    BY DEF OneHome
  <2>1. OneOf(Homes(d)) /\ \A h \in Homes(d) : Routed(d) /\ route[d] = h[1]
    BY DEF HomeInv, Claims, Routes, OneClaim
  <2>2. CASE Homes(d) = {}
    BY <2>1, <2>2, FS_EmptySet
  <2>3. CASE Homes(d) # {}
    <3>1. PICK h : Homes(d) = {h}
      BY <2>1, <2>3 DEF OneOf
    <3> QED
      BY <2>1, <3>1, FS_Singleton
  <2> QED
    BY <2>2, <2>3
<1> QED
  BY <1>1, HomeInvHolds, PTL

\* A client who is told that its database was dropped, by its own DROP, finds it
\* gone, and its name free (Entrypoint::handleClient erases the route on the answer
\* of the node).
THEOREM DropIsDone == Spec => DroppedIsGone
<1>1. HomeInv /\ [Next]_vars =>
        [\A c \in Clients, d \in DBs :
           EraseRoute(c) /\ handler[c].db = d /\ d \notin evicted' \cup misled'
           => Homes(d)' = {} /\ ~Routed(d)']_vars
  <2> SUFFICES ASSUME HomeInv, NEW c \in Clients, NEW d \in DBs,
                      EraseRoute(c), handler[c].db = d, d \notin evicted' \cup misled'
               PROVE  Homes(d)' = {} /\ ~Routed(d)'
    OBVIOUS
  <2>1. d \notin evicted \cup misled
    BY DEF EraseRoute, nodeVars
  <2> QED
    BY <2>1, EraseStep DEF HomeInv, Claims
<1> QED
  BY <1>1, HomeInvHolds, PTL DEF Spec, DroppedIsGone

=============================================================================
