---------------------------- MODULE StorageNodes ---------------------------
(***************************************************************************)
(* The storage nodes as the entry point meets them: class Server of        *)
(* Server.cpp over class DBMS of DbEngine.h.  A node serves every          *)
(* connection with a thread of its own, on one engine without a lock: all  *)
(* threads share the databases, the current database that USE selects, and *)
(* std::cout, which each thread turns to a buffer of its own while it      *)
(* executes a command.                                                     *)
(*                                                                         *)
(* A job is one connection with the commands sent over it; its slot is     *)
(* used again once nobody needs it.  Tables are left out (see Table): of a *)
(* statement on them only the database it runs in is told, and that it may *)
(* print "dropped", as DROP TABLE does.  Names that contain this word are  *)
(* left out.  Data races that bring a node down are among its kills.       *)
(***************************************************************************)
EXTENDS Naturals, Sequences

CONSTANTS
  Nodes, DBs, Jobs, None

ASSUME NodesAssumption == None \notin Nodes \cup DBs \cup Jobs

\* The process of a node runs and listens, or there is none: started by the
\* operator, or by the entry point, which may still know its pid ("child") or not.
Processes == {"none", "operator", "child", "forgotten"}

\* Who started it, and with that the directory it serves: the operator names one,
\* a restart by the entry point always takes its own.
Starters == {"operator", "entry"}

VARIABLES
  process,  \* the process of each node
  dbs,      \* the databases in each directory of a node
  current,  \* current_db_, kept in dbms.meta of the directory
  cout,     \* the job whose buffer std::cout of a node writes to
  job,      \* the connections
  misled    \* history: databases a DROP of which was answered "dropped" by what
            \* another thread printed

nodeVars == <<process, dbs, current, cout, job, misled>>

Up(n)      == process[n] # "none"
Starter(n) == IF process[n] = "operator" THEN "operator" ELSE "entry"

Commands == {"use", "sql", "create", "drop"}

JobRecord ==
  [at      : {"free", "ready", "redirected", "executed", "closed", "lost"},
   node    : Nodes \cup {None},
   db      : DBs \cup {None},      \* the database the job is about
   left    : Seq(Commands),        \* the commands not finished
   saved   : Jobs \cup {None},     \* old_cout
   dropped : BOOLEAN,              \* whether its response contains "dropped"
   awaited : BOOLEAN]              \* whether the other side still listens

FreeJob == [at |-> "free", node |-> None, db |-> None, left |-> <<>>,
            saved |-> None, dropped |-> FALSE, awaited |-> TRUE]

NodesTypeOK ==
  /\ process \in [Nodes -> Processes]
  /\ dbs \in [Nodes -> [Starters -> SUBSET DBs]]
  /\ current \in [Nodes -> [Starters -> DBs \cup {None}]]
  /\ cout \in [Nodes -> Jobs \cup {None}]
  /\ job \in [Jobs -> JobRecord]
  /\ misled \subseteq DBs

NodesInit ==
  /\ process = [n \in Nodes |-> "none"]
  /\ dbs = [n \in Nodes |-> [s \in Starters |-> {}]]
  /\ current = [n \in Nodes |-> [s \in Starters |-> None]]
  /\ cout = [n \in Nodes |-> None]
  /\ job = [j \in Jobs |-> FreeJob]
  /\ misled = {}

-----------------------------------------------------------------------------
(* Connections *)

Accept(j, n, d, commands) ==
  /\ Up(n) /\ job[j].at = "free"
  /\ job' = [job EXCEPT ![j] = [FreeJob EXCEPT
               !.at = "ready", !.node = n, !.db = d, !.left = commands]]
  /\ UNCHANGED <<process, dbs, current, cout, misled>>

Executing(k) == job[k].at \in {"redirected", "executed"}

\* A thread takes the next command off its connection and turns std::cout to
\* its own buffer.
Redirect(j) ==
  LET n == job[j].node IN
  /\ job[j].at = "ready"
  /\ job' = [job EXCEPT ![j].at = "redirected", ![j].saved = cout[n]]
  /\ cout' = [cout EXCEPT ![n] = j]
  /\ UNCHANGED <<process, dbs, current, misled>>

Doing(j, command) == job[j].at = "redirected" /\ Head(job[j].left) = command

\* The command is done, and prints "dropped" or not.  What it prints goes where
\* std::cout points, which may be the buffer of another thread, the console, or a
\* buffer that is gone.
Executed(j, prints) ==
  LET readers == {k \in Jobs : prints /\ k = cout[job[j].node] /\ Executing(k)} IN
  /\ job' = [k \in Jobs |->
       [job[k] EXCEPT !.at = IF k = j THEN "executed" ELSE @,
                      !.dropped = @ \/ k \in readers]]
  /\ misled' = misled \cup
       {job[k].db : k \in {q \in readers \ {j} : job[q].left = <<"drop">>}}

\* DBMS::useDatabase.  When the database is not there the old one stays current,
\* and the command that follows is executed all the same.
Use(j) ==
  LET n == job[j].node  d == job[j].db  s == Starter(n) IN
  /\ Doing(j, "use")
  /\ current' = [current EXCEPT ![n][s] = IF d \in dbs[n][s] THEN d ELSE @]
  /\ Executed(j, FALSE)
  /\ UNCHANGED <<process, dbs, cout>>

\* A statement on a table runs in the current database; DROP TABLE prints
\* "Table dropped", and a SELECT whatever is in the table.
RunStatement(j) ==
  /\ Doing(j, "sql")
  /\ \E prints \in BOOLEAN : Executed(j, prints)
  /\ UNCHANGED <<process, dbs, current, cout>>

\* DBMS::createDatabase
Create(j) ==
  LET n == job[j].node IN
  /\ Doing(j, "create")
  /\ dbs' = [dbs EXCEPT ![n][Starter(n)] = @ \cup {job[j].db}]
  /\ Executed(j, FALSE)
  /\ UNCHANGED <<process, current, cout>>

\* DBMS::dropDatabase; only a drop that succeeds prints "Database dropped".
Drop(j) ==
  LET n == job[j].node  d == job[j].db  s == Starter(n) IN
  /\ Doing(j, "drop")
  /\ dbs' = [dbs EXCEPT ![n][s] = @ \ {d}]
  /\ current' = [current EXCEPT ![n][s] = IF @ = d THEN None ELSE @]
  /\ Executed(j, d \in dbs[n][s])
  /\ UNCHANGED <<process, cout>>

\* A connection that ended: its other side will read the end, or has left.
Ended(r, end) == IF r.awaited THEN [r EXCEPT !.at = end] ELSE FreeJob

\* std::cout gets back what it was when the command began; the answer is sent.
Restore(j) ==
  LET rest == [job[j] EXCEPT !.left = Tail(@), !.at = "ready", !.saved = None] IN
  /\ job[j].at = "executed"
  /\ cout' = [cout EXCEPT ![job[j].node] = job[j].saved]
  /\ job' = [job EXCEPT ![j] = IF rest.left = <<>> THEN Ended(rest, "closed") ELSE rest]
  /\ UNCHANGED <<process, dbs, current, misled>>

JobStep(j) ==
  \/ Redirect(j) \/ Use(j) \/ RunStatement(j) \/ Create(j) \/ Drop(j)
  \/ Restore(j)

\* The other side has read the answer to its end, or gives up waiting for it; the
\* node goes on with the commands it was sent.
Left(r) == IF r.at \in {"free", "closed", "lost"} THEN FreeJob
           ELSE [r EXCEPT !.awaited = FALSE]

-----------------------------------------------------------------------------
(* Processes *)

\* The connections when the process of a node dies.
Orphaned(n) ==
  [j \in Jobs |-> IF job[j].node = n /\ job[j].at # "closed"
                  THEN Ended(job[j], "lost") ELSE job[j]]

Kill(n) ==
  /\ Up(n)
  /\ process' = [process EXCEPT ![n] = "none"]
  /\ cout' = [cout EXCEPT ![n] = None]
  /\ job' = Orphaned(n)
  /\ UNCHANGED <<dbs, current, misled>>

StartByOperator(n) ==
  /\ ~Up(n)
  /\ process' = [process EXCEPT ![n] = "operator"]
  /\ UNCHANGED <<dbs, current, cout, job, misled>>

NodeStep ==
  \/ \E j \in Jobs : JobStep(j)
  \/ \E n \in Nodes : Kill(n) \/ StartByOperator(n)

-----------------------------------------------------------------------------
(* Properties *)

\* A statement sent after USE runs in the database that USE names, or in none.
RunsWhereSelected ==
  [][\A j \in Jobs :
       RunStatement(j) => LET n == job[j].node IN
                          current[n][Starter(n)] \in {None, job[j].db}]_nodeVars

=============================================================================
