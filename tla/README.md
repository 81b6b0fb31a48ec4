# Formal model of the distributed SQL server

The repository is a small SQL database: clients talk to an *entry point*, which
authenticates them, knows which *storage node* holds which database and forwards
their statements over one short TCP connection each; a storage node parses the
statement and runs it on its tables, which live in page files with a temporal log
beside them (`REVERT table TO time`). This directory holds TLA+ modules of it,
the TLC configurations that check them on small instances and proofs checked by
TLAPS. Every definition follows the code under `src/project`; `PROJECT.json` maps
each to its lines.

## The system

| Part | State | Operations | Hard behaviour |
|---|---|---|---|
| Table (`DbEngine.h`, class `Table`) | rows, `row_count`, unique indexes, `.tbl`, `.meta` | insertRow, deleteRows, updateRows, revertTo, saveMetadata, constructor | kills between any two steps; memory, log and disk of different ages |
| Temporal log (`Temporal.cpp`) | `.log` file | logInsert/Update/Delete, revertTo, truncateAfter | truncation rewrites the file; a REVERT cut short |
| Page file (`StorageNode.h`) | page cache, page counter, index of pages, stream state | insert, remove, find, save_metadata, flush_all | what has reached the file when; stream failure; page id reuse |
| B+* tree (`Index.h`) | nodes, links between leaves, `_size` | find, emplace, insert_or_assign, erase with lending, splits, borrowing and merges, bounds | node limits; separators; the chain of leaves; a tree read back from pages |
| Catalogue (`Database`, `DBMS`, `SQLExecutor`) | databases, tables, `current_db_`, directories | CREATE/DROP/USE, statements | no locks; files left behind by DROP |
| Storage server (`Server.cpp`) | one `DBMS` for all connections, `cout` | one thread per connection | unsynchronised engine and redirected `cout` |
| Entry point (`Entrypoint.cpp`) | nodes, `db_to_storage_`, sessions | admin commands, routing, heartbeat, restart | lock dropped across network calls; retries; timeouts |
| Asynchronous queries (`AsyncQueue.h`) | queue, task map, workers | ASYNC, STATUS, cleanup, destructor | condition variable, two mutexes over one map |
| Access control (`Auth.h`) | users, groups, permissions, secret, file | createUser, login, checkPermission, save, load | a save empties the file first; check and change are two turns at the mutex; tokens outlive the process |
| Telemetry, access log | ten-minute window; file | recordQueryStart/End | window limits |
| Client (`main.cpp`, `CommandReader.cpp`) | command buffer, token | send, receive | framing by `;` and by buffer size |
| SQL front end (`Lexer`, `Parser`, `AST`, `Json`) | none | text to statements, rows to JSON | sequential |

A client's connection is served by a thread of the entry point, which opens a
connection of its own to the storage node for every statement; a thread of the
storage node parses and executes it on the shared engine; the engine's tables
call the page file and the log. The heartbeat thread, the workers of the
asynchronous queries and the connection threads share the state of the entry
point.

Correctness, part by part: a table never loses, invents or hides a row, its log
can always take it back to an earlier instant, its unique indexes are exact and it
can always be opened again; a page file reads back what was stored and always
holds the last saved image; a query is sent at most once, is finished at last and
its status never goes back; the tree is a sorted map within its node limits; the
entry point sends a statement to the node that has the database; a user may do
exactly what the permissions say, also after a restart.

## Modules

| Module | Content |
|---|---|
| `Table` | one table with its temporal log, the process being killed and started |
| `MCTable` | instances for TLC: a plain column; an INDEXED and a plain one |
| `TableProofs` | type correctness, completeness of the log, exactness of REVERT |
| `TableIndexProofs` | exactness of the unique indexes without REVERT |
| `PageStore` | the page file of a table, the stream's buffer and failbit, the `.meta` file, CREATE and DROP TABLE |
| `DurableMap` | abstract: a map that one process has open and its image on disk |
| `PageStoreProofs` | the page file reads back and recovers, and implements `DurableMap` |
| `MCPageStore` | the instance of `PageStore` |
| `SortedMap` | abstract: a map and its operations |
| `BPlusTree` | the B+* tree, shown to implement `SortedMap` |
| `BPlusTreeShape` | what a well-formed tree is; two neighbours made one and one cut in two keep it so |
| `BPlusTreeProofs` | every call keeps the tree well formed, within its limits and a map; bounds and iteration are exact |
| `MCTree` | a workload for it |
| `Auth` | users, groups, permissions, tokens, sessions and the file of access control |
| `AuthProofs` | promises, tokens and rights over changes, saves, kills and starts |
| `MCAuth` | the instance of `Auth` |
| `AsyncTasks` | the manager of asynchronous queries and its threads |
| `AsyncTasksProofs` | one place per task, at most one exchange, status only forwards |
| `MCAsync` | the instance of `AsyncTasks` |
| `StorageNodes` | the storage nodes as processes: connection threads, `current_db_`, `cout`, databases |
| `Cluster` | the entry point (routes, clients' threads, heartbeat), composed with `StorageNodes` |
| `ClusterProofs` | routes, one home per database, what a confirmed DROP means |
| `MCCluster` | the instances of `Cluster`, symmetry and the constraint of the safety run |

### Table

`rows`, `rowCount`, `uniq` are `storage_`, `metadata_.row_count` and
`unique_indexes_`; `log` is the `.log` file; `disk` what `.tbl` and `.meta` would
give the next start. A row is a function from columns to values. `InsertRow` is
`insertRow`; DELETE, UPDATE and REVERT take one step per row they touch, because
every row is logged with a time of its own and a kill can come between two rows.
`saving` is a `saveMetadata` in progress: `FinishSave` is the point where the image
on disk changes; the handlers that call it set `saving` and nothing else of the
table moves before it ends. `Crash` chooses what the kill leaves: the old image or
the one being saved, the whole log or, in a truncation, a part of it.
`CrashDamaging` is the kill that leaves no image (`PageStore` tells when); it is
allowed at any moment. `Open` is the constructor, which ends in a save.

`timeline` and `savedAt` are history: what the table held at each past instant.
An instant a crash or a REVERT wiped out is `Lost`; no property speaks of it.

One assumption goes further than the code: statements come one at a time (`Ready`).
`Server.cpp` starts a thread per connection and nothing locks the engine, so two statements
sent at once can interleave inside a table, with data races and no defined outcome; what
the properties and theorems of `Table`, `PageStore` and `BPlusTree` say holds as long as
the clients of a node do not let that happen. (`StorageNodes` has the threads side by side,
with databases instead of tables.)

What is abstracted: a rejected INSERT changes nothing and has no action; a
multi-row INSERT is several `InsertRow`; WHERE and SET clauses are members of small
sets; rows fit a page; the text form of a row is lossless (true without `|` and
without the empty string at the end of a row); a log record is appended by one
small write; the clock does not step back. A server never stops gracefully
(`main` handles no signal), so `Close` is what the tests' destructors do.

### PageStore

`cache`, `nextId`, `failed`, `buffered` are the memory of `PageManager`: the page
cache, `next_page_id_`, the failbit of `file_` and the page counter while it is in
the stream's buffer (a page is written past the buffer, the eight bytes of the
counter wait for the next seek). `file` and `counter` are the `.tbl` file, `meta`
the page named by `.meta`, or `Torn` while that file is empty. `BeginSave`,
`WritePage`, `EndFlush`, `EmptyMeta`, `WriteMeta` are `Table::saveMetadata` in its
order, the pages in any order (a hash map). `Kill` may come between any two of
them.

A table begins and ends in this module too. `CreateTable` is the constructor on new
files, which ends in a save; `DropTable`, `CloseFile`, `RemoveFile`, `RemoveMeta` are
the order of `Database::dropTable`: the file is flushed once more and closed, then the
`.tbl` file is removed, then the `.meta` file. `meta = Absent` is a table that is not
there, which a start leaves alone (`StartWithoutTable`). A kill between the two removals
(phase "half dropped") leaves a `.meta` file whose page file is gone: every later start
throws. `Recoverable` names this window, as it names the empty `.meta` file.

`InsertTooLarge` is a record that does not fit its page. It throws after the old page was
given up, so the key points at a page that is nowhere; the next read of it sets the
failbit, and no flush writes anything from then on, without any message. `oversized`
remembers this, and `ReadsBack` and `Recoverable` leave it out by name: nothing is promised
any more, and both fail without the exception.

`DurableMap` says what the rest of the system takes a page file for: a map that one process
has open, and an image of it that the next process opens; a save takes the image away and
puts what is open in its place. `PageStore!ImplementsMap` is the refinement. `Live` is what
`find` gives for every key of the running process, `Image` what the constructor could read
from the files, page by page from the one `.meta` names. The flush of the pages is
invisible (a stutter); the image is broken from `EmptyMeta` to `WriteMeta`. `CloseFile` is
invisible too, `RemoveFile` breaks the image or, for an empty table, which has no page,
leaves it as it was. A kill changes no image. A record too large is the step `Spoil`, after
which the abstract map promises nothing until it is dropped.

The tree is one page here (up to 19 keys); `BPlusTree` has trees of many nodes. Unique
indexes, which use pages but are never named by a file, are left out.

### BPlusTree and SortedMap

`SortedMap` is what the page file needs: a partial function, and what insert, assign and
erase do to it. `BPlusTree` is class `BSP_tree` over a heap of nodes with addresses:
`tree` is the nodes, `_root` and `_size`. Its operators are the functions of `Index.h`,
applied on the way up from the leaf as there: `InsertInto` with `Relieve` (lend to the
left, lend to the right, split), `EraseFrom` with `Refill` (borrow from a neighbour, from
the one behind it, merge three into two, merge the last two), `SplitRoot`, and the loss of
the root. `Emplace`, `InsertOrAssign`, `EraseKey`, `Clear` are the calls, `Store` is
`PageBasedIndex::insert`, which erases a key before it inserts it again. `Reload` is
`save_metadata` followed by `load_metadata`: `save_node` follows the children and the
links of leaves, so every leaf that is read back has copies of all later leaves behind it
(`copies`), and `_size` starts from 0. A search in a node is modelled by the position it
finds. An access outside the array of a node has no value in the model and stops TLC with
an error; the passing run therefore also shows that there is none.

`ImplementsMap` maps the state to `Content`, what a descent finds for each key. After a
`Reload` that is all that holds, and all the system uses: iteration, bounds and `size()`
go wrong as soon as a tree that was read back is changed, so `IterationComplete` and
`BoundsExact` speak of trees that were not. `WithinLimits` has `LeastKeys`, not `MinKeys`:
a split leaves `(3 * Order - 1) / 2` keys, less than the `2 * Order - 1` that erasing
keeps up, so the two-thirds occupancy of a B* tree is not what the code gives.

Not modelled: copies and moves of trees, constructors from ranges, going backwards, the
value returned by `erase(iterator)` (it searches with a reference to the key it has just
removed; the page file ignores it). `Order` is a constant. The code's default is 5. With
`Order` 1 `merge_3_leaf` reads outside its node, with 2 `merge_3_internal` can: the
system uses neither, a test uses 2.

### Auth

`memory` is what `AuthManager` knows (`secret`, users with salt, groups and permissions,
groups with permissions, defaults), `file` what the lines of the user file say. Every
method holds one mutex; a change ends in `save()`, which opens the file, thereby emptying
it (`BeginSave`), and writes a line at a time in its order (`WriteLine`): the secret, the
users, the groups, the defaults. The file may not open, in which case `save()` returns and
the file stands as it was; or a line is not written (`WriteFails`), and then none of the
later ones is. `stream` says how the last save fared. Nobody looks: the client is told that
the command was carried out in every case. `saving` is the thread inside `save()`. `Kill`
may come at any line; `Start` and `FirstStart` are the constructor with and without a
secret in what it finds, where a file that cannot be opened for reading counts as none.
A command that changes something (`Command`) first asks whether its user is an
administrator, then takes the mutex again for the change (`CreateUser`, `AddGroup`,
`AddUserToGroup`, `SetPermissions`); CREATE USER … ADMIN takes it a third time
(`MakeAdmin`). `session` is the thread of a connection: its user and how far its command
is. `Login` gives out a token, `Bearer` takes one, `Expire` is its hour.

`tokens` (given out, not an hour old), `promised` (what answers said) and `durable` (what of
it the last whole save has put into the file) are history. While the process runs
`PromisesKept` holds for everything promised. A kill takes back what is not durable, and a
save that empties the file makes nothing durable until it has come to a good end; a save
that could not open the file leaves what was. A start that cannot read the file begins
anew, with nothing promised. A token of a process none of whose saves
could write the secret is lost with the process.

What the model keeps of the text of the file is where it goes wrong. A salt is written as
it is, and may contain the colon that separates the fields (`Salts`, with what the rest of
the salt spells). The line of that user is read back by `ReadUser` as `load()` does: the
rest of the salt becomes his groups and, behind a second colon, permissions; his own groups
run into the permissions and spoil the first of them; no password fits any more. This can
hit the first administrator as well. With a second colon and an equals sign that no number
follows `std::stoi` throws and the server does not start again (`Readable`), the one reason
for which a run of `Auth` may stop for good. `PromisesKept` says of such a user only that he
is still there, and `StartsAddNoRight` that the start gives him no right but what the salt
spells: sixteen random characters rarely spell the name of a group or a database, but
nothing in the code rules it out. Where the last save could not open the file a start goes
back to an older state, in which a right taken away since may be there; that case is left
out of `StartsAddNoRight` by name.

Two assumptions: names of users, groups and databases hold no colon, comma or equals sign
(nothing in the code asks for that, and the format has no escapes), and a line is written
whole or not at all. Hashes, signatures and encodings are reduced to what they tell apart,
so nothing is said about guessing or forging.

Two more things the actions show: the result of `addUserToGroup` is not looked at in
CREATE USER … ADMIN, so after a kill that lost the group `admin` the new user is none,
without a message; SET PERMISSION for a user or a group that is not there is answered
like any other.

### AsyncTasks

Threads and their program counters: `client` for connection threads, `worker` for
`workerLoop`, `destroyer` for the destructor; `mutex` is `queue_mutex_`; `queue`,
`tasksMap`, `status` the data. `TestFails` and `Block` split `cv_.wait` where it
matters: the mutex is held, but `stop_` is set without it. `map_mutex_` and the
mutexes of tasks protect single steps and need no variable. `enqueue` writes the map
under the wrong mutex, so a lookup or cleanup in the middle of it has an undefined
outcome: the lookup misses or finds the task, an insertion is lost, or the process
goes down (`crashed`); the cleanup also frees a mutex it holds. A lookup that misses
answers "Task not found" and changes nothing. `Forward` is `forwardToStorage`: it sends the
query and returns a response, or the text of an error, which it does both when it could
not connect and nothing was sent and when it fails later. The worker takes either for a
result (`NoteResult`), so a query that never left is COMPLETED too. `result` tells the two
apart, and `SentOnce` says what a client may conclude: no query is sent twice, and one with
a response of a node was sent.

### StorageNodes and Cluster

A node is a process (`process`: none, the operator's, or one the entry point started,
whose pid it still knows or has forgotten) that serves the directory of whoever started it
(`Starter`): `run_cluster.sh` starts it on `./storage_<port>`, the heartbeat on
`./storage_data_<port>`, so `dbs` and `current` have two directories per node. A `job`
is a connection with the commands it still has to execute; its thread redirects `cout`
(`Redirect`), executes (`Use`, `RunStatement`, `Create`, `Drop`) and restores `cout`
(`Restore`), and the threads of a node run side by side. What a command prints goes to the
job `cout` points to, which is how an answer comes to contain the "dropped" of another: a
DROP DATABASE prints it if it succeeds, and a statement may print it ("Table dropped", or a
row that says so). `current` stays across kills, as `dbms.meta` does; a create or a drop,
with the directory it makes or removes, is one step.

`Cluster` adds the entry point. `mutex_` needs no variable beyond `beat`: it is held
for single steps, and by the heartbeat from the first node of a round to the last
(`FreeMutex`). A client's thread with a request waits for it (`Request`, `LockingStep`),
looks the route up (`AskNodeOfDatabase`) or makes it (`CreateDatabase`), then does `Send`,
`Receive` or `Timeout` without the lock, and after a confirmed DROP `EraseRoute` under it
again. After a timeout the job goes on without a listener. `RestartStorageNode` has the
outcomes the code can meet: the node is down, or was only slow; a process known by its pid
is ended, any other keeps the port; the new one listens or fails.
`RestartEntry` forgets everything; it waits until no node started by the heartbeat is
up, since such a node has inherited the listening socket. All nodes are local;
clients have every right (`Auth` has the rights). Connections that go to a node directly,
past the entry point, are left out, and so are the client's own current database (it only
supplies the name) and ASYNC (see `AsyncTasks`).

`evicted` is history: databases whose route was lost by REMOVE STORAGE or by a
restart of the entry point. The code gives no way back to them. `misled` is history too:
databases a DROP of which was answered by another thread's "dropped", after which the
entry point erases the route of a database that may be there, or is about to be. `OneHome`
and `DroppedIsGone` leave both out, also when the name is used again, and so say that
threads side by side do no other harm.

`OneHome` says what the order of steps in CREATE (route first) and DROP (route last)
is for: late, lost and repeated requests never leave a second copy, or one without
its route. The converse fails by design of the code: a CREATE that fails leaves a
route to nothing.

## Runs

| Run | Result | Shows |
|---|---|---|
| `table_revert` | pass | log completeness, what a crash costs, exact REVERT: 2 row ids, 3 instants, 3 records |
| `table_indexed` | pass | exact unique indexes and reopening, without REVERT: 3 row ids, 6 records |
| `table_duplicate` | violation | REVERT on an INDEXED column makes a table that cannot be opened |
| `pages` | pass | read back, recoverability, no live page overwritten, and `DurableMap` implemented, from CREATE to DROP TABLE: 5 page ids, 2 kills |
| `pages_kill` | violation | a kill after a save makes page ids be given out twice |
| `async_tasks` | pass | 2 queries, 2 clients, 2 workers |
| `async_shutdown` | violation | the destructor can wait for ever |
| `cluster` | pass | one home per database: 2 nodes, 1 database, 2 clients, 2 connections side by side |
| `cluster_live` | pass | answers and the heartbeat's verdict: 2 nodes, 1 client that waits for the lock and the node |
| `cluster_use` | violation | a statement runs in the database another client selected |
| `bptree` | pass | the tree is a map, balanced and within its limits: 149 keys, `Order` 3, three levels |
| `auth` | pass | promises, tokens and rights over kills, failing writes and starts: 2 connections, 2 commands, 3 faults |

Bounds. Two row ids are enough for a record of one row to interleave with records of
another and for a row id to be given out twice; three instants give one before, at
and after a target; three records allow a REVERT that keeps one and undoes two, and a
crash in a truncation that loses one of them. The log is a bound on the number of
changes, kills are not bounded. Three row ids let an UPDATE meet both another row's
value and its own. Five page ids allow two saves with an update between them and a
start; a second kill hits the start itself. Two workers and two tasks are the least
where a wakeup can go to the wrong worker.

In `Cluster` neither requests nor kills are counted: connections are used again, so
the runs cover histories of any length with two (`cluster`) or one (`cluster_live`) of
them open at a time. Two connections are a late request and a current one, or two threads
of one node whose answers mix; two nodes are the least where a second copy can be.
`next_node_index_` is kept modulo `Cycle`, a multiple of every number of nodes, so that the
node chosen is the code's. `cluster` uses symmetry of nodes, connections and clients, and
two constraints. `SomeKept` stops where the only database is `evicted` or `misled` and the
properties are true for good. `Bounded` allows one statement on a table at a time, and once
both nodes are in use, one busy client and one restarted node: what two clients and two
threads can do on one node is covered, what one client with late requests can do on two,
not both together (the theorems have no such bound).

`cluster_live` has two nodes, so that a round of the heartbeat holds `mutex_` over several
steps and a request must wait for it, and one client, which sends what it needs: CREATE
takes the lock, waits for the node and gives it back. DROP would take the lock twice and
waits no differently.

The workload of `bptree` is not every sequence of calls: the tree is filled ascending,
descending or scattered, emptied wholly or by half in one of these orders, filled again by
each kind of insertion, and may be read back before each part. 149 keys in nodes of `Order`
3 make three levels, and the parts were chosen so that every case of lending, splitting,
borrowing and merging occurs, in leaves and in internal nodes. The same workload with the
code's `Order` 5 and 269 keys passes too (`Turns = 1`), but adds no case.

In `auth` two connections are a command between the check and the change of another. Two
commands are a user, a group or a permission, and a change of it by another connection; three
faults are a save that fails, the kill after it and one in the save of the start that
follows. The salts are a plain one, one with two colons that spells the group `admin` and a
permission, and one that no start survives. Connections are symmetric. `CHECK_DEADLOCK FALSE`: with a salt that cannot be read back the server is down
for good, and the commands are counted.

Fairness in `AsyncTasks`. Weak fairness for each thread's own steps: the
operating system runs every ready thread, a worker's exchange with a node ends by its
socket timeout, and whoever waits for `queue_mutex_` waits for a few instructions of
another. New requests, spurious wakeups, the cleanup and the destructor are not fair.

Fairness in `Cluster`. Weak fairness of a client's thread, which waits for a node at
most three seconds for the connection and five for data, and of the heartbeat, whose
checks and restarts are bounded too; strong fairness of `LockingStep`, the steps that need
`mutex_`: the heartbeat gives it back for five seconds after every round, and other threads
hold it for a few instructions. (A node that sends a byte every four seconds could hold a
thread longer; a node sends an answer in one piece.) The nodes have no fairness: they may
hang at any moment.

## Proofs

The runs check small instances; the theorems hold for every value of the constants that
the assumptions allow. `PROJECT.json` lists them with the properties they state. The
assumptions say that the constants are of their types and the special values distinct:
`ConstantsAssumption` (`Table`), `PageAssumption`, `AsyncAssumption`, `AuthAssumption`
(the names `admin` exist), `TreeAssumption` (keys are integers), `NodesAssumption` and
`ClusterAssumption` (`Cycle` is a multiple of every number of nodes). TLC evaluates each of
them in a run.

One hypothesis stands in the statements of `PageStoreProofs`, because without it the
properties are false of the code and a run shows it: `~KillBeforeCount`, no kill between a
flush and the next seek. The page counter is then still in the buffer of the stream;
`pages_kill` shows what happens. The rest of the kills, at any instant, are in.

`TableIndexProofs` has `~RevertAllowed` for the same reason (`table_duplicate`), and the
theorems of `BPlusTreeProofs` have `Order >= 3`: with `Order` 2 the middle of three internal
nodes to be merged may lie outside the middle one, which the code does not ask
(`merge_3_internal`); the code's default is 5.

`TableProofs`: `Init` and every action preserve `RewindInv`, together with `TypeOK`.
`LogExplainsRows` is not inductive: a REVERT in progress undoes the newest records
first, so it needs to know that the log is in time order (`LogOrdered`), that the
history speaks of the past only (`HistoryIsPast`), and which rows are already back
(`RevertProgress`: a row with an undone record holds the old row of the oldest of
them). A crash puts the disk image into memory, so the same must hold of the image
for the instants before its save (`LogExplainsDisk`), which in turn rests on every
unsaved row being in the log (`UnsavedIsLogged`) and on row ids known to the disk
(`IdsSaved`, `NoRowBeyondCount`). `RevertRestores` follows: when nothing newer than the
target is pending, `RevertProgress` and `LogExplainsRows` leave each row either without
a newer record or back at the old row of its oldest one.

`TableIndexProofs`: under `~RevertAllowed`, `IndexExact` and `RebuildNeverThrows` are
proved with the invariant that no two rows, in memory or on disk, share an INDEXED
value.

`PageStoreProofs`: `ReadsBack` and `Recoverable` are inductive only within `PageInv`. Its
core is that page ids grow: every id in the index, in the cache and in the image on disk is
at most the last one given out (`IdsBelow`, `LiveBelow`), and those of the image at most
`Count`, the count a start will read, so a fresh page is never one the image names. A
cached page that is counted is as in the file (`CacheClean`), which makes the second write
of a page harmless; `SavePending` follows the tree of a save from the cache to the file,
`MetaPhase` the `.meta` file through save, DROP and start; `FailedIsPast` confines the
failbit to tables that met an oversized record. `LivePagesStand` needs `LiveBelow` and
`CacheClean` at one step. `PageFileIsDurable` is the refinement: with the invariant `Live`
is `content` and `Image` is `saved` wherever the abstract map promises one (`MapsAre`), so
that each action reduces to what it does to the history, and `NextImplements` names the
step of `DurableMap` for each.

`AsyncTasksProofs`: `OnePlace` counts, `TaskInv` says the same without counting: no task is
in the queue twice, a task in the queue is with no thread, two workers never have the same
task, and the status of each task tells which of these places it is in. `SentOnce` and
`AnswersAdvance` follow, whether the exchange fails or not and whatever the undefined
outcomes of the unlocked map.

`AuthProofs`: `StillAdmin` (a command that was found permitted still is when its change is
made) and `TokensHold` are inductive with what the file can say while a save is under way:
if it was opened its lines are those of the memory (`OpenedTrue`, `LinesTrue`) and its
secret is the one in memory or is not there yet (`SecretKnown`); a file that was not opened
is an older one, of which only its secret matters. A user between the two halves of CREATE
USER … ADMIN exists (`HalvesFit`). `PromisesKept` needs more: what is durable would be kept
by what a start reads back (`DurableHolds`), a save that ends with a good stream has left no
line out (`GoodIsComplete`), and the memory that is being written already keeps what its end
will promise (`SaveKeeps`). `NoRightFromAStart`: a start loses rights to a salt with a colon
and adds none that the salt does not spell (`ReadAdds`).

`ClusterProofs`: the name of a database is a token. It passes from the request to create it
(`Asking`) to the connection that carries it (`Making`), to a directory on a node (`Homes`)
and to the client who is told of its end (`Confirmed`), and at most one of these places has
it (`OneClaim`), always at the node of the route (`Routes`), unless the database is evicted
or misled. Late, lost and repeated requests only move or remove it; `Fewer` names the steps
that do no more than that. A confirmation that comes from another thread makes its database
misled in the step that prints it. `OneHome` and `DroppedIsGone` read it off. The threads of
the nodes run side by side throughout.

`BPlusTreeShape` and `BPlusTreeProofs`: a well-formed tree is one whose nodes can be given a
height `ht` and a range of keys `iv` (`Tree(h, ht, iv)`). A leaf has height 0 and holds
ascending entries of its range; the children of an internal node are one lower and have the
slices its separators cut from its range; nodes of the same height share no key. Nothing is
said of the way a node is reached, so a change at one place need not speak of the rest: this
is what makes the invariant inductive. `Balanced`, `WithinLimits` and `ImplementsMap` are not
inductive by themselves: lending moves a separator, which is right only if both nodes hold
what their ranges say, and a merge reads entries that are there only if the sizes are right.
- The links between leaves are part of it as an implication, since a reload loses them:
  as long as the tree was not read back it is `Chained`, each leaf linked to the one whose
  range begins where its own ends (`Adjacent`), the last one to none (`Top`).
- Lending, splitting and merging are all made of one thing. `Halves(big, small, p, i, l, r)`
  says that `small` is `big` with the children `l` and `r` of `p` put together; `JoinKeepsTree`
  takes well-formedness from `big` to `small`, `CutKeepsTree` back. A lending is a join and
  a cut elsewhere, a split a cut, the merge of three into two is two joins and a cut. The
  entries stay the same (`Rearranged`).
- `InsertInto`, `EraseFrom` and `Down` are recursive functions over the nodes of the heap.
  What they yield is proved by induction on the height, with the lemma `Induction`: the set
  of heights for which the statement holds contains every number (`Inserts`, `Erases`,
  `DownFinds`). The step is that a child one key too full or too empty is put right by
  `Relieve` or `Refill`, at the cost of at most one key of the parent; the case analysis of
  sizes is in the section on the sizes of nodes.
- `Whole(t, E, linked)` is a tree with its root, whose range is all integers, and its sizes,
  that holds exactly the entries `E` and is chained if `linked`. Every call takes it to a
  tree that holds the new entries (`NextSteps`), whence `TreeIsWhole`; `ContentIs` turns
  entries into the map, `StepImplements` names the step of `SortedMap`.
- A bound that falls behind the last key of its leaf is the first key of the next one, which
  holds no less than one: `LeastNext` and `NoneAbove` give `BoundsAreExact`.
- `IterationIsComplete`: the walk from leaf to leaf ends because there are ever fewer leaves
  above (`ChainRanked`), so it is a sequence of leaves whose ranges adjoin, from the one down
  the first children (`FirstIsLeftmost`), which has no range below it, to one with none above
  (`Trail`). What has been put together after each of them lists the entries up to the end
  of its range (`TrailLists`). That `size()` is the number of entries is an invariant of its
  own (`SizeInv`); a list without repetition has as many (`ListCounts`).

Only model-checked:

- Liveness (`EveryTaskFinishes`, `ShutdownEnds`, `Answered`, `DeadNoticed`): out of the
  prover's reach.
- The violations, which are single behaviours.

## Plan

Done, in this order: `Table` and its proofs, `PageStore`, `AsyncTasks`, `StorageNodes` with
`Cluster`, `BPlusTree` with `SortedMap`, `Auth`, CREATE and DROP TABLE in `PageStore`; the
proofs of `AsyncTasks`, `Auth`, `PageStore`, `Cluster`, `DurableMap` and `BPlusTree`. Next:

1. Proofs: the agreement of `Table`, whose saves are atomic, with `DurableMap`.
2. `Table` on the log that DROP TABLE leaves behind, and on a clock that steps back: both
   break `LogExplainsRows` at once, so they need a weaker property first.
3. `Cluster`: databases left on removed nodes and their names used again, where the late
   `EraseRoute` of a DROP erases the route of a new database.

## Not modelled

- The SQL front end (`Lexer`, `Parser`, `AST`) and the JSON output: sequential text
  processing without state; a model would repeat the grammar. Their results are the inputs
  of `Table`.
- The client's `CommandReader` and the way the servers cut a stream into commands. Only
  the texts of answers depend on it; `Cluster` takes commands whole.
- Telemetry: averages over a window of ten minutes, which nothing but a display reads.
- The access log, which nothing reads back; allocators, string pool, value types and
  socket wrappers, which have no behaviour the properties can tell; tests and scripts.
- `SQLExecutor` beyond the actions above: it checks names and prints.
- Identical ids from `generateUUIDv4`, whose generator has no lock: `AsyncTasks` takes ids
  as unique.
