----------------------------- MODULE AsyncTasks ----------------------------
(***************************************************************************)
(* The asynchronous queries of the entry point: class AsyncTaskManager of  *)
(* AsyncQueue.h.  Connection threads enqueue a query and ask for its       *)
(* status; worker threads take queries off a queue guarded by queue_mutex_ *)
(* and a condition variable, send them to a storage node and note the      *)
(* result; a cleanup thread forgets old results; the destructor stops them *)
(* all.                                                                    *)
(*                                                                         *)
(* tasks_map_ is written under queue_mutex_ by enqueue and read and erased *)
(* under map_mutex_ by the others: they race.  What a thread finds in a    *)
(* hash map that another one is changing is undefined: here it misses the  *)
(* task, finds it, or brings the process down.  The same goes for the      *)
(* cleanup, which frees a task while it holds the mutex inside it.         *)
(***************************************************************************)
EXTENDS Naturals, Sequences, FiniteSets

CONSTANTS
  Tasks,        \* the queries that may be enqueued
  Clients,      \* connection threads
  Workers,      \* worker threads
  None,
  MaxSpurious   \* bound on spurious wakeups of the condition variable

ASSUME AsyncAssumption ==
  /\ MaxSpurious \in Nat
  /\ None \notin Tasks \cup Clients \cup Workers
  /\ Clients \cap Workers = {}

VARIABLES
  queue,     \* task_queue_
  tasksMap,  \* the ids in tasks_map_
  status,    \* TaskInfo::status, "NONE" before the task exists
  result,    \* TaskInfo::result or error: a response, or the text of an error
  mutex,     \* the holder of queue_mutex_
  worker,    \* where each worker thread is
  held,      \* the task each worker works on
  client,    \* where each connection thread is
  subject,   \* the task each connection thread is busy with
  stop,      \* stop_
  destroyer, \* where the destructor is
  crashed,   \* undefined behaviour has brought the process down
  spurious,  \* spurious wakeups so far
  \* history
  sent,      \* how often each task was sent to its storage node
  known,     \* the tasks whose id a client was given
  answer     \* the last status a client was given for each task

vars == <<queue, tasksMap, status, result, mutex, worker, held, client, subject,
          stop, destroyer, crashed, spurious, sent, known, answer>>

Statuses == {"NONE", "PENDING", "RUNNING", "COMPLETED", "FAILED"}
Finished == {"COMPLETED", "FAILED"}

TypeOK ==
  /\ queue \in Seq(Tasks)
  /\ tasksMap \subseteq Tasks
  /\ status \in [Tasks -> Statuses]
  /\ result \in [Tasks -> {"none", "response", "error"}]
  /\ mutex \in {None} \cup Clients \cup Workers
  /\ worker \in [Workers -> {"top", "locking", "testing", "blocking", "waiting",
                             "starting", "sending", "answered", "refused", "done"}]
  /\ held \in [Workers -> Tasks \cup {None}]
  /\ client \in [Clients -> {"idle", "inserting", "notifying", "reading"}]
  /\ subject \in [Clients -> Tasks \cup {None}]
  /\ stop \in BOOLEAN
  /\ destroyer \in {"live", "stopped", "joining", "gone"}
  /\ crashed \in BOOLEAN
  /\ spurious \in 0 .. MaxSpurious
  /\ sent \in [Tasks -> Nat]
  /\ known \subseteq Tasks
  /\ answer \in [Tasks -> Statuses]

Init ==
  /\ queue = <<>> /\ tasksMap = {}
  /\ status = [t \in Tasks |-> "NONE"]
  /\ result = [t \in Tasks |-> "none"]
  /\ mutex = None
  /\ worker = [w \in Workers |-> "top"]
  /\ held = [w \in Workers |-> None]
  /\ client = [c \in Clients |-> "idle"]
  /\ subject = [c \in Clients |-> None]
  /\ stop = FALSE /\ destroyer = "live" /\ crashed = FALSE /\ spurious = 0
  /\ sent = [t \in Tasks |-> 0]
  /\ known = {}
  /\ answer = [t \in Tasks |-> "NONE"]

MoveWorker(w, from, to) == worker[w] = from /\ worker' = [worker EXCEPT ![w] = to]
MoveClient(c, from, to) == client[c] = from /\ client' = [client EXCEPT ![c] = to]

\* Some thread is changing tasks_map_ under queue_mutex_.
Inserting == \E c \in Clients : client[c] = "inserting"

-----------------------------------------------------------------------------
(* Connection threads: enqueue and getStatusJson *)

\* Mutant: the task gets no id to be registered under.
Enqueue_NoId(c, t) ==
  /\ ~crashed /\ destroyer = "live" /\ mutex = None /\ status[t] = "NONE"
  /\ MoveClient(c, "idle", "inserting")
  /\ mutex' = c
  /\ status' = [status EXCEPT ![t] = "PENDING"]
  /\ queue' = Append(queue, t)
  /\ UNCHANGED <<tasksMap, result, worker, held, subject, stop, destroyer,
                 crashed, spurious, sent, known, answer>>

\* The lock is taken, the task is in the queue and not yet in the map.
Enqueue(c, t) ==
  /\ ~crashed /\ destroyer = "live" /\ mutex = None /\ status[t] = "NONE"
  /\ MoveClient(c, "idle", "inserting")
  /\ subject' = [subject EXCEPT ![c] = t]
  /\ mutex' = c
  /\ status' = [status EXCEPT ![t] = "PENDING"]
  /\ queue' = Append(queue, t)
  /\ UNCHANGED <<tasksMap, result, worker, held, stop, destroyer, crashed,
                 spurious, sent, known, answer>>

\* An insertion that races with the erasing of another task may be lost.
InsertIntoMap(c) ==
  /\ ~crashed
  /\ MoveClient(c, "inserting", "notifying")
  /\ \/ tasksMap' = tasksMap \cup {subject[c]}
     \/ ~stop /\ (\E t \in tasksMap : status[t] \in Finished) /\ UNCHANGED tasksMap
  /\ mutex' = None
  /\ UNCHANGED <<queue, status, result, worker, held, subject, stop, destroyer,
                 crashed, spurious, sent, known, answer>>

\* Mutant: notify_one is not called.
Notify_Nobody(c) ==
  /\ ~crashed
  /\ MoveClient(c, "notifying", "idle")
  /\ known' = known \cup {subject[c]}
  /\ subject' = [subject EXCEPT ![c] = None]
  /\ UNCHANGED <<queue, tasksMap, status, result, mutex, worker, held, stop,
                 destroyer, crashed, spurious, sent, answer>>

\* notify_one, after the lock is released; then the client gets the id.
Notify(c) ==
  /\ ~crashed
  /\ MoveClient(c, "notifying", "idle")
  /\ \/ /\ \A w \in Workers : worker[w] # "waiting"
        /\ UNCHANGED worker
     \/ \E w \in Workers : MoveWorker(w, "waiting", "locking")
  /\ known' = known \cup {subject[c]}
  /\ subject' = [subject EXCEPT ![c] = None]
  /\ UNCHANGED <<queue, tasksMap, status, result, mutex, held, stop, destroyer,
                 crashed, spurious, sent, answer>>

\* The lookup under map_mutex_: it finds the task or answers "Task not found".
Lookup(c, t) ==
  /\ ~crashed /\ destroyer = "live" /\ t \in known
  /\ \/ /\ t \in tasksMap
        /\ MoveClient(c, "idle", "reading")
        /\ subject' = [subject EXCEPT ![c] = t]
        /\ UNCHANGED crashed
     \/ /\ Inserting /\ client[c] = "idle"
        /\ crashed' = TRUE
        /\ UNCHANGED <<client, subject>>
  /\ UNCHANGED <<queue, tasksMap, status, result, mutex, worker, held, stop,
                 destroyer, spurious, sent, known, answer>>

\* The status is read under the mutex of the task.
ReadStatus(c) ==
  /\ ~crashed
  /\ MoveClient(c, "reading", "idle")
  /\ answer' = [answer EXCEPT ![subject[c]] = status[subject[c]]]
  /\ subject' = [subject EXCEPT ![c] = None]
  /\ UNCHANGED <<queue, tasksMap, status, result, mutex, worker, held, stop,
                 destroyer, crashed, spurious, sent, known>>

-----------------------------------------------------------------------------
(* workerLoop *)

CheckStop(w) ==
  /\ ~crashed
  /\ IF stop THEN MoveWorker(w, "top", "done") ELSE MoveWorker(w, "top", "locking")
  /\ UNCHANGED <<queue, tasksMap, status, result, mutex, held, client, subject,
                 stop, destroyer, crashed, spurious, sent, known, answer>>

Lock(w) ==
  /\ ~crashed /\ mutex = None
  /\ MoveWorker(w, "locking", "testing")
  /\ mutex' = w
  /\ UNCHANGED <<queue, tasksMap, status, result, held, client, subject, stop,
                 destroyer, crashed, spurious, sent, known, answer>>

\* The predicate of cv_.wait is false: the thread is about to block, and until it
\* does it holds queue_mutex_, which setting stop_ does not need.
TestFails(w) ==
  /\ ~crashed /\ ~stop /\ queue = <<>>
  /\ MoveWorker(w, "testing", "blocking")
  /\ UNCHANGED <<queue, tasksMap, status, result, mutex, held, client, subject,
                 stop, destroyer, crashed, spurious, sent, known, answer>>

Block(w) ==
  /\ ~crashed
  /\ MoveWorker(w, "blocking", "waiting")
  /\ mutex' = None
  /\ UNCHANGED <<queue, tasksMap, status, result, held, client, subject, stop,
                 destroyer, crashed, spurious, sent, known, answer>>

WakeSpuriously(w) ==
  /\ ~crashed /\ spurious < MaxSpurious
  /\ MoveWorker(w, "waiting", "locking")
  /\ spurious' = spurious + 1
  /\ UNCHANGED <<queue, tasksMap, status, result, mutex, held, client, subject,
                 stop, destroyer, crashed, sent, known, answer>>

\* Mutant: the task is copied from the queue and not popped.
Take_LeavesTask(w) ==
  /\ ~crashed /\ ~stop /\ queue # <<>>
  /\ MoveWorker(w, "testing", "starting")
  /\ held' = [held EXCEPT ![w] = Head(queue)]
  /\ mutex' = None
  /\ UNCHANGED <<queue, tasksMap, status, result, client, subject, stop,
                 destroyer, crashed, spurious, sent, known, answer>>

Take(w) ==
  /\ ~crashed /\ ~stop /\ queue # <<>>
  /\ MoveWorker(w, "testing", "starting")
  /\ held' = [held EXCEPT ![w] = Head(queue)]
  /\ queue' = Tail(queue)
  /\ mutex' = None
  /\ UNCHANGED <<tasksMap, status, result, client, subject, stop, destroyer,
                 crashed, spurious, sent, known, answer>>

\* The server is going down: what is left in the queue is thrown away.
Discard(w) ==
  /\ ~crashed /\ stop
  /\ MoveWorker(w, "testing", "done")
  /\ queue' = <<>>
  /\ mutex' = None
  /\ UNCHANGED <<tasksMap, status, result, held, client, subject, stop, destroyer,
                 crashed, spurious, sent, known, answer>>

\* Mutant: the task is marked as done when it is handed over.
Run_Premature(w) ==
  /\ ~crashed
  /\ MoveWorker(w, "starting", "sending")
  /\ status' = [status EXCEPT ![held[w]] = "COMPLETED"]
  /\ UNCHANGED <<queue, tasksMap, result, mutex, held, client, subject, stop,
                 destroyer, crashed, spurious, sent, known, answer>>

Run(w) ==
  /\ ~crashed
  /\ MoveWorker(w, "starting", "sending")
  /\ status' = [status EXCEPT ![held[w]] = "RUNNING"]
  /\ UNCHANGED <<queue, tasksMap, result, mutex, held, client, subject, stop,
                 destroyer, crashed, spurious, sent, known, answer>>

\* forward_cb_ is forwardToStorage: one exchange with the storage node, without the
\* task's mutex.  When it cannot connect, or not send, it returns the text of an
\* error as its response; so it does when the query went and there is no memory to
\* keep the response.
Forward(w) ==
  LET Sent == [sent EXCEPT ![held[w]] = @ + 1] IN
  /\ ~crashed
  /\ \/ MoveWorker(w, "sending", "answered") /\ sent' = Sent
     \/ MoveWorker(w, "sending", "refused") /\ sent' \in {sent, Sent}
  /\ UNCHANGED <<queue, tasksMap, status, result, mutex, held, client, subject,
                 stop, destroyer, crashed, spurious, known, answer>>

\* Mutant: a failed task is sent once more.
NoteResult_Retries(w, outcome) ==
  /\ ~crashed /\ worker[w] \in {"answered", "refused"}
  /\ IF outcome = "FAILED"
     THEN /\ worker' = [worker EXCEPT ![w] = "sending"]
          /\ UNCHANGED <<status, result, held>>
     ELSE /\ worker' = [worker EXCEPT ![w] = "top"]
          /\ status' = [status EXCEPT ![held[w]] = outcome]
          /\ result' = [result EXCEPT ![held[w]] = "response"]
          /\ held' = [held EXCEPT ![w] = None]
  /\ UNCHANGED <<queue, tasksMap, mutex, client, subject, stop, destroyer,
                 crashed, spurious, sent, known, answer>>

\* forward_cb_ returned a response or the text of an error: both are COMPLETED.
\* FAILED is what cannot even be stored.
NoteResult(w, outcome) ==
  /\ ~crashed /\ worker[w] \in {"answered", "refused"}
  /\ worker' = [worker EXCEPT ![w] = "top"]
  /\ status' = [status EXCEPT ![held[w]] = outcome]
  /\ result' = [result EXCEPT ![held[w]] =
       IF worker[w] = "answered" /\ outcome = "COMPLETED" THEN "response" ELSE "error"]
  /\ held' = [held EXCEPT ![w] = None]
  /\ UNCHANGED <<queue, tasksMap, mutex, client, subject, stop, destroyer,
                 crashed, spurious, sent, known, answer>>

-----------------------------------------------------------------------------
(* cleanupLoop and the destructor *)

\* Nobody but the map has a pointer to the task.
OnlyInMap(t) ==
  /\ \A w \in Workers : held[w] # t
  /\ \A c \in Clients : subject[c] # t

\* A finished task older than the limit is erased.
Cleanup(t) ==
  /\ ~crashed /\ ~stop /\ t \in tasksMap /\ status[t] \in Finished
  /\ tasksMap' = tasksMap \ {t}
  /\ \/ UNCHANGED crashed
     \/ (OnlyInMap(t) \/ Inserting) /\ crashed' = TRUE
  /\ UNCHANGED <<queue, status, result, mutex, worker, held, client, subject,
                 stop, destroyer, spurious, sent, known, answer>>

\* The destructor runs when no connection thread uses the manager any more.
SetStop ==
  /\ ~crashed /\ destroyer = "live" /\ \A c \in Clients : client[c] = "idle"
  /\ stop' = TRUE
  /\ destroyer' = "stopped"
  /\ UNCHANGED <<queue, tasksMap, status, result, mutex, worker, held, client,
                 subject, crashed, spurious, sent, known, answer>>

NotifyAll ==
  /\ ~crashed /\ destroyer = "stopped"
  /\ destroyer' = "joining"
  /\ worker' = [w \in Workers |-> IF worker[w] = "waiting" THEN "locking"
                                  ELSE worker[w]]
  /\ UNCHANGED <<queue, tasksMap, status, result, mutex, held, client, subject,
                 stop, crashed, spurious, sent, known, answer>>

\* Every worker is joined; the cleanup thread waits with a time limit, so that
\* joining it needs no wakeup.
Join ==
  /\ ~crashed /\ destroyer = "joining" /\ \A w \in Workers : worker[w] = "done"
  /\ destroyer' = "gone"
  /\ UNCHANGED <<queue, tasksMap, status, result, mutex, worker, held, client,
                 subject, stop, crashed, spurious, sent, known, answer>>

WorkerStep(w) ==
  \/ CheckStop(w) \/ Lock(w) \/ TestFails(w) \/ Block(w) \/ Take(w) \/ Discard(w)
  \/ Run(w) \/ Forward(w) \/ \E outcome \in Finished : NoteResult(w, outcome)

ClientStep(c) == InsertIntoMap(c) \/ Notify(c) \/ ReadStatus(c)

DestroyerStep == NotifyAll \/ Join

Next ==
  \/ \E c \in Clients, t \in Tasks : Enqueue(c, t) \/ Lookup(c, t)
  \/ \E c \in Clients : ClientStep(c)
  \/ \E w \in Workers : WorkerStep(w) \/ WakeSpuriously(w)
  \/ \E t \in Tasks : Cleanup(t)
  \/ SetStop
  \/ DestroyerStep

\* Every thread that can take a step of its own takes one at last (the exchange
\* with a storage node has a time limit); nobody has to ask for anything.
Fairness ==
  /\ \A w \in Workers : WF_vars(WorkerStep(w))
  /\ \A c \in Clients : WF_vars(ClientStep(c))
  /\ WF_vars(DestroyerStep)

Spec == Init /\ [][Next]_vars /\ Fairness

-----------------------------------------------------------------------------
(* Properties *)

InQueue(t)   == Cardinality({i \in DOMAIN queue : queue[i] = t})
HoldersOf(t) == {w \in Workers : held[w] = t}

\* A task is in one place only, the place its status tells: at most once in the
\* queue or with one worker, and with nobody once it has finished (enqueue,
\* workerLoop).
OnePlace ==
  \A t \in Tasks :
    /\ InQueue(t) + Cardinality(HoldersOf(t)) <= 1
    /\ InQueue(t) = 1 => status[t] = "PENDING"
    /\ \A w \in HoldersOf(t) :
         status[t] = IF worker[w] = "starting" THEN "PENDING" ELSE "RUNNING"
    /\ status[t] = "RUNNING" => HoldersOf(t) # {}
    /\ status[t] = "PENDING" /\ ~stop => InQueue(t) = 1 \/ HoldersOf(t) # {}

\* A query reaches its storage node at most once, only after it is marked RUNNING,
\* and it has when a client reads a response as its result (workerLoop,
\* forwardToStorage): a write is not repeated, and not answered without being sent.
\* A result that is the text of an error tells nothing, though it is COMPLETED.
SentOnce ==
  \A t \in Tasks :
    /\ sent[t] <= 1
    /\ status[t] \in {"NONE", "PENDING"} => sent[t] = 0
    /\ answer[t] = "COMPLETED" /\ result[t] = "response" => sent[t] = 1

Rank == [NONE |-> 0, PENDING |-> 1, RUNNING |-> 2, COMPLETED |-> 3, FAILED |-> 3]

\* Two STATUS commands never show a task going backwards, or its outcome change.
AnswersAdvance ==
  [][\A t \in Tasks :
       /\ Rank[answer[t]] <= Rank[answer'[t]]
       /\ answer[t] \in Finished => answer'[t] = answer[t]]_vars

\* Whoever enqueues while every worker sleeps wakes one: a query is always
\* finished at last, unless the manager is destroyed.
EveryTaskFinishes ==
  \A t \in Tasks :
    (status[t] = "PENDING") ~> (status[t] \in Finished \/ stop \/ crashed)

\* The destructor ends ("the server is going down", workerLoop).
ShutdownEnds == stop ~> destroyer = "gone"

=============================================================================
