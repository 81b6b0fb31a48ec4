-------------------------- MODULE AsyncTasksProofs --------------------------
(***************************************************************************)
(* Theorems about AsyncTasks, for every number of queries and threads.     *)
(***************************************************************************)
EXTENDS AsyncTasks, SequenceTheorems, FiniteSetTheorems, TLAPS

-----------------------------------------------------------------------------
(* The inductive invariant.  OnePlace counts; what makes it hold is that every  *)
(* place knows what the others do not have.                                    *)

\* No task is in the queue twice.
QueueDistinct ==
  \A i, j \in DOMAIN queue : queue[i] = queue[j] => i = j

\* A task in the queue waits: no worker has it, and it was not sent.
QueueWaits ==
  \A i \in DOMAIN queue :
    /\ status[queue[i]] = "PENDING" /\ sent[queue[i]] = 0
    /\ \A w \in Workers : held[w] # queue[i]

\* Two workers never have the same task.
WorkersApart ==
  \A v, w \in Workers : held[v] # None /\ held[v] = held[w] => v = w

\* Where a worker is tells whether it has a task, and how far that task is.
WorkerKnows ==
  \A w \in Workers :
    /\ held[w] # None <=> worker[w] \in {"starting", "sending", "answered", "refused"}
    /\ worker[w] = "starting" => status[held[w]] = "PENDING" /\ sent[held[w]] = 0
    /\ worker[w] = "sending"  => status[held[w]] = "RUNNING" /\ sent[held[w]] = 0
    /\ worker[w] = "answered" => status[held[w]] = "RUNNING" /\ sent[held[w]] = 1
    /\ worker[w] = "refused"  => status[held[w]] = "RUNNING" /\ sent[held[w]] \in {0, 1}

\* What the status of a task says of its place and of the exchange with its node.
StatusTells ==
  \A t \in Tasks :
    /\ status[t] \in {"NONE", "PENDING"} => sent[t] = 0
    /\ status[t] \in Finished => sent[t] \in {0, 1}
    /\ status[t] = "COMPLETED" /\ result[t] = "response" => sent[t] = 1
    /\ status[t] = "RUNNING" => \E w \in Workers : held[w] = t
    /\ status[t] = "PENDING" /\ ~stop =>
         (\E i \in DOMAIN queue : queue[i] = t) \/ (\E w \in Workers : held[w] = t)

\* A client was never told more than is so, and an outcome it was told stands.
AnswerHolds ==
  \A t \in Tasks :
    /\ Rank[answer[t]] <= Rank[status[t]]
    /\ answer[t] \in Finished => status[t] = answer[t]

\* A connection thread that is at work has a task to work on.
SubjectKnown ==
  \A c \in Clients : client[c] # "idle" => subject[c] # None

TaskInv ==
  /\ QueueDistinct /\ QueueWaits /\ WorkersApart /\ WorkerKnows
  /\ StatusTells /\ AnswerHolds /\ SubjectKnown

-----------------------------------------------------------------------------
(* Types *)

LEMMA InitType == Init => TypeOK
<1> SUFFICES ASSUME Init PROVE TypeOK
  OBVIOUS
<1>1. queue \in Seq(Tasks)
  BY DEF Init
<1>2. spurious \in 0 .. MaxSpurious /\ sent \in [Tasks -> Nat]
  BY AsyncAssumption DEF Init
<1>3. /\ status \in [Tasks -> Statuses] /\ answer \in [Tasks -> Statuses]
      /\ mutex \in {None} \cup Clients \cup Workers
      /\ held \in [Workers -> Tasks \cup {None}] /\ subject \in [Clients -> Tasks \cup {None}]
  BY DEF Init, Statuses
<1> QED
  BY <1>1, <1>2, <1>3 DEF Init, TypeOK

LEMMA NextType == TypeOK /\ TaskInv /\ [Next]_vars => TypeOK'
<1> SUFFICES ASSUME TypeOK, SubjectKnown, WorkerKnows, [Next]_vars PROVE TypeOK'
  BY DEF TaskInv
<1> USE AsyncAssumption DEF TypeOK, Statuses, Finished
<1>1. ASSUME NEW c \in Clients, NEW t \in Tasks, Enqueue(c, t)
      PROVE  TypeOK'
  <2>1. queue' \in Seq(Tasks)
    BY <1>1, AppendProperties DEF Enqueue
  <2> QED
    BY <1>1, <2>1 DEF Enqueue, MoveClient
<1>2. ASSUME NEW c \in Clients, NEW t \in Tasks, Lookup(c, t)
      PROVE  TypeOK'
  BY <1>2, ZenonT(40) DEF Lookup, MoveClient
<1>3. ASSUME NEW c \in Clients, InsertIntoMap(c)
      PROVE  TypeOK'
  BY <1>3 DEF InsertIntoMap, MoveClient, SubjectKnown
<1>4. ASSUME NEW c \in Clients, Notify(c)
      PROVE  TypeOK'
  BY <1>4 DEF Notify, MoveClient, MoveWorker, SubjectKnown
<1>5. ASSUME NEW c \in Clients, ReadStatus(c)
      PROVE  TypeOK'
  BY <1>5 DEF ReadStatus, MoveClient, SubjectKnown
<1>6. ASSUME NEW w \in Workers, CheckStop(w) \/ Lock(w) \/ TestFails(w) \/ Block(w)
      PROVE  TypeOK'
  BY <1>6 DEF CheckStop, Lock, TestFails, Block, MoveWorker
<1>7. ASSUME NEW w \in Workers, Take(w)
      PROVE  TypeOK'
  <2>1. Head(queue) \in Tasks /\ Tail(queue) \in Seq(Tasks)
    BY <1>7, HeadTailProperties DEF Take
  <2> QED
    BY <1>7, <2>1 DEF Take, MoveWorker
<1>8. ASSUME NEW w \in Workers, Discard(w) \/ WakeSpuriously(w)
      PROVE  TypeOK'
  <2>1. CASE Discard(w)
    <3>1. queue' \in Seq(Tasks)
      BY <2>1 DEF Discard
    <3> QED
      BY <2>1, <3>1 DEF Discard, MoveWorker
  <2>2. CASE WakeSpuriously(w)
    BY <2>2 DEF WakeSpuriously, MoveWorker
  <2> QED
    BY <1>8, <2>1, <2>2
<1>9. ASSUME NEW w \in Workers, Run(w) \/ Forward(w)
      PROVE  TypeOK'
  <2>1. held[w] \in Tasks
    BY <1>9 DEF Run, Forward, MoveWorker, WorkerKnows
  <2>2. CASE Run(w)
    BY <2>1, <2>2 DEF Run, MoveWorker
  <2>3. CASE Forward(w)
    <3>1. sent' \in [Tasks -> Nat]
      <4>1. [sent EXCEPT ![held[w]] = @ + 1] \in [Tasks -> Nat]
        BY <2>1
      <4>2. sent' = sent \/ sent' = [sent EXCEPT ![held[w]] = @ + 1]
        BY <2>3 DEF Forward
      <4> QED
        BY <4>1, <4>2
    <3>2. worker' = [worker EXCEPT ![w] = "answered"] \/ worker' = [worker EXCEPT ![w] = "refused"]
      BY <2>3 DEF Forward, MoveWorker
    <3>3. UNCHANGED <<queue, tasksMap, status, result, mutex, held, client, subject,
                      stop, destroyer, crashed, spurious, known, answer>>
      BY <2>3 DEF Forward
    <3> QED
      BY <3>1, <3>2, <3>3
  <2> QED
    BY <1>9, <2>2, <2>3
<1>10. ASSUME NEW w \in Workers, NEW outcome \in Finished, NoteResult(w, outcome)
       PROVE  TypeOK'
  BY <1>10 DEF NoteResult, MoveWorker
<1>11. ASSUME NEW t \in Tasks, Cleanup(t)
       PROVE  TypeOK'
  BY <1>11 DEF Cleanup
<1>12. CASE SetStop \/ NotifyAll \/ Join
  BY <1>12 DEF SetStop, NotifyAll, Join
<1>13. CASE UNCHANGED vars
  BY <1>13 DEF vars
<1> QED
  BY <1>1, <1>2, <1>3, <1>4, <1>5, <1>6, <1>7, <1>8, <1>9, <1>10, <1>11, <1>12, <1>13
     DEF Next, ClientStep, WorkerStep, DestroyerStep

-----------------------------------------------------------------------------
(* The inductive invariant is preserved, by the actions that touch a task. *)

LEMMA InitTask == Init => TaskInv
BY AsyncAssumption
   DEF Init, TaskInv, QueueDistinct, QueueWaits, WorkersApart, WorkerKnows, StatusTells,
       AnswerHolds, SubjectKnown, Rank, Finished

\* A task that is new waits at the end of the queue.
LEMMA EnqueueTask ==
  ASSUME TypeOK, TaskInv, NEW c \in Clients, NEW t \in Tasks, Enqueue(c, t)
  PROVE  TaskInv'
<1> USE AsyncAssumption DEF TypeOK, TaskInv, Enqueue, MoveClient
<1>1. /\ DOMAIN queue' = 1 .. Len(queue) + 1
      /\ \A i \in 1 .. Len(queue) : queue'[i] = queue[i]
      /\ queue'[Len(queue) + 1] = t
      /\ DOMAIN queue = 1 .. Len(queue) /\ Len(queue) \in Nat
      /\ \A i \in DOMAIN queue : queue[i] \in Tasks
  BY AppendProperties, LenProperties, ElementOfSeq
<1>2. /\ status[t] = "NONE" /\ sent[t] = 0 /\ answer[t] = "NONE"
      /\ \A i \in DOMAIN queue : queue[i] # t
      /\ \A w \in Workers : held[w] # t
  <2>1. answer[t] = "NONE"
    BY DEF AnswerHolds, Rank, Statuses, Finished
  <2>2. status[t] = "NONE" /\ sent[t] = 0 /\ \A i \in DOMAIN queue : queue[i] # t
    BY DEF StatusTells, QueueWaits
  <2>3. ASSUME NEW w \in Workers, held[w] = t
        PROVE  FALSE
    <3>1. worker[w] \in {"starting", "sending", "answered", "refused"}
      BY <2>3 DEF WorkerKnows
    <3>2. status[t] \in {"PENDING", "RUNNING"}
      BY <2>3, <3>1 DEF WorkerKnows
    <3> QED
      BY <2>2, <3>2
  <2> QED
    BY <2>1, <2>2, <2>3
<1>3. /\ UNCHANGED <<worker, held, result, sent, answer, stop>>
      /\ status' = [status EXCEPT ![t] = "PENDING"]
  OBVIOUS
<1>4. QueueDistinct'
  BY <1>1, <1>2 DEF QueueDistinct
<1>5. QueueWaits'
  BY <1>1, <1>2, <1>3 DEF QueueWaits
<1>6. WorkersApart' /\ WorkerKnows'
  BY <1>2, <1>3 DEF WorkersApart, WorkerKnows
<1>7. StatusTells'
  <2>1. \A i \in DOMAIN queue : i \in DOMAIN queue' /\ queue'[i] = queue[i]
    BY <1>1
  <2>2. Len(queue) + 1 \in DOMAIN queue' /\ queue'[Len(queue) + 1] = t
    BY <1>1
  <2> HIDE DEF Enqueue
  <2> SUFFICES ASSUME NEW u \in Tasks
               PROVE  /\ status'[u] \in {"NONE", "PENDING"} => sent[u] = 0
                      /\ status'[u] \in Finished => sent[u] \in {0, 1}
                      /\ status'[u] = "COMPLETED" /\ result[u] = "response" => sent[u] = 1
                      /\ status'[u] = "RUNNING" => \E w \in Workers : held[w] = u
                      /\ status'[u] = "PENDING" /\ ~stop =>
                           \/ \E i \in DOMAIN queue' : queue'[i] = u
                           \/ \E w \in Workers : held[w] = u
    BY <1>3 DEF StatusTells
  <2>3. CASE u = t
    BY <1>2, <1>3, <2>2, <2>3 DEF Finished
  <2>4. CASE u # t
    BY <1>3, <2>1, <2>4 DEF StatusTells
  <2> QED
    BY <2>3, <2>4
<1>8. AnswerHolds'
  BY <1>2, <1>3 DEF AnswerHolds, Rank, Finished
<1>9. SubjectKnown'
  BY DEF SubjectKnown
<1> QED
  BY <1>4, <1>5, <1>6, <1>7, <1>8, <1>9

\* A worker takes the task at the head of the queue.
LEMMA TakeTask ==
  ASSUME TypeOK, TaskInv, NEW w \in Workers, Take(w)
  PROVE  TaskInv'
<1> USE AsyncAssumption DEF TypeOK, TaskInv, Take, MoveWorker
<1>1. /\ Len(queue) \in Nat \ {0} /\ DOMAIN queue = 1 .. Len(queue)
      /\ DOMAIN queue' = 1 .. Len(queue) - 1
      /\ \A i \in 1 .. Len(queue) - 1 : queue'[i] = queue[i + 1]
      /\ Head(queue) = queue[1]
      /\ \A i \in DOMAIN queue : queue[i] \in Tasks
  BY HeadTailProperties, LenProperties, EmptySeq, ElementOfSeq
<1>2. /\ held' = [held EXCEPT ![w] = queue[1]] /\ held[w] = None
      /\ worker' = [worker EXCEPT ![w] = "starting"]
      /\ UNCHANGED <<status, result, sent, answer, stop, client, subject>>
      /\ queue[1] \in Tasks /\ queue[1] # None
  <2>1. held[w] = None
    BY DEF WorkerKnows
  <2> QED
    BY <1>1, <2>1
<1>3. /\ \A i \in 1 .. Len(queue) - 1 : queue[i + 1] # queue[1]
      /\ status[queue[1]] = "PENDING" /\ sent[queue[1]] = 0
      /\ \A v \in Workers : held[v] # queue[1]
  <2>1. 1 \in DOMAIN queue /\ \A i \in 1 .. Len(queue) - 1 : i + 1 \in DOMAIN queue /\ i + 1 # 1
    BY <1>1
  <2> QED
    BY <2>1 DEF QueueDistinct, QueueWaits
<1>4. QueueDistinct'
  <2> SUFFICES ASSUME NEW i \in DOMAIN queue', NEW j \in DOMAIN queue', queue'[i] = queue'[j]
               PROVE  i = j
    BY DEF QueueDistinct
  <2>1. i + 1 \in DOMAIN queue /\ j + 1 \in DOMAIN queue /\ queue[i + 1] = queue[j + 1]
    BY <1>1
  <2> QED
    BY <1>1, <2>1 DEF QueueDistinct
<1>5. QueueWaits'
  BY <1>1, <1>2, <1>3 DEF QueueWaits
<1>6. WorkersApart'
  BY <1>2, <1>3 DEF WorkersApart
<1>7. WorkerKnows'
  BY <1>2, <1>3 DEF WorkerKnows
<1>8. StatusTells'
  <2> SUFFICES ASSUME NEW t \in Tasks
               PROVE  /\ status[t] = "RUNNING" => \E v \in Workers : held'[v] = t
                      /\ status[t] = "PENDING" /\ ~stop =>
                           \/ \E i \in DOMAIN queue' : queue'[i] = t
                           \/ \E v \in Workers : held'[v] = t
    BY <1>2 DEF StatusTells
  <2>1. ASSUME NEW v \in Workers, held[v] = t
        PROVE  held'[v] = t
    BY <1>2, <2>1
  <2>2. ASSUME NEW i \in DOMAIN queue, queue[i] = t
        PROVE  held'[w] = t \/ \E j \in DOMAIN queue' : queue'[j] = t
    <3>1. CASE i = 1
      BY <1>2, <2>2, <3>1
    <3>2. CASE i # 1
      <4>1. i - 1 \in DOMAIN queue' /\ queue'[i - 1] = t
        BY <1>1, <2>2, <3>2
      <4> QED
        BY <4>1
    <3> QED
      BY <3>1, <3>2
  <2> QED
    BY <2>1, <2>2 DEF StatusTells
<1>9. AnswerHolds' /\ SubjectKnown'
  BY <1>2 DEF AnswerHolds, SubjectKnown
<1> QED
  BY <1>4, <1>5, <1>6, <1>7, <1>8, <1>9

\* A worker goes on with the task it has: to RUNNING, to the node, to its outcome.
LEMMA WorkOnTask ==
  ASSUME TypeOK, TaskInv, NEW w \in Workers,
         Run(w) \/ Forward(w) \/ \E outcome \in Finished : NoteResult(w, outcome)
  PROVE  TaskInv'
<1> USE AsyncAssumption DEF TypeOK, TaskInv, MoveWorker
<1>1. /\ held[w] \in Tasks /\ queue' = queue /\ stop' = stop
      /\ UNCHANGED <<client, subject, answer>>
      /\ \A v \in Workers : v # w => held[v] # held[w]
      /\ \A i \in DOMAIN queue : queue[i] # held[w]
      /\ DOMAIN queue = 1 .. Len(queue) /\ \A i \in DOMAIN queue : queue[i] \in Tasks
  BY LenProperties, ElementOfSeq
     DEF Run, Forward, NoteResult, WorkerKnows, WorkersApart, QueueWaits
<1>2. CASE Run(w)
  <2>1. /\ worker[w] = "starting" /\ worker' = [worker EXCEPT ![w] = "sending"]
        /\ status' = [status EXCEPT ![held[w]] = "RUNNING"]
        /\ UNCHANGED <<held, result, sent>> /\ status[held[w]] = "PENDING" /\ sent[held[w]] = 0
    BY <1>2 DEF Run, WorkerKnows
  <2>2. QueueDistinct' /\ QueueWaits' /\ WorkersApart' /\ SubjectKnown'
    BY <1>1, <2>1 DEF QueueDistinct, QueueWaits, WorkersApart, SubjectKnown
  <2>3. WorkerKnows'
    BY <1>1, <2>1 DEF WorkerKnows
  <2>4. StatusTells'
    BY <1>1, <2>1 DEF StatusTells, Finished
  <2>5. AnswerHolds'
    BY <1>1, <2>1 DEF AnswerHolds, Rank, Finished, Statuses
  <2> QED
    BY <2>2, <2>3, <2>4, <2>5
<1>3. CASE Forward(w)
  <2>1. /\ worker[w] = "sending" /\ status[held[w]] = "RUNNING" /\ sent[held[w]] = 0
        /\ UNCHANGED <<held, status, result>>
    BY <1>3 DEF Forward, WorkerKnows
  <2>5. PICK to \in {"answered", "refused"}, times \in {0, 1} :
          /\ worker' = [worker EXCEPT ![w] = to]
          /\ sent' = [sent EXCEPT ![held[w]] = times]
          /\ to = "answered" => times = 1
    <3>1. sent = [sent EXCEPT ![held[w]] = 0]
      BY <1>1, <2>1
    <3>2. [sent EXCEPT ![held[w]] = @ + 1] = [sent EXCEPT ![held[w]] = 1]
      BY <1>1, <2>1
    <3>3. CASE worker' = [worker EXCEPT ![w] = "answered"]
      BY <1>3, <2>1, <3>1, <3>2, <3>3 DEF Forward
    <3>4. CASE worker' = [worker EXCEPT ![w] = "refused"]
      BY <1>3, <2>1, <3>1, <3>2, <3>4 DEF Forward
    <3> QED
      BY <1>3, <3>3, <3>4 DEF Forward
  <2>2. QueueDistinct' /\ QueueWaits' /\ WorkersApart' /\ SubjectKnown'
    BY <1>1, <2>1, <2>5 DEF QueueDistinct, QueueWaits, WorkersApart, SubjectKnown
  <2>3. WorkerKnows'
    BY <1>1, <2>1, <2>5 DEF WorkerKnows
  <2>4. StatusTells' /\ AnswerHolds'
    BY <1>1, <2>1, <2>5 DEF StatusTells, Finished, AnswerHolds
  <2> QED
    BY <2>2, <2>3, <2>4
<1>4. CASE \E outcome \in Finished : NoteResult(w, outcome)
  <2>1. PICK outcome \in Finished : NoteResult(w, outcome)
    BY <1>4
  <2>2. /\ worker[w] \in {"answered", "refused"} /\ worker' = [worker EXCEPT ![w] = "top"]
        /\ status' = [status EXCEPT ![held[w]] = outcome]
        /\ held' = [held EXCEPT ![w] = None] /\ sent' = sent
        /\ \A t \in Tasks : t # held[w] => result'[t] = result[t]
        /\ result'[held[w]] = "response" => worker[w] = "answered"
        /\ status[held[w]] = "RUNNING" /\ sent[held[w]] \in {0, 1}
        /\ worker[w] = "answered" => sent[held[w]] = 1
    BY <2>1 DEF NoteResult, WorkerKnows
  <2>3. QueueDistinct' /\ QueueWaits' /\ WorkersApart' /\ SubjectKnown'
    BY <1>1, <2>2 DEF QueueDistinct, QueueWaits, WorkersApart, SubjectKnown
  <2>4. WorkerKnows'
    BY <1>1, <2>2 DEF WorkerKnows
  <2>5. StatusTells'
    BY <1>1, <2>2 DEF StatusTells, Finished
  <2>6. AnswerHolds'
    BY <1>1, <2>2 DEF AnswerHolds, Rank, Finished, Statuses
  <2> QED
    BY <2>3, <2>4, <2>5, <2>6
<1> QED
  BY <1>2, <1>3, <1>4

LEMMA NextTask == TypeOK /\ TaskInv /\ [Next]_vars => TaskInv'
<1> SUFFICES ASSUME TypeOK, TaskInv, [Next]_vars PROVE TaskInv'
  OBVIOUS
<1> USE AsyncAssumption DEF TypeOK, TaskInv
<1>1. ASSUME NEW c \in Clients, NEW t \in Tasks, Enqueue(c, t)
      PROVE  TaskInv'
  BY <1>1, EnqueueTask
<1>2. ASSUME NEW w \in Workers, Take(w)
      PROVE  TaskInv'
  BY <1>2, TakeTask
<1>3. ASSUME NEW w \in Workers,
             Run(w) \/ Forward(w) \/ \E outcome \in Finished : NoteResult(w, outcome)
      PROVE  TaskInv'
  BY <1>3, WorkOnTask
<1>4. ASSUME NEW w \in Workers, Discard(w)
      PROVE  TaskInv'
  <2>1. /\ queue' = <<>> /\ stop /\ worker' = [worker EXCEPT ![w] = "done"]
        /\ worker[w] = "testing"
        /\ UNCHANGED <<held, status, result, sent, answer, stop, client, subject>>
    BY <1>4 DEF Discard, MoveWorker
  <2>2. QueueDistinct' /\ QueueWaits'
    BY <2>1 DEF QueueDistinct, QueueWaits
  <2> QED
    BY <2>1, <2>2 DEF WorkersApart, WorkerKnows, StatusTells, AnswerHolds, SubjectKnown
<1>5. ASSUME NEW c \in Clients, ReadStatus(c)
      PROVE  TaskInv'
  <2>1. /\ answer' = [answer EXCEPT ![subject[c]] = status[subject[c]]]
        /\ subject[c] \in Tasks
        /\ client' = [client EXCEPT ![c] = "idle"] /\ subject' = [subject EXCEPT ![c] = None]
        /\ UNCHANGED <<queue, held, worker, status, result, sent, stop>>
    BY <1>5 DEF ReadStatus, MoveClient, SubjectKnown
  <2>2. AnswerHolds'
    BY <2>1 DEF AnswerHolds, Rank, Statuses, Finished
  <2> QED
    BY <2>1, <2>2 DEF QueueDistinct, QueueWaits, WorkersApart, WorkerKnows, StatusTells, SubjectKnown
<1>6. ASSUME NEW w \in Workers,
             CheckStop(w) \/ Lock(w) \/ TestFails(w) \/ Block(w) \/ WakeSpuriously(w)
      PROVE  TaskInv'
  <2>1. /\ UNCHANGED <<queue, held, status, result, sent, answer, stop, client, subject>>
        /\ \E to \in {"done", "locking", "testing", "blocking", "waiting"} :
             worker' = [worker EXCEPT ![w] = to]
        /\ worker[w] \in {"top", "locking", "testing", "blocking", "waiting"}
    BY <1>6 DEF CheckStop, Lock, TestFails, Block, WakeSpuriously, MoveWorker
  <2> QED
    BY <2>1 DEF QueueDistinct, QueueWaits, WorkersApart, WorkerKnows, StatusTells,
                AnswerHolds, SubjectKnown
<1>7. ASSUME NEW c \in Clients, Notify(c)
      PROVE  TaskInv'
  <2>1. /\ UNCHANGED <<queue, held, status, result, sent, answer, stop>>
        /\ \/ UNCHANGED worker
           \/ \E w \in Workers : MoveWorker(w, "waiting", "locking")
        /\ client' = [client EXCEPT ![c] = "idle"] /\ subject' = [subject EXCEPT ![c] = None]
    BY <1>7 DEF Notify, MoveClient
  <2> QED
    BY <2>1 DEF QueueDistinct, QueueWaits, WorkersApart, WorkerKnows, StatusTells,
                AnswerHolds, SubjectKnown, MoveWorker
<1>8. CASE NotifyAll
  BY <1>8 DEF NotifyAll, QueueDistinct, QueueWaits, WorkersApart, WorkerKnows,
              StatusTells, AnswerHolds, SubjectKnown
<1>9. ASSUME NEW c \in Clients, NEW t \in Tasks, Lookup(c, t)
      PROVE  TaskInv'
  BY <1>9 DEF Lookup, MoveClient, QueueDistinct, QueueWaits, WorkersApart, WorkerKnows,
              StatusTells, AnswerHolds, SubjectKnown
<1>10. ASSUME NEW c \in Clients, InsertIntoMap(c)
       PROVE  TaskInv'
  BY <1>10 DEF InsertIntoMap, MoveClient, QueueDistinct, QueueWaits, WorkersApart,
               WorkerKnows, StatusTells, AnswerHolds, SubjectKnown
<1>11. ASSUME NEW t \in Tasks, Cleanup(t)
       PROVE  TaskInv'
  BY <1>11 DEF Cleanup, QueueDistinct, QueueWaits, WorkersApart, WorkerKnows,
               StatusTells, AnswerHolds, SubjectKnown
<1>12. CASE SetStop \/ Join \/ UNCHANGED vars
  BY <1>12 DEF SetStop, Join, vars, QueueDistinct, QueueWaits, WorkersApart, WorkerKnows,
               StatusTells, AnswerHolds, SubjectKnown
<1> QED
  BY <1>1, <1>2, <1>3, <1>4, <1>5, <1>6, <1>7, <1>8, <1>9, <1>10, <1>11, <1>12
     DEF Next, ClientStep, WorkerStep, DestroyerStep

-----------------------------------------------------------------------------
(* The theorems *)

LEMMA TaskCorrect == Spec => [](TypeOK /\ TaskInv)
<1>1. Init => TypeOK /\ TaskInv
  BY InitType, InitTask
<1>2. TypeOK /\ TaskInv /\ [Next]_vars => TypeOK' /\ TaskInv'
  BY NextType, NextTask
<1> QED
  BY <1>1, <1>2, PTL DEF Spec

\* Whatever the threads do, each variable keeps its type.
THEOREM TypeCorrect == Spec => []TypeOK
BY TaskCorrect, PTL

\* Places without two different elements can be counted.
LEMMA AtMostOne ==
  ASSUME NEW S, \A x, y \in S : x = y
  PROVE  Cardinality(S) \in {0, 1} /\ (Cardinality(S) = 1 <=> S # {})
<1>1. CASE S = {}
  BY <1>1, FS_EmptySet
<1>2. CASE S # {}
  <2>1. PICK x \in S : S = {x}
    BY <1>2
  <2> QED
    BY <1>2, <2>1, FS_Singleton
<1> QED
  BY <1>1, <1>2

\* Every task is in one place, the one its status tells, however many workers take
\* tasks and whenever they are woken.
THEOREM TaskHasOnePlace == Spec => []OnePlace
<1>1. ASSUME TypeOK, TaskInv
      PROVE  OnePlace
  <2> SUFFICES ASSUME NEW t \in Tasks
               PROVE  /\ InQueue(t) + Cardinality(HoldersOf(t)) <= 1
                      /\ InQueue(t) = 1 => status[t] = "PENDING"
                      /\ \A w \in HoldersOf(t) :
                           status[t] = IF worker[w] = "starting" THEN "PENDING" ELSE "RUNNING"
                      /\ status[t] = "RUNNING" => HoldersOf(t) # {}
                      /\ status[t] = "PENDING" /\ ~stop => InQueue(t) = 1 \/ HoldersOf(t) # {}
    BY DEF OnePlace
  <2> DEFINE Places == {i \in DOMAIN queue : queue[i] = t}
  <2>1. InQueue(t) \in {0, 1} /\ (InQueue(t) = 1 <=> Places # {})
    <3>1. \A i, j \in Places : i = j
      BY <1>1 DEF TaskInv, QueueDistinct
    <3> QED
      BY <3>1, AtMostOne DEF InQueue
  <2>2. /\ Cardinality(HoldersOf(t)) \in {0, 1}
        /\ Cardinality(HoldersOf(t)) = 1 <=> HoldersOf(t) # {}
    <3>1. \A v, w \in HoldersOf(t) : v = w
      BY <1>1, AsyncAssumption DEF TaskInv, WorkersApart, HoldersOf
    <3> HIDE DEF HoldersOf
    <3> QED
      BY <3>1, AtMostOne
  <2>3. Places = {} \/ HoldersOf(t) = {}
    BY <1>1 DEF TaskInv, QueueWaits, HoldersOf
  <2>4. Places # {} => status[t] = "PENDING"
    BY <1>1 DEF TaskInv, QueueWaits
  <2>5. \A w \in HoldersOf(t) :
          status[t] = IF worker[w] = "starting" THEN "PENDING" ELSE "RUNNING"
    BY <1>1, AsyncAssumption DEF TaskInv, WorkerKnows, HoldersOf
  <2>6. /\ status[t] = "RUNNING" => HoldersOf(t) # {}
        /\ status[t] = "PENDING" /\ ~stop => Places # {} \/ HoldersOf(t) # {}
    BY <1>1 DEF TaskInv, StatusTells, HoldersOf
  <2> QED
    BY <2>1, <2>2, <2>3, <2>4, <2>5, <2>6
<1> QED
  BY <1>1, TaskCorrect, PTL

\* A query is sent at most once, never before it is marked RUNNING, and it was sent
\* when a client reads a response to it.
THEOREM QuerySentOnce == Spec => []SentOnce
<1>1. ASSUME TypeOK, TaskInv
      PROVE  SentOnce
  <2> SUFFICES ASSUME NEW t \in Tasks
               PROVE  /\ sent[t] <= 1
                      /\ status[t] \in {"NONE", "PENDING"} => sent[t] = 0
                      /\ answer[t] = "COMPLETED" /\ result[t] = "response" => sent[t] = 1
    BY DEF SentOnce
  <2>1. CASE status[t] = "RUNNING"
    <3>1. PICK w \in Workers : held[w] = t
      BY <1>1, <2>1 DEF TaskInv, StatusTells
    <3>2. sent[t] \in {0, 1}
      BY <1>1, <3>1, AsyncAssumption DEF TypeOK, TaskInv, WorkerKnows
    <3> QED
      BY <1>1, <2>1, <3>2 DEF TaskInv, AnswerHolds, Finished
  <2>2. CASE status[t] # "RUNNING"
    <3>1. status[t] \in {"NONE", "PENDING"} \cup Finished
      BY <1>1, <2>2 DEF TypeOK, Statuses, Finished
    <3> QED
      BY <1>1, <3>1 DEF TaskInv, StatusTells, AnswerHolds, Finished
  <2> QED
    BY <2>1, <2>2
<1> QED
  BY <1>1, TaskCorrect, PTL

\* The answers a client reads only ever advance, and an outcome never changes.
THEOREM StatusOnlyAdvances == Spec => AnswersAdvance
<1> DEFINE Advance ==
      \A t \in Tasks :
        /\ Rank[answer[t]] <= Rank[answer'[t]]
        /\ answer[t] \in Finished => answer'[t] = answer[t]
<1>1. ASSUME TypeOK, TaskInv, [Next]_vars
      PROVE  [Advance]_vars
  <2>1. CASE UNCHANGED answer
    BY <1>1, <2>1 DEF TypeOK, Statuses, Rank
  <2>2. ASSUME NEW c \in Clients, ReadStatus(c)
        PROVE  Advance
    <3>1. subject[c] \in Tasks /\ answer' = [answer EXCEPT ![subject[c]] = status[subject[c]]]
      BY <1>1, <2>2, AsyncAssumption DEF TypeOK, TaskInv, SubjectKnown, ReadStatus, MoveClient
    <3> QED
      BY <1>1, <3>1 DEF TypeOK, TaskInv, AnswerHolds, Statuses, Rank
  <2>3. UNCHANGED answer \/ \E c \in Clients : ReadStatus(c)
    BY <1>1 DEF Next, vars, Enqueue, Lookup, ClientStep, InsertIntoMap, Notify, WorkerStep,
                CheckStop, Lock, TestFails, Block, WakeSpuriously, Take, Discard, Run, Forward,
                NoteResult, Cleanup, SetStop, DestroyerStep, NotifyAll, Join
  <2> QED
    BY <2>1, <2>2, <2>3
<1> QED
  BY <1>1, TaskCorrect, PTL DEF Spec, AnswersAdvance

=============================================================================
