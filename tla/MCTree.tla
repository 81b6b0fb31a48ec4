------------------------------- MODULE MCTree -------------------------------
(***************************************************************************)
(* A workload for the tree: it is filled in one of several orders, then    *)
(* entries are erased around a starting point, and what is missing is put  *)
(* in again.  Before each part the tree may be saved and read back.        *)
(***************************************************************************)
EXTENDS BPlusTree

CONSTANTS
  v, w,
  N,       \* the number of keys
  Stride,  \* the distance of keys in the scattered order, prime to N
  Starts,  \* where the later parts begin
  Turns    \* how many parts may follow the first

VARIABLES
  part,    \* what is being done: "insert", "assign", "store" or "erase"
  todo,    \* the keys it is still to be done to
  turns    \* the parts begun since the first

mcVars == <<vars, part, todo, turns>>

AllKeys == 1 .. N

Around(s, step, n) == [i \in 1 .. n |-> ((s + step * (i - 1)) % N) + 1]
Steps == {1, N - 1, Stride}

MCInit ==
  /\ Init
  /\ part = "insert" /\ turns = 0
  /\ todo \in {Around(0, step, N) : step \in Steps}

MCStep ==
  /\ todo # <<>>
  /\ LET k == Head(todo) IN
       \/ part = "insert" /\ Emplace(k, v)
       \/ part = "assign" /\ InsertOrAssign(k, w)
       \/ part = "store"  /\ Store(k, w)
       \/ part = "erase"  /\ EraseKey(k)
  /\ todo' = Tail(todo)
  /\ UNCHANGED <<part, turns>>

MCTurn ==
  /\ todo = <<>> /\ turns < Turns
  /\ turns' = turns + 1
  /\ \/ /\ part' = "erase" /\ part # "erase"
        /\ \E s \in Starts, step \in Steps, n \in {N, N \div 2} :
             todo' = Around(s, step, n)
     \/ /\ part' \in {"insert", "assign", "store"} /\ part = "erase"
        /\ \E s \in Starts : todo' = Around(s, Stride, N)
  /\ Reload \/ UNCHANGED vars

MCEnd == todo = <<>> /\ turns = Turns /\ Clear /\ UNCHANGED <<part, todo, turns>>

MCSpec == MCInit /\ [][MCStep \/ MCTurn \/ MCEnd]_mcVars

=============================================================================
