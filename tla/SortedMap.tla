------------------------------ MODULE SortedMap -----------------------------
(***************************************************************************)
(* What a container of the page file has to be: a partial function from    *)
(* keys to values, and what each call makes of it.  The tree of Index.h is *)
(* shown to implement it (see BPlusTree).                                  *)
(***************************************************************************)
EXTENDS Functions

CONSTANTS Keys, Values

VARIABLES
  call,  \* the last call: its name and its arguments
  map

vars == <<call, map>>

Init == call = <<"none">> /\ map = [k \in {} |-> k]

With(k, v) == [j \in DOMAIN map \cup {k} |-> IF j = k THEN v ELSE map[j]]

\* A key that is there keeps its value.
Insert(k, v) ==
  call' = <<"insert", k, v>> /\ map' = IF k \in DOMAIN map THEN map ELSE With(k, v)

Assign(k, v) == call' = <<"assign", k, v>> /\ map' = With(k, v)

Erase(k) == call' = <<"erase", k>> /\ map' = Restrict(map, DOMAIN map \ {k})

Clear == call' = <<"clear">> /\ map' = [k \in {} |-> k]

\* Saved and read back.
Reload == call' = <<"reload">> /\ map' = map

Next ==
  \/ \E k \in Keys, v \in Values : Insert(k, v) \/ Assign(k, v)
  \/ \E k \in Keys : Erase(k)
  \/ Clear
  \/ Reload

Spec == Init /\ [][Next]_vars

=============================================================================
