------------------------------ MODULE MCTable ------------------------------
(* Finite instances of Table: one column without an index for the runs   *)
(* about REVERT and crashes, an INDEXED and a plain column for the runs     *)
(* about the unique indexes.                                                *)
EXTENDS Table

CONSTANTS a, b, n   \* columns' values: two plain values and NULL

PlainColumns    == {"v"}
PlainConstraint == [c \in PlainColumns |-> "NOT_NULL"]
PlainDomain     == [c \in PlainColumns |-> {a, b}]
PlainDefault    == [c \in PlainColumns |-> n]
AllPlainRows    == [PlainColumns -> {a, b, n}]
PlainConditions == {AllPlainRows, {r \in AllPlainRows : r["v"] = a}}
PlainAssignments == {[c \in {"v"} |-> b]}

KeyedColumns     == {"k", "v"}
KeyedConstraint  == [k |-> "INDEXED", v |-> "NOT_NULL"]
KeyedDomain      == [k |-> {a, b}, v |-> {a}]
KeyedDefault     == [k |-> n, v |-> a]
AllKeyedRows     == [KeyedColumns -> {a, b, n}]
KeyedConditions  == {AllKeyedRows, {r \in AllKeyedRows : r["k"] = a}}
KeyedAssignments == {[c \in {"k"} |-> a], [c \in {"k"} |-> b],
                     [c \in {"k", "v"} |-> IF c = "k" THEN b ELSE n]}
=============================================================================
