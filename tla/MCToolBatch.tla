----------------------------- MODULE MCToolBatch -----------------------------
(***************************************************************************)
(* TLC instances of ToolBatch: a file of the commit with two regions, and  *)
(* a file that is not there yet.                                           *)
(***************************************************************************)
EXTENDS ToolBatch

CONSTANTS committed, fresh, top, end

BothFiles   == {committed, fresh}
FirstFile   == {committed}
BothRegions == {top, end}

Call(op, file, region) == [op |-> op, file |-> file, at |-> region]

OnF == {Call(op, committed, top) : op \in Ops \ {"edit"}}
       \cup {Call("edit", committed, top), Call("edit", committed, end)}
OnG == {Call(op, fresh, top) : op \in {"edit", "write", "bash"}}

Lists(n, S) == UNION {[1 .. k -> S] : k \in 1 .. n}

UpToThree == Lists(3, OnF \cup OnG)
===============================================================================
