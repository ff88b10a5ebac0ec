----------------------------- MODULE MCDbThread -----------------------------
(* A thread with a cache of one row, for a row whose ticker works and one    *)
(* whose ticker does not; the rows are both there at the start, or neither.  *)
EXTENDS DbThread

MCTables == {[r \in Rows |-> v] : v \in {0, 1}}

Request(op, r, v) == [op |-> op, row |-> r, val |-> v]
MCRequests ==
  {Request("update", r, 2) : r \in Rows} \cup {Request("insert", r, 1) : r \in Rows}
    \cup {Request(op, 1, 1) : op \in {"select", "delete", "call", "query", "nop", "flush"}}
=============================================================================
