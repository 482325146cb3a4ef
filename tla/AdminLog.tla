------------------------------- MODULE AdminLog ------------------------------
(***************************************************************************)
(* What the admin write path promises: the company's snapshot is a         *)
(* register that is created once and then changes only by whole batches,   *)
(* each accepted against the very snapshot it replaces, and no request     *)
(* changes it twice.                                                       *)
(***************************************************************************)
EXTENDS Naturals

CONSTANTS
  Requests, InitialDocs, NoRow, Command,
  DocValid(_),            \* may a company be created with this content
  Accepts(_, _),          \* may this command be applied to this snapshot
  ApplyAdminBatch(_, _)   \* the snapshot it is replaced with

VARIABLES
  register,         \* the stored snapshot, or NoRow
  committed         \* the requests whose batch has been applied

vars == <<register, committed>>

Init ==
  /\ register = NoRow
  /\ committed = {}

Create(doc) ==
  /\ register = NoRow
  /\ DocValid(doc)
  /\ register' = [revision |-> 0, doc |-> doc, trail |-> <<>>]
  /\ UNCHANGED committed

Commit(q, command) ==
  /\ q \notin committed
  /\ committed' = committed \cup {q}
  /\ register # NoRow
  /\ Accepts(register, command)
  /\ register' = ApplyAdminBatch(register, command)

Next ==
  \/ \E doc \in InitialDocs : Create(doc)
  \/ \E q \in Requests, command \in Command : Commit(q, command)

Spec == Init /\ [][Next]_vars
=============================================================================
