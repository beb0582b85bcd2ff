---------------------------- MODULE LedgerStore ----------------------------
(***************************************************************************)
(* What the engine_call ledger promises its readers (ADR 0003): a number   *)
(* cited by id can be looked up again later and is still the same number.  *)
(* A store of rows, each written once, that grows by whole transactions    *)
(* and is never rewritten.  EngineLedger implements it, and so do the      *)
(* calls that the tasks and chat turns of Briefings share.                 *)
(***************************************************************************)
CONSTANTS CallIds, Rows, NoRow

VARIABLE store

Stores == [CallIds -> Rows \cup {NoRow}]

Init == store = [id \in CallIds |-> NoRow]

\* A transaction publishes rows for ids that had none, all at once.
Publish ==
  /\ store' \in Stores
  /\ \A id \in CallIds : store[id] # NoRow => store'[id] = store[id]

Spec == Init /\ [][Publish]_store
=============================================================================
