-------------------------- MODULE AdmittedRegister --------------------------
(***************************************************************************)
(* What the admitted state promises its only client, the pass of the       *)
(* publisher that holds the lease: one register.  A load returns the       *)
(* stored document, a store replaces it at once, and the store of a pass   *)
(* that ended without learning its outcome takes effect as a whole or not  *)
(* at all, before the next load.  There are no slots, shards or calls.     *)
(***************************************************************************)

CONSTANTS Values,   \* the documents
          None      \* nothing was ever stored

VARIABLES value,    \* the stored document
          view,     \* what the pass loaded or stored last: {} or {document}
          pending   \* a store nobody knows the outcome of: {} or {document}

vars == <<value, view, pending>>

Init ==
    /\ value = None
    /\ view = {}
    /\ pending = {}

\* load_admitted_state returns.
Load ==
    /\ view = {}
    /\ pending = {}
    /\ view' = {value}
    /\ UNCHANGED <<value, pending>>

\* store_admitted_state takes effect, replacing the document the pass had seen.
Store(v) ==
    /\ view = {value}
    /\ pending = {}
    /\ value' = v
    /\ view' = {v}
    /\ UNCHANGED pending

\* The pass ends, possibly in the middle of a store.
End ==
    /\ view # {}
    /\ view' = {}
    /\ pending' \in {{}} \cup {{v} : v \in Values}
    /\ UNCHANGED value

\* The store left behind is applied, or it is lost.
Settle ==
    /\ view = {}
    /\ value' \in {value} \cup pending
    /\ pending' = {}
    /\ UNCHANGED view

Next == Load \/ (\E v \in Values : Store(v)) \/ End \/ Settle

Spec == Init /\ [][Next]_vars
=============================================================================
