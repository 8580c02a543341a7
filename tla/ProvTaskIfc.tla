------------------------------ MODULE ProvTaskIfc ------------------------------
(***************************************************************************)
(* The credential provenance hooks (ProvTask) composed with the /ifc/self   *)
(* control file of security/ifc/fs.c.                                      *)
(*                                                                         *)
(* ifc_write_self changes the ifc_context of current_ifc(), the credential *)
(* the caller runs with, in place and without preparing a new credential, *)
(* so no provenance hook runs.  provenance_cred_prepare reads the label of *)
(* the new credential's context once, when it sets the node's tracked     *)
(* flag.  What a write does to ifc_is_labelled of that context is the only *)
(* part of the IFC state the provenance hooks read, so a write is modelled *)
(* by its effect on clab: an add makes the context labelled (or fails and  *)
(* leaves it), a remove may leave it unlabelled.                           *)
(***************************************************************************)
EXTENDS ProvTask

\* ifc_write_self by task t (IfcFs!WriteSelf): the context of cur[t] is
\* labelled afterwards exactly when b holds
WriteSelf(t, b) ==
    /\ Busy /\ t \in alive
    /\ clab' = [clab EXCEPT ![cur[t]] = b]
    /\ calls' = calls + 1
    /\ UNCHANGED <<alive, cur, credLive, pending, prov, nodes, nextId, mstate,
                   slive, olab, log, faults>>

NextIfc == Next \/ \E t \in Tasks, b \in BOOLEAN : WriteSelf(t, b)

SpecIfc == Init /\ [][NextIfc]_vars
================================================================================
