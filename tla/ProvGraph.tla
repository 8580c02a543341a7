------------------------------- MODULE ProvGraph -------------------------------
(***************************************************************************)
(* What the provenance hooks promise the log, abstractly (spec.md 3, 4.4): *)
(* the recorded graph over node identities.                                *)
(*                                                                         *)
(*  - a record handed to the sink is never changed: the log only grows;    *)
(*  - an edge joins agents that always have a node (here, executables'     *)
(*    inodes) or node identities that are live when it is recorded;        *)
(*  - a node identity is assigned once: a node that appears in a step      *)
(*    carries an identity never given out before, or one a node in use     *)
(*    already carries (a copy, as cred_transfer makes).                    *)
(*                                                                         *)
(* One step is one hook: it may give out identities, retire them and       *)
(* record any number of edges.                                             *)
(***************************************************************************)
EXTENDS Naturals, Sequences

CONSTANTS
    Agents,  \* endpoints that are never allocated or freed
    Handles  \* node identities

VARIABLES
    live,    \* identities carried by a node in use
    issued,  \* identities given out so far
    log      \* the edges, in the order they were recorded

gvars == <<live, issued, log>>

\* the edges a step appends
NewEdges == {log'[k] : k \in (Len(log) + 1)..Len(log')}

Init ==
    /\ live \subseteq Handles
    /\ issued = live
    /\ log = <<>>

\* one hook: identities are given out and retired, edges appended
Hook ==
    /\ live' \subseteq Handles
    /\ (live' \ live) \cap issued = {}
    /\ issued' = issued \cup live'
    /\ Len(log') >= Len(log)
    /\ SubSeq(log', 1, Len(log)) = log
    /\ \A e \in NewEdges : {e.from, e.to} \subseteq Agents \cup live \cup live'

Spec == Init /\ [][Hook]_gvars
================================================================================
