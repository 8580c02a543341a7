------------------------------- MODULE ProvTask -------------------------------
(***************************************************************************)
(* Provenance of tasks and System V IPC, security/provenance/hooks.c: the  *)
(* credential hooks (cred_init_provenance, cred_alloc_blank, cred_free,    *)
(* cred_prepare, cred_transfer, task_fix_setuid), the exec hooks           *)
(* (bprm_set_creds, bprm_committing_creds), and the msg_msg and shm hooks. *)
(*                                                                         *)
(* A credential is private to the task preparing it until it is committed, *)
(* and a message or segment is handled under the IPC locks, so each hook   *)
(* is one step.  The host's use of the hooks is modelled as the system     *)
(* calls that drive them: fork, setuid, execve, keyctl(SESSION_TO_PARENT), *)
(* exit, msgsnd/msgrcv, shmget/shmat.  An allocation that fails makes the  *)
(* host abort the operation, which changes nothing.  A credential dropped  *)
(* at commit may stay referenced (by an open file's f_cred) and be freed   *)
(* later.  alloc_provenance, ASSIGN_NODE_ID, record_edge and the IFC label *)
(* of an object are outside src/ and modelled from the spec.               *)
(***************************************************************************)
EXTENDS Naturals, Sequences, FiniteSets

CONSTANTS
    Tasks,        \* tasks
    InitTask,     \* the init task, whose credential cred_init_provenance sets up
    Creds,        \* struct cred objects
    Msgs,         \* struct msg_msg objects
    Shms,         \* shared memory segments
    NodeSlots,    \* objects of provenance_cache
    Files,        \* executables; a file's inode node is named by the file
    MissingFiles, \* executables whose inode carries no node
    IfcStates,    \* what msg->ifc / shm_perm.ifc can be at allocation
    MaxCalls,     \* bound on system calls and hook calls
    NULL

ASSUME /\ InitTask \in Tasks
       /\ MissingFiles \subseteq Files
       /\ IfcStates \subseteq {"none", "plain", "labelled"}
       /\ MaxCalls \in Nat

\* the credential of the init task and the id cred_init_provenance gives it
InitCred == CHOOSE c \in Creds : TRUE
InitSlot == CHOOSE n \in NodeSlots : TRUE
InitId == 1

Node(id, tracked) == [used |-> TRUE, id |-> id, tracked |-> tracked]
NoNode == [used |-> FALSE, id |-> 0, tracked |-> FALSE]
EdgeTypes == {"fork", "change", "create", "write", "read", "attach"}
Edge(ty, from, to) == [type |-> ty, from |-> from, to |-> to]

VARIABLES
    alive,    \* tasks that exist
    cur,      \* cur[t]: the credential task t runs with
    clab,     \* clab[c]: the IFC context of credential c is labelled
    credLive, \* credentials with a reference
    pending,  \* pending[p]: blank credential keyctl queued on parent p, or NULL
    prov,     \* prov[o]: the node of credential, message or segment o, or NULL
    nodes,    \* nodes[n]: the prov_msg_t in slot n (a freed slot keeps its id)
    nextId,   \* next ASSIGN_NODE_ID
    mstate,   \* mstate[m]: "none", "queued" or "received"
    slive,    \* segments that exist
    olab,     \* olab[o]: the IFC state of message or segment o when allocated
    log,      \* edges handed to the sink, endpoints by node id
    faults,   \* NULL dereferences that oops the kernel
    calls

vars == <<alive, cur, clab, credLive, pending, prov, nodes, nextId, mstate,
          slive, olab, log, faults, calls>>

Objs == Creds \cup Msgs \cup Shms

-----------------------------------------------------------------------------
(* alloc_provenance with ASSIGN_NODE_ID, from the spec.                    *)

FreeNodeSlots == {n \in NodeSlots : ~nodes[n].used}

\* id of the node of object o
IdOf(o) == nodes[prov[o]].id

\* the inode node of an executable (inode_get_provenance), NULL if missing
FileNode(f) == IF f \in MissingFiles THEN NULL ELSE f

\* the object alloc_provenance returns; which free one it is does not matter
NewSlot == CHOOSE n \in FreeNodeSlots : TRUE
CanAlloc == FreeNodeSlots # {}

\* the node of a new object in slot n with the next id
NewNode(n, tracked) == [nodes EXCEPT ![n] = Node(nextId, tracked)]

\* commit_creds, then put_cred of the old credential: provenance_cred_free
\* releases its node and clears the pointer, unless the credential is still
\* referenced (keep) and is freed later by Release
NodesAfterCommit(ns, old, keep) ==
    IF keep THEN ns ELSE [ns EXCEPT ![prov[old]].used = FALSE]
ProvAfterCommit(ps, old, keep) == IF keep THEN ps ELSE [ps EXCEPT ![old] = NULL]
LiveAfterCommit(new, old, keep) ==
    (credLive \cup {new}) \ (IF keep THEN {} ELSE {old})

Init ==
    /\ alive = {InitTask}
    /\ cur = [t \in Tasks |-> IF t = InitTask THEN InitCred ELSE NULL]
    /\ clab = [c \in Creds |-> FALSE]   \* the init task starts unlabelled
    /\ credLive = {InitCred}
    /\ pending = [t \in Tasks |-> NULL]
    /\ prov = [o \in Objs |-> IF o = InitCred THEN InitSlot ELSE NULL]
    /\ nodes = [n \in NodeSlots |->
                  IF n = InitSlot THEN Node(InitId, FALSE) ELSE NoNode]
    /\ nextId = InitId + 1
    /\ mstate = [m \in Msgs |-> "none"]
    /\ slive = {}
    /\ olab = [o \in Msgs \cup Shms |-> "plain"]
    /\ log = <<>>
    /\ faults = {}
    /\ calls = 0

FreeCreds == Creds \ credLive
\* the struct cred the host allocates, and the task a fork creates
NewCred == CHOOSE c \in FreeCreds : TRUE
NewTask == CHOOSE u \in Tasks \ alive : TRUE
Busy == calls < MaxCalls

-----------------------------------------------------------------------------
(* Credentials.  provenance_cred_prepare(new, old) allocates a node with a *)
(* fresh id, tracked when the copied IFC context is labelled, and records  *)
(* ED_FORK old->new; it is the first hook of fork, setuid and execve.      *)

\* fork: prepare_creds for child u
Clone(t) ==
    LET u == NewTask
        c == NewCred
        n == NewSlot
    IN
    /\ Busy /\ t \in alive /\ alive # Tasks /\ FreeCreds # {} /\ CanAlloc
    /\ nodes' = NewNode(n, clab[cur[t]])
    /\ prov' = [prov EXCEPT ![c] = n]
    /\ clab' = [clab EXCEPT ![c] = clab[cur[t]]]
    /\ log' = log \o <<Edge("fork", IdOf(cur[t]), nextId)>>
    /\ nextId' = nextId + 1
    /\ alive' = alive \cup {u}
    /\ cur' = [cur EXCEPT ![u] = c]
    /\ credLive' = credLive \cup {c}
    /\ calls' = calls + 1
    /\ UNCHANGED <<pending, mstate, slive, olab, faults>>

\* prepare_creds (provenance_cred_prepare into a new credential), the
\* hooks that record es, then commit_creds for task t
PrepareCommit(t, keep, es) ==
    LET old == cur[t]
        c == NewCred
        n == NewSlot
    IN
    /\ Busy /\ t \in alive /\ FreeCreds # {} /\ CanAlloc
    /\ nodes' = NodesAfterCommit(NewNode(n, clab[old]), old, keep)
    /\ prov' = ProvAfterCommit([prov EXCEPT ![c] = n], old, keep)
    /\ clab' = [clab EXCEPT ![c] = clab[old]]
    /\ log' = log \o <<Edge("fork", IdOf(old), nextId)>> \o es
    /\ nextId' = nextId + 1
    /\ cur' = [cur EXCEPT ![t] = c]
    /\ credLive' = LiveAfterCommit(c, old, keep)
    /\ calls' = calls + 1
    /\ UNCHANGED <<alive, pending, mstate, slive, olab, faults>>

\* setuid: provenance_task_fix_setuid records ED_CHANGE old->new
Setuid(t, keep) ==
    PrepareCommit(t, keep, <<Edge("change", IdOf(cur[t]), nextId)>>)

\* execve of f: provenance_bprm_set_creds finds the prepared node and does
\* nothing; provenance_bprm_committing_creds, before the commit, records
\* ED_CREATE old->new and ED_CREATE file->new with the file's inode node
Exec(t, f, keep) ==
    PrepareCommit(t, keep, <<Edge("create", IdOf(cur[t]), nextId),
                             Edge("create", FileNode(f), nextId)>>)

\* keyctl(KEYCTL_SESSION_TO_PARENT) by t for its parent p: a blank
\* credential, which waits for p to return to user space; ok: whether
\* provenance_cred_alloc_blank has attached a node
Blank(t, p, ok) ==
    LET c == NewCred
        n == NewSlot
    IN
    /\ Busy /\ {t, p} \subseteq alive /\ t # p /\ pending[p] = NULL
    /\ FreeCreds # {}
    /\ IF ok THEN /\ CanAlloc
                  /\ nodes' = NewNode(n, FALSE)
                  /\ prov' = [prov EXCEPT ![c] = n]
             ELSE UNCHANGED <<nodes, prov>>
    /\ clab' = [clab EXCEPT ![c] = FALSE]
    /\ nextId' = nextId + 1
    /\ credLive' = credLive \cup {c}
    /\ pending' = [pending EXCEPT ![p] = c]
    /\ calls' = calls + 1
    /\ UNCHANGED <<alive, cur, mstate, slive, olab, log, faults>>

\* mutant: a failed cred_alloc_blank is reported as success
KeyctlIgnoreENOMEM(t, p) == Blank(t, p, TRUE) \/ (~CanAlloc /\ Blank(t, p, FALSE))

\* mutant: cred_alloc_blank without set_node_id, the node keeps the zeroed id
KeyctlNoNodeId(t, p) ==
    LET c == NewCred
        n == NewSlot
    IN
    /\ Busy /\ {t, p} \subseteq alive /\ t # p /\ pending[p] = NULL
    /\ FreeCreds # {} /\ CanAlloc
    /\ nodes' = [nodes EXCEPT ![n] = Node(0, FALSE)]
    /\ prov' = [prov EXCEPT ![c] = n]
    /\ clab' = [clab EXCEPT ![c] = FALSE]
    /\ credLive' = credLive \cup {c}
    /\ pending' = [pending EXCEPT ![p] = c]
    /\ calls' = calls + 1
    /\ UNCHANGED <<alive, cur, mstate, slive, olab, log, faults, nextId>>

\* provenance_cred_alloc_blank: a node with a fresh id and no edge;
\* -ENOMEM fails the keyctl
KeyctlToParent(t, p) == Blank(t, p, TRUE)

\* key_change_session_keyring in p with the transferred node and pointers:
\* the IFC context is copied and the blank credential is committed
Join(p, keep, ns, ps) ==
    LET new == pending[p]
        old == cur[p]
    IN
    /\ nodes' = NodesAfterCommit(ns, old, keep)
    /\ prov' = ProvAfterCommit(ps, old, keep)
    /\ clab' = [clab EXCEPT ![new] = clab[old]]
    /\ cur' = [cur EXCEPT ![p] = new]
    /\ credLive' = LiveAfterCommit(new, old, keep)
    /\ pending' = [pending EXCEPT ![p] = NULL]
    /\ calls' = calls + 1
    /\ UNCHANGED <<alive, nextId, mstate, slive, olab, log, faults>>

Joinable(p) == Busy /\ p \in alive /\ pending[p] # NULL

\* mutant: the transfer copies the node but keeps the blank node's id
JoinSessionKeepId(p, keep) ==
    /\ Joinable(p) /\ prov[pending[p]] # NULL
    /\ Join(p, keep, [nodes EXCEPT ![prov[pending[p]]].tracked =
                                    nodes[prov[cur[p]]].tracked], prov)

\* provenance_cred_transfer: *prov = *old_prov copies the whole node of
\* the current credential, id included, over the blank one's; a NULL prov
\* is dereferenced
JoinSession(p, keep) ==
    /\ Joinable(p)
    /\ IF prov[pending[p]] = NULL
       THEN /\ faults' = faults \cup {"transfer_null"}
            /\ pending' = [pending EXCEPT ![p] = NULL]
            /\ calls' = calls + 1
            /\ UNCHANGED <<alive, cur, clab, credLive, prov, nodes, nextId,
                           mstate, slive, olab, log>>
       ELSE Join(p, keep, [nodes EXCEPT ![prov[pending[p]]] = nodes[prov[cur[p]]]],
                 prov)

\* exit of t: its credential is put (freed now unless still referenced)
Exit(t, keep) ==
    /\ Busy /\ t \in alive /\ t # InitTask /\ pending[t] = NULL
    /\ nodes' = NodesAfterCommit(nodes, cur[t], keep)
    /\ prov' = ProvAfterCommit(prov, cur[t], keep)
    /\ credLive' = IF keep THEN credLive ELSE credLive \ {cur[t]}
    /\ alive' = alive \ {t}
    /\ cur' = [cur EXCEPT ![t] = NULL]
    /\ calls' = calls + 1
    /\ UNCHANGED <<clab, pending, nextId, mstate, slive, olab, log, faults>>

\* the last reference to credential c goes: provenance_cred_free
Release(c) ==
    /\ Busy /\ c \in credLive
    /\ \A t \in alive : cur[t] # c /\ pending[t] # c
    /\ nodes' = IF prov[c] = NULL THEN nodes
                ELSE [nodes EXCEPT ![prov[c]].used = FALSE]
    /\ prov' = [prov EXCEPT ![c] = NULL]
    /\ credLive' = credLive \ {c}
    /\ calls' = calls + 1
    /\ UNCHANGED <<alive, cur, clab, pending, nextId, mstate, slive, olab, log, faults>>

-----------------------------------------------------------------------------
(* Messages and shared memory.  The IFC test at allocation reads          *)
(* if(!ifc){ if(ifc_is_labelled(&ifc->context)) ... }: with no context it *)
(* dereferences NULL, with one it never marks the node tracked.            *)

\* the allocation hook of message or segment o by t, with its IFC state l;
\* es: the edges recorded once the node is attached
AllocIpc(t, o, l, es) ==
    LET n == NewSlot IN
    /\ IF l = "none"
       THEN /\ faults' = faults \cup {"ipc_ifc_null"}
            /\ UNCHANGED <<prov, nodes, olab, nextId, log>>
       ELSE /\ nodes' = NewNode(n, FALSE)
            /\ prov' = [prov EXCEPT ![o] = n]
            /\ olab' = [olab EXCEPT ![o] = l]
            /\ nextId' = nextId + 1
            /\ log' = log \o es
            /\ UNCHANGED faults

\* msgsnd: load_msg calls provenance_msg_msg_alloc_security (ED_CREATE
\* task->msg), then provenance_msg_queue_msgsnd (ED_WRITE task->msg) and
\* the message is queued
MsgSnd(t, m, l) ==
    /\ Busy /\ t \in alive /\ mstate[m] = "none" /\ CanAlloc /\ l \in IfcStates
    /\ AllocIpc(t, m, l, <<Edge("create", IdOf(cur[t]), nextId),
                              Edge("write", IdOf(cur[t]), nextId)>>)
    /\ mstate' = [mstate EXCEPT ![m] = IF l = "none" THEN "none" ELSE "queued"]
    /\ calls' = calls + 1
    /\ UNCHANGED <<alive, cur, clab, credLive, pending, slive>>

\* msgrcv by (or pipelined to) target t: provenance_msg_queue_msgrcv
\* records ED_READ msg->target with the target's credential
MsgRcv(t, m) ==
    /\ Busy /\ t \in alive /\ mstate[m] = "queued"
    /\ log' = log \o <<Edge("read", IdOf(m), IdOf(cur[t]))>>
    /\ mstate' = [mstate EXCEPT ![m] = "received"]
    /\ calls' = calls + 1
    /\ UNCHANGED <<alive, cur, clab, credLive, pending, prov, nodes, nextId,
                   slive, olab, faults>>

\* mutant: the message's node is freed but msg->provenance is kept
MsgFreeKeepsPointer(m) ==
    /\ Busy /\ mstate[m] = "received"
    /\ nodes' = [nodes EXCEPT ![prov[m]].used = FALSE]
    /\ mstate' = [mstate EXCEPT ![m] = "none"]
    /\ calls' = calls + 1
    /\ UNCHANGED <<alive, cur, clab, credLive, pending, prov, nextId, slive,
                   olab, log, faults>>

\* free_msg after the copy to user space: provenance_msg_msg_free_security
MsgFree(m) ==
    /\ Busy /\ mstate[m] = "received"
    /\ prov' = [prov EXCEPT ![m] = NULL]
    /\ nodes' = [nodes EXCEPT ![prov[m]].used = FALSE]
    /\ mstate' = [mstate EXCEPT ![m] = "none"]
    /\ calls' = calls + 1
    /\ UNCHANGED <<alive, cur, clab, credLive, pending, nextId, slive, olab,
                   log, faults>>

\* shmget: provenance_shm_alloc_security, ED_ATTACH both ways
ShmGet(t, s, l) ==
    /\ Busy /\ t \in alive /\ s \notin slive /\ CanAlloc /\ l \in IfcStates
    /\ AllocIpc(t, s, l, <<Edge("attach", nextId, IdOf(cur[t])),
                              Edge("attach", IdOf(cur[t]), nextId)>>)
    /\ slive' = IF l = "none" THEN slive ELSE slive \cup {s}
    /\ calls' = calls + 1
    /\ UNCHANGED <<alive, cur, clab, credLive, pending, mstate>>

\* shmat: provenance_shm_shmat; no node makes it fail with -ENOMEM
ShmAt(t, s, rdonly) ==
    /\ Busy /\ t \in alive /\ s \in slive
    /\ log' = IF prov[s] = NULL THEN log
              ELSE log \o (<<Edge("attach", IdOf(s), IdOf(cur[t]))>> \o
                           IF rdonly THEN <<>> ELSE <<Edge("attach", IdOf(cur[t]), IdOf(s))>>)
    /\ calls' = calls + 1
    /\ UNCHANGED <<alive, cur, clab, credLive, pending, prov, nodes, nextId,
                   mstate, slive, olab, faults>>

\* the segment is destroyed: provenance_shm_free_security
ShmFree(s) ==
    /\ Busy /\ s \in slive
    /\ nodes' = [nodes EXCEPT ![prov[s]].used = FALSE]
    /\ prov' = [prov EXCEPT ![s] = NULL]
    /\ slive' = slive \ {s}
    /\ calls' = calls + 1
    /\ UNCHANGED <<alive, cur, clab, credLive, pending, nextId, mstate, olab,
                   log, faults>>

\* The bound on calls is reached.
Finished == calls = MaxCalls /\ UNCHANGED vars

Next ==
    \/ \E t \in Tasks :
          \/ Clone(t)
          \/ \E p \in Tasks : KeyctlToParent(t, p)
          \/ \E keep \in BOOLEAN :
                \/ Setuid(t, keep) \/ JoinSession(t, keep) \/ Exit(t, keep)
                \/ \E f \in Files : Exec(t, f, keep)
          \/ \E l \in IfcStates :
                (\E m \in Msgs : MsgSnd(t, m, l)) \/ (\E s \in Shms : ShmGet(t, s, l))
          \/ \E m \in Msgs : MsgRcv(t, m)
          \/ \E s \in Shms, r \in BOOLEAN : ShmAt(t, s, r)
    \/ \E c \in Creds : Release(c)
    \/ \E m \in Msgs : MsgFree(m)
    \/ \E s \in Shms : ShmFree(s)
    \/ Finished

Spec == Init /\ [][Next]_vars

-----------------------------------------------------------------------------
UsedSlots == {n \in NodeSlots : nodes[n].used}
Endpoint == Nat \cup Files \cup {NULL}

TypeOK ==
    /\ alive \subseteq Tasks /\ InitTask \in alive
    /\ cur \in [Tasks -> Creds \cup {NULL}]
    /\ credLive \subseteq Creds
    /\ pending \in [Tasks -> Creds \cup {NULL}]
    /\ nodes \in [NodeSlots -> [used : BOOLEAN, id : Nat, tracked : BOOLEAN]]
    /\ log \in Seq([type : EdgeTypes, from : Endpoint, to : Endpoint])
    /\ mstate \in [Msgs -> {"none", "queued", "received"}]
    /\ calls \in 0..MaxCalls
    \* an object's node pointer is NULL or points at a node in use
    /\ \A o \in Objs : prov[o] \in NodeSlots \cup {NULL}
    /\ \A o \in Objs : prov[o] # NULL => nodes[prov[o]].used

\* Every credential in use carries a node (spec 6: "every credential has a
\* context"); cred_transfer and every hook dereference it unchecked.
LiveCredHasNode == \A c \in credLive : prov[c] # NULL

\* The graph these hooks record, as ProvGraph states it: node identities
\* are the ids ASSIGN_NODE_ID gave out, the ids below nextId are issued,
\* and executables' inode nodes are fixed agents.
MaxId == InitId + MaxCalls
Graph == INSTANCE ProvGraph
            WITH Agents <- Files \ MissingFiles,
                 Handles <- 1..MaxId,
                 live <- {nodes[n].id : n \in UsedSlots},
                 issued <- 1..(nextId - 1)

\* The credential and IPC hooks implement ProvGraph: the log only grows,
\* every edge joins live nodes, and an id retired by cred_free, a
\* cred_transfer overwrite, msg_msg_free or shm_free never comes back,
\* whatever fork, setuid, execve, keyctl joins and IPC interleave.
RefinesGraph == Graph!Spec

\* Node ids are unique (spec 3 (a)): no two nodes in use share an id.
UniqueIds ==
    \A n1, n2 \in UsedSlots : n1 # n2 => nodes[n1].id # nodes[n2].id

\* Every task runs with a node the graph knows: its id is the init task's
\* or the target of an ED_FORK (cred_prepare), whatever mix of fork,
\* setuid, execve and keyctl session joins led to it.
CredIdsIntroduced ==
    \A t \in alive :
        IdOf(cur[t]) \in {InitId} \cup {log[k].to : k \in {j \in 1..Len(log) : log[j].type = "fork"}}

\* An object whose IFC context carries a label has a tracked node (spec
\* l.54, l.144): live credentials (tracked set by cred_prepare, whatever
\* /ifc/self did to the context since), and messages (msg_msg_alloc_security)
\* and segments (shm_alloc_security) allocated with a labelled context.
ObjectTracked ==
    /\ \A c \in credLive : clab[c] => nodes[prov[c]].tracked
    /\ \A o \in Msgs \cup Shms :
          (prov[o] # NULL /\ olab[o] = "labelled") => nodes[prov[o]].tracked

\* No hook dereferences a NULL pointer.
NoNullDeref == faults = {}
====
