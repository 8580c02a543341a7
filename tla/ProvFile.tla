------------------------------- MODULE ProvFile -------------------------------
(***************************************************************************)
(* Provenance of inodes and files, security/provenance/hooks.c: the inode  *)
(* security blob (inode_alloc_security / inode_free_security), the         *)
(* permission hooks (inode_permission, file_permission, file_open,         *)
(* mmap_file, file_ioctl) and the one-time capture of a file's name        *)
(* (provenance_record_file_name).                                          *)
(*                                                                         *)
(* Hooks run on the calling thread with no lock of their own.  A hook is   *)
(* the sequence of steps prog; it is split where it reads shared state and *)
(* acts on it later: the repair of a missing node (read i_provenance,      *)
(* then allocate and store) and the name capture (read the node's flags,   *)
(* then write the name and set name_recorded).  Everything else a hook     *)
(* does is one step.                                                       *)
(*                                                                         *)
(* alloc_provenance, record_edge, long_prov_write, prov_update_version and *)
(* the IFC label of an inode are outside src/ and modelled from the spec.  *)
(***************************************************************************)
EXTENDS Naturals, Sequences, FiniteSets

CONSTANTS
    Threads,       \* threads calling hooks; each runs as its own task
    Inodes,        \* inodes (i_ino)
    Slots,         \* objects of provenance_cache that can hold inode nodes
    PrivateInodes, \* IS_PRIVATE inodes
    Labelled,      \* inodes whose IFC context is labelled (ifc_is_labelled)
    MissingAtInit, \* inodes that exist but carry no node at the start
    MaxCalls,      \* bound on hook calls and inode lifecycle events
    NULL

ASSUME /\ PrivateInodes \subseteq Inodes
       /\ Labelled \subseteq Inodes
       /\ MissingAtInit \subseteq Inodes
       /\ MaxCalls \in Nat
       /\ NULL \notin Slots \cup Threads

\* MAY_READ, MAY_WRITE, MAY_APPEND, MAY_EXEC combinations a hook is given
Masks == {{"read"}, {"write"}, {"append"}, {"exec"}, {"read", "write"}}
\* PROT_READ, PROT_WRITE, PROT_EXEC combinations given to mmap_file
Prots == {{}, {"read"}, {"write"}, {"exec"}}

\* A node endpoint: an inode node (a slot), a task node (its thread) or NULL
Endpoints == Slots \cup Threads \cup {NULL}
EdgeTypes == {"create", "write", "read", "exec", "open", "mmap", "named"}
Edge(ty, from, to) == [type |-> ty, from |-> from, to |-> to]

NoNode == [used |-> FALSE, ino |-> NULL, tracked |-> FALSE, named |-> FALSE,
           version |-> 0]

VARIABLES
    ilive,   \* inodes that exist
    iprov,   \* iprov[i]: the node i_provenance points to, or NULL
    nodes,   \* nodes[s]: the prov_msg_t in slot s
    tver,    \* tver[t]: version of the task node of thread t
    log,     \* records handed to the provenance sink, in order
    th,      \* th[t]: the hook thread t is running
    faults,  \* NULL dereferences that oops the kernel
    calls    \* hook calls and lifecycle events so far

vars == <<ilive, iprov, nodes, tver, log, th, faults, calls>>

IdleThread == [prog |-> <<>>, ino |-> NULL, arg |-> {}, node |-> NULL, ver |-> 0]

-----------------------------------------------------------------------------
(* alloc_provenance(MSG_INODE) and record_edge, from the spec.             *)

FreeSlots == {s \in Slots : ~nodes[s].used}

\* a node for inode i, initialised as inode_alloc_security does
NewInodeNode(i) == [used |-> TRUE, ino |-> i, tracked |-> i \in Labelled,
                    named |-> FALSE, version |-> 0]

\* record_edge hands one edge to the sink
RecordEdges(es) == log' = log \o es

-----------------------------------------------------------------------------
Init ==
    /\ ilive = MissingAtInit
    /\ iprov = [i \in Inodes |-> NULL]
    /\ nodes = [s \in Slots |-> NoNode]
    /\ tver = [t \in Threads |-> 0]
    /\ log = <<>>
    /\ th = [t \in Threads |-> IdleThread]
    /\ faults = {}
    /\ calls = 0

Idle(t) == th[t].prog = <<>>
InUse(i) == \E t \in Threads : ~Idle(t) /\ th[t].ino = i
Step(t, name) == ~Idle(t) /\ Head(th[t].prog) = name
\* thread t finishes its current step and goes on with the rest
Continue(t) == th' = [th EXCEPT ![t].prog = Tail(@)]
\* an oops ends the hook (and the task) where it stands
Oops(t, site) == /\ faults' = faults \cup {site}
                 /\ th' = [th EXCEPT ![t] = IdleThread]

\* provenance_inode_alloc_security, called by the host when it creates
\* inode i on thread t: -ENOMEM makes the host fail the creation.
InodeAllocSecurity(t, i) ==
    /\ Idle(t) /\ i \notin ilive /\ calls < MaxCalls
    /\ \/ \E s \in FreeSlots :
             /\ nodes' = [nodes EXCEPT ![s] = NewInodeNode(i)]
             /\ iprov' = [iprov EXCEPT ![i] = s]
             /\ ilive' = ilive \cup {i}
             /\ RecordEdges(<<Edge("create", t, s)>>)
       \/ UNCHANGED <<nodes, iprov, ilive, log>>   \* alloc_provenance fails
    /\ calls' = calls + 1
    /\ UNCHANGED <<tver, th, faults>>

\* mutant: the node is freed but i_provenance is not cleared
InodeFreeKeepsPointer(i) ==
    /\ i \in ilive /\ ~InUse(i) /\ calls < MaxCalls
    /\ nodes' = IF iprov[i] = NULL THEN nodes
                ELSE [nodes EXCEPT ![iprov[i]] = NoNode]
    /\ ilive' = ilive \ {i}
    /\ calls' = calls + 1
    /\ UNCHANGED <<iprov, tver, log, th, faults>>

\* provenance_inode_free_security: the node is released only when the
\* pointer is NULL, so a real node is never released.
InodeFreeSecurity(i) ==
    /\ i \in ilive /\ ~InUse(i) /\ calls < MaxCalls
    /\ UNCHANGED nodes           \* if(!prov) free_provenance(prov)
    /\ iprov' = [iprov EXCEPT ![i] = NULL]
    /\ ilive' = ilive \ {i}
    /\ calls' = calls + 1
    /\ UNCHANGED <<tver, log, th, faults>>

\* A hook starts on thread t with its steps.
Call(t, i, arg, prog) ==
    /\ Idle(t) /\ i \in ilive /\ calls < MaxCalls
    /\ th' = [th EXCEPT ![t] = [prog |-> prog, ino |-> i, arg |-> arg,
                                node |-> NULL, ver |-> 0]]
    /\ calls' = calls + 1
    /\ UNCHANGED <<ilive, iprov, nodes, tver, log, faults>>

\* provenance_inode_permission: nothing for a private inode; else repair a
\* missing node, then record the edges the mask implies.
InodePermission(t, i, mask) ==
    /\ i \notin PrivateInodes
    /\ Call(t, i, mask, <<"alloc", "perm">>)

\* provenance_file_permission: name capture, then inode_permission.
FilePermission(t, i, mask) ==
    Call(t, i, mask, IF i \in PrivateInodes THEN <<"name">>
                                            ELSE <<"name", "alloc", "perm">>)

\* mutant: file_open records ED_OPEN before it captures the name
FileOpenLateName(t, i) == Call(t, i, {}, <<"alloc", "open", "name">>)

\* provenance_file_open: repair, name capture, ED_OPEN.
FileOpen(t, i) == Call(t, i, {}, <<"alloc", "name", "open">>)

\* provenance_mmap_file with a file (a NULL file returns at once).
MmapFile(t, i, prot) == Call(t, i, prot, <<"name", "mmap">>)

\* provenance_file_ioctl: repair, name capture, the two-way exchange.
FileIoctl(t, i) == Call(t, i, {}, <<"alloc", "name", "ioctl">>)

-----------------------------------------------------------------------------
(* The steps of the hooks.                                                 *)

\* if(!inode_get_provenance(inode)): read the pointer
AllocCheck(t) ==
    /\ Step(t, "alloc")
    /\ th' = [th EXCEPT ![t].prog = IF iprov[th[t].ino] = NULL
                                    THEN <<"alloc_do">> \o Tail(@)
                                    ELSE Tail(@)]
    /\ UNCHANGED <<ilive, iprov, nodes, tver, log, faults, calls>>

\* provenance_inode_alloc_security(inode) from a hook: its -ENOMEM is
\* ignored; on success the new node is stored over whatever is there.
AllocDo(t) ==
    /\ Step(t, "alloc_do")
    /\ LET i == th[t].ino IN
       \/ \E s \in FreeSlots :
             /\ nodes' = [nodes EXCEPT ![s] = NewInodeNode(i)]
             /\ iprov' = [iprov EXCEPT ![i] = s]
             /\ RecordEdges(<<Edge("create", t, s)>>)
       \/ UNCHANGED <<nodes, iprov, log>>      \* alloc_provenance fails
    /\ Continue(t)
    /\ UNCHANGED <<ilive, tver, faults, calls>>

\* mutant: the capture does not test name_recorded
NameCheckNoFlag(t) ==
    /\ Step(t, "name")
    /\ LET n == iprov[th[t].ino] IN
       IF n = NULL
       THEN /\ Oops(t, "name_null")
            /\ UNCHANGED <<ilive, iprov, nodes, tver, log, calls>>
       ELSE /\ th' = [th EXCEPT ![t].prog =
                         IF nodes[n].tracked
                         THEN <<"name_do">> \o Tail(@) ELSE Tail(@),
                         ![t].node = n]
            /\ UNCHANGED <<ilive, iprov, nodes, tver, log, faults, calls>>

\* provenance_record_file_name: test name_recorded and tracked of the node
NameCheck(t) ==
    /\ Step(t, "name")
    /\ LET n == iprov[th[t].ino] IN
       IF n = NULL
       THEN /\ Oops(t, "name_null")
            /\ UNCHANGED <<ilive, iprov, nodes, tver, log, calls>>
       ELSE /\ th' = [th EXCEPT ![t].prog =
                         IF ~nodes[n].named /\ nodes[n].tracked
                         THEN <<"name_do">> \o Tail(@) ELSE Tail(@),
                         ![t].node = n]
            /\ UNCHANGED <<ilive, iprov, nodes, tver, log, faults, calls>>

\* provenance_record_file_name, the capture: the path buffer and the long
\* record are allocated unchecked; the record and ED_NAMED are written and
\* name_recorded is set.
NameDo(t) ==
    /\ Step(t, "name_do")
    /\ LET n == th[t].node IN
       \/ /\ RecordEdges(<<Edge("named", n, NULL)>>)
          /\ nodes' = [nodes EXCEPT ![n].named = TRUE]
          /\ Continue(t)
          /\ UNCHANGED faults
       \/ /\ Oops(t, "long_alloc")             \* kzalloc or alloc fails
          /\ UNCHANGED <<nodes, log>>
    /\ UNCHANGED <<ilive, iprov, tver, calls>>

\* the edges of provenance_inode_permission for the mask
PermEdges(t) ==
    /\ Step(t, "perm")
    /\ LET n == iprov[th[t].ino]
           m == th[t].arg
       IN RecordEdges(
             (IF m \cap {"write", "append"} # {} THEN <<Edge("write", t, n)>>
                                                ELSE <<>>)
          \o (IF "read" \in m THEN <<Edge("read", n, t)>> ELSE <<>>)
          \o (IF "exec" \in m THEN <<Edge("exec", n, t)>> ELSE <<>>))
    /\ Continue(t)
    /\ UNCHANGED <<ilive, iprov, nodes, tver, faults, calls>>

\* ED_OPEN from the inode to the task, the node pointer read again
OpenEdge(t) ==
    /\ Step(t, "open")
    /\ RecordEdges(<<Edge("open", iprov[th[t].ino], t)>>)
    /\ Continue(t)
    /\ UNCHANGED <<ilive, iprov, nodes, tver, faults, calls>>

\* the edges of provenance_mmap_file for the protection
MmapEdges(t) ==
    /\ Step(t, "mmap")
    /\ LET n == iprov[th[t].ino]
           p == th[t].arg
       IN RecordEdges(
             (IF p \cap {"write", "exec"} # {} THEN <<Edge("mmap", t, n)>>
                                              ELSE <<>>)
          \o (IF p # {} THEN <<Edge("mmap", n, t)>> ELSE <<>>))
    /\ Continue(t)
    /\ UNCHANGED <<ilive, iprov, nodes, tver, faults, calls>>

\* the exchange of provenance_file_ioctl, up to the load of the inode
\* node's version inside prov_update_version: ED_WRITE, then the load (a
\* NULL node is dereferenced there)
IoctlEdges(t) ==
    /\ Step(t, "ioctl")
    /\ LET n == iprov[th[t].ino] IN
       /\ RecordEdges(<<Edge("write", t, n)>>)
       /\ IF n = NULL
          THEN Oops(t, "version_null")
          ELSE th' = [th EXCEPT ![t].prog = <<"ioctl_v">> \o Tail(@),
                                ![t].node = n, ![t].ver = nodes[n].version]
    /\ UNCHANGED <<ilive, iprov, nodes, tver, faults, calls>>

\* the rest of the exchange: store the loaded version plus one, ED_READ,
\* bump the task node (only thread t bumps its own task node)
IoctlBump(t) ==
    /\ Step(t, "ioctl_v")
    /\ LET n == th[t].node IN
       /\ nodes' = [nodes EXCEPT ![n].version = th[t].ver + 1]
       /\ RecordEdges(<<Edge("read", n, t)>>)
       /\ tver' = [tver EXCEPT ![t] = @ + 1]
    /\ Continue(t)
    /\ UNCHANGED <<ilive, iprov, faults, calls>>

\* one step of the hook thread t is running
HookStep(t) ==
    \/ AllocCheck(t) \/ AllocDo(t) \/ NameCheck(t) \/ NameDo(t)
    \/ PermEdges(t) \/ OpenEdge(t) \/ MmapEdges(t)
    \/ IoctlEdges(t) \/ IoctlBump(t)

\* The bound on calls is reached and every hook has returned.
Finished ==
    /\ calls = MaxCalls /\ \A t \in Threads : Idle(t)
    /\ UNCHANGED vars

Next ==
    \/ \E t \in Threads, i \in Inodes :
          \/ InodeAllocSecurity(t, i)
          \/ \E m \in Masks : InodePermission(t, i, m) \/ FilePermission(t, i, m)
          \/ FileOpen(t, i)
          \/ \E p \in Prots : MmapFile(t, i, p)
          \/ FileIoctl(t, i)
    \/ \E i \in Inodes : InodeFreeSecurity(i)
    \/ \E t \in Threads : HookStep(t)
    \/ Finished

Spec == Init /\ [][Next]_vars

-----------------------------------------------------------------------------
TypeOK ==
    /\ ilive \subseteq Inodes
    /\ iprov \in [Inodes -> Slots \cup {NULL}]
    /\ nodes \in [Slots -> [used : BOOLEAN, ino : Inodes \cup {NULL},
                            tracked : BOOLEAN, named : BOOLEAN, version : Nat]]
    /\ tver \in [Threads -> Nat]
    /\ log \in Seq([type : EdgeTypes, from : Endpoints, to : Endpoints])
    /\ \A t \in Threads : th[t].node \in Slots \cup {NULL} /\ th[t].ver \in Nat
    /\ \A i \in Inodes : iprov[i] # NULL =>
          nodes[iprov[i]].used /\ nodes[iprov[i]].ino = i
    /\ calls \in 0..MaxCalls

\* Positions in the log of the records satisfying P
Where(P(_)) == {k \in 1..Len(log) : P(log[k])}

\* No edge is recorded with a NULL endpoint (spec 3, invariant (d)): the
\* missing-node repair of the permission hooks must leave a node behind.
NoNullEndpoint ==
    \A k \in 1..Len(log) : log[k].type # "named" => NULL \notin {log[k].from, log[k].to}

\* No hook dereferences a NULL node or long record.
NoNullDeref == faults = {}

\* The name of a node is recorded at most once (spec 3 (b), spec 8): one
\* ED_NAMED per node whatever hooks run on the file and in whatever order.
NameOnce ==
    \A s \in Slots : Cardinality(Where(LAMBDA e : e = Edge("named", s, NULL))) <= 1

\* file_open captures the name before it records ED_OPEN: every ED_OPEN from
\* a tracked node comes after that node's ED_NAMED in the log.
OpenNamed ==
    \A k \in 1..Len(log) :
        (log[k].type = "open" /\ log[k].from \in Slots /\ nodes[log[k].from].tracked)
          => \E j \in 1..(k - 1) : log[j] = Edge("named", log[k].from, NULL)

\* Every allocated node belongs to a live inode (spec 4.3: a node is owned by
\* its host object and released with it).
NoLeakedNode ==
    \A s \in Slots : nodes[s].used => \E i \in ilive : iprov[i] = s

\* Node versions never go back (spec 1, 3: monotonic node versioning): no
\* step lowers the version of a node still owned by the same inode, or of
\* a task node.  prov_update_version in file_ioctl is a load and a store.
VersionMonotone ==
    [][/\ \A s \in Slots : (nodes[s].used /\ nodes'[s].ino = nodes[s].ino)
                             => nodes'[s].version >= nodes[s].version
       /\ \A t \in Threads : tver'[t] >= tver[t]]_vars

=============================================================================
