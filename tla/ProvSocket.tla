------------------------------ MODULE ProvSocket ------------------------------
(***************************************************************************)
(* Provenance of sockets, security/provenance/hooks.c: sk_alloc_security, *)
(* sk_free_security, socket_post_create, the address capture              *)
(* (provenance_record_address), bind, connect, listen, sendmsg, recvmsg,  *)
(* accept, unix_stream_connect and unix_may_send.                         *)
(*                                                                         *)
(* A socket here is a struct sock with the struct socket (and its inode)  *)
(* it belongs to.  socket() allocates both and calls socket_post_create;  *)
(* a unix stream connect allocates the server side's sock, which waits on *)
(* the listener's queue until accept gives it a struct socket.  The       *)
(* socket inode's node comes from inode_alloc_security (ProvFile) and is  *)
(* released by inode_free_security, which never frees it.  A failed       *)
(* allocation fails the host's operation, which changes nothing.  Which   *)
(* tasks are opaque is set outside src/ and is a constant here.           *)
(***************************************************************************)
EXTENDS Naturals, Sequences, FiniteSets

CONSTANTS
    Tasks,    \* tasks calling the socket system calls; a task node is the task
    Opaque,   \* tasks whose node is flagged NODE_OPAQUE
    Socks,    \* sockets
    Slots,    \* objects of provenance_cache
    MaxCalls, \* bound on system calls
    NULL

ASSUME /\ Opaque \subseteq Tasks
       /\ MaxCalls \in Nat

NoNode == [used |-> FALSE, id |-> <<"none", 0>>, tracked |-> FALSE, named |-> FALSE]
\* alloc_provenance(MSG_SOCK) / (MSG_INODE): a zeroed node with id; sk
\* nodes are never marked tracked, and a socket inode has no IFC label
NewNode(id) == [used |-> TRUE, id |-> id, tracked |-> FALSE, named |-> FALSE]
\* node ids: a sock node's from ASSIGN_NODE_ID (set_node_id in
\* sk_alloc_security), a socket inode's its i_ino (inode_alloc_security;
\* sockfs numbers inodes with get_next_ino); the two counters are separate,
\* so an id is written with the kind of node it belongs to
SockId(k) == <<"sock", k>>
InoId(k) == <<"inode", k>>
\* the long record an ED_NAMED edge points at
Addr == <<"addr", 0>>
EdgeTypes == {"create", "associate", "named", "bind", "connect", "listen",
              "write", "read", "accept", "unknown"}
Edge(ty, from, to) == [type |-> ty, from |-> from, to |-> to]

VARIABLES
    sstate, \* sstate[s]: "none", "open" (user socket), "kern" (kernel
            \* socket) or "queued" (a sock not yet given a struct socket)
    queue,  \* queue[l]: socks a unix connect queued on listener l
    sk,     \* sk[s]: sk->sk_provenance, or NULL
    ino,    \* ino[s]: the node of SOCK_INODE, or NULL
    nodes,  \* nodes[n]: the node in slot n
    nextSk, \* next ASSIGN_NODE_ID
    nextIno,\* next get_next_ino
    log,    \* edges handed to the sink, endpoints are node ids, tasks or NULL
    calls

vars == <<sstate, queue, sk, ino, nodes, nextSk, nextIno, log, calls>>

FreeSlots == {n \in Slots : ~nodes[n].used}
Busy == calls < MaxCalls
Open(s) == sstate[s] \in {"open", "kern"}
UserOpen(s) == sstate[s] = "open"
NewSock == CHOOSE s \in Socks : sstate[s] = "none"
CanCreate == \E s \in Socks : sstate[s] = "none"

\* the two slots a new sock and its inode get (distinct free objects)
TwoSlots == {p \in FreeSlots \X FreeSlots : p[1] # p[2]}
NewPair == CHOOSE p \in TwoSlots : TRUE

\* record_edge for each edge of es, in order
Record(es) == log' = log \o es

\* the id of the node in slot n
Id(n) == nodes[n].id

Init ==
    /\ sstate = [s \in Socks |-> "none"]
    /\ queue = [s \in Socks |-> {}]
    /\ sk = [s \in Socks |-> NULL]
    /\ ino = [s \in Socks |-> NULL]
    /\ nodes = [n \in Slots |-> NoNode]
    /\ nextSk = 1
    /\ nextIno = 1
    /\ log = <<>>
    /\ calls = 0

-----------------------------------------------------------------------------
\* socket(): sk_alloc calls provenance_sk_alloc_security, sock_alloc gives
\* the inode its node; then provenance_socket_post_create, which for a user
\* socket records ED_CREATE task->sock and ED_ASSOCIATE sock->inode (the
\* repair of a missing sk node is never needed: sk_alloc fails without one)
SocketCreate(t, kern) ==
    LET s == NewSock
        p == NewPair
    IN
    /\ Busy /\ CanCreate /\ TwoSlots # {}
    /\ nodes' = [nodes EXCEPT ![p[1]] = NewNode(SockId(nextSk)),
                               ![p[2]] = NewNode(InoId(nextIno))]
    /\ sk' = [sk EXCEPT ![s] = p[1]]
    /\ ino' = [ino EXCEPT ![s] = p[2]]
    /\ nextSk' = nextSk + 1
    /\ nextIno' = nextIno + 1
    /\ sstate' = [sstate EXCEPT ![s] = IF kern THEN "kern" ELSE "open"]
    /\ Record(IF kern THEN <<>>
              ELSE <<Edge("create", t, SockId(nextSk)),
                     Edge("associate", SockId(nextSk), InoId(nextIno))>>)
    /\ calls' = calls + 1
    /\ UNCHANGED queue

\* provenance_record_address for sock s: the edges it records and the nodes
\* after it; the address is captured once, and only for a tracked node
AddressEdges(s) ==
    IF ~nodes[sk[s]].named /\ nodes[sk[s]].tracked
    THEN <<Edge("named", Id(sk[s]), Addr)>> ELSE <<>>
AddressNodes(s) ==
    IF ~nodes[sk[s]].named /\ nodes[sk[s]].tracked
    THEN [nodes EXCEPT ![sk[s]].named = TRUE] ELSE nodes

\* provenance_socket_bind and provenance_socket_connect (ty): nothing for an
\* opaque task, -ENOMEM for a sock without a node, else the address
\* capture and ED_BIND / ED_CONNECT task->sock
BindConnect(t, s, ty) ==
    /\ Busy /\ UserOpen(s)
    /\ IF t \in Opaque \/ sk[s] = NULL
       THEN UNCHANGED <<nodes, log>>
       ELSE /\ nodes' = AddressNodes(s)
            /\ Record(AddressEdges(s) \o <<Edge(ty, t, Id(sk[s]))>>)
    /\ calls' = calls + 1
    /\ UNCHANGED <<sstate, queue, sk, ino, nextSk, nextIno>>

Bind(t, s) == BindConnect(t, s, "bind")
Connect(t, s) == BindConnect(t, s, "connect")

\* provenance_socket_listen: ED_LISTEN task->sock
Listen(t, s) ==
    /\ Busy /\ UserOpen(s)
    /\ Record(<<Edge("listen", t, Id(sk[s]))>>)
    /\ calls' = calls + 1
    /\ UNCHANGED <<sstate, queue, sk, ino, nodes, nextSk, nextIno>>

\* provenance_socket_sendmsg / recvmsg: inode_permission on the socket
\* inode with MAY_WRITE (ED_WRITE task->inode) or MAY_READ (ED_READ
\* inode->task); the inode always has its node
SendMsg(t, s) ==
    /\ Busy /\ Open(s)
    /\ Record(<<Edge("write", t, Id(ino[s]))>>)
    /\ calls' = calls + 1
    /\ UNCHANGED <<sstate, queue, sk, ino, nodes, nextSk, nextIno>>

RecvMsg(t, s) ==
    /\ Busy /\ Open(s)
    /\ Record(<<Edge("read", Id(ino[s]), t)>>)
    /\ calls' = calls + 1
    /\ UNCHANGED <<sstate, queue, sk, ino, nodes, nextSk, nextIno>>

\* mutant: sk_alloc goes on without a node when the allocation fails
SkAllocIgnoreENOMEM ==
    (IF FreeSlots = {} THEN {} ELSE {CHOOSE n \in FreeSlots : TRUE}) \cup {NULL}

\* the node sk_alloc_security gives a new sock: a free slot; -ENOMEM
\* makes sk_alloc fail
SkAllocResults == IF FreeSlots = {} THEN {} ELSE {CHOOSE n \in FreeSlots : TRUE}

\* the edges of provenance_unix_stream_connect: ED_CONNECT task->sock,
\* ED_ASSOCIATE sock->newsk, ED_ASSOCIATE sock->other; nid: newsk's node
UnixStreamEdges(t, s, l, nid) ==
    <<Edge("connect", t, Id(sk[s])), Edge("associate", Id(sk[s]), nid),
      Edge("associate", Id(sk[s]), Id(sk[l]))>>

\* connect() of unix stream socket s to listener l: socket_connect runs
\* first; unix_stream_connect allocates the server side's sock (newsk) and
\* calls provenance_unix_stream_connect; newsk is queued on l
UnixStreamConnect(t, s, l) ==
    LET ns == NewSock IN
    /\ Busy /\ UserOpen(s) /\ UserOpen(l) /\ s # l /\ CanCreate
    /\ \E n \in SkAllocResults :
          /\ nodes' = IF n = NULL THEN nodes
                      ELSE [nodes EXCEPT ![n] = NewNode(SockId(nextSk))]
          /\ nextSk' = IF n = NULL THEN nextSk ELSE nextSk + 1
          /\ sk' = [sk EXCEPT ![ns] = n]
          /\ Record(UnixStreamEdges(t, s, l, IF n = NULL THEN NULL ELSE SockId(nextSk)))
    /\ sstate' = [sstate EXCEPT ![ns] = "queued"]
    /\ queue' = [queue EXCEPT ![l] = @ \cup {ns}]
    /\ calls' = calls + 1
    /\ UNCHANGED <<ino, nextIno>>

\* accept() on l: sock_alloc gives the new struct socket its inode node,
\* provenance_socket_accept records ED_CREATE inode(l)->inode(new) and
\* ED_ACCEPT inode(new)->task with the inode nodes (newsock->sk is not yet
\* set), then the queued sock is grafted onto it
Accept(t, l, ns) ==
    /\ Busy /\ UserOpen(l) /\ ns \in queue[l] /\ FreeSlots # {}
    /\ LET n == CHOOSE m \in FreeSlots : TRUE IN
       /\ nodes' = [nodes EXCEPT ![n] = NewNode(InoId(nextIno))]
       /\ ino' = [ino EXCEPT ![ns] = n]
       /\ Record(<<Edge("create", Id(ino[l]), InoId(nextIno)),
                   Edge("accept", InoId(nextIno), t)>>)
    /\ nextIno' = nextIno + 1
    /\ sstate' = [sstate EXCEPT ![ns] = "open"]
    /\ queue' = [queue EXCEPT ![l] = @ \ {ns}]
    /\ calls' = calls + 1
    /\ UNCHANGED <<sk, nextSk>>

\* a datagram from s to other: provenance_unix_may_send, ED_UNKNOWN
UnixMaySend(s, o) ==
    /\ Busy /\ UserOpen(s) /\ UserOpen(o) /\ s # o
    /\ Record(<<Edge("unknown", Id(sk[s]), Id(sk[o]))>>)
    /\ calls' = calls + 1
    /\ UNCHANGED <<sstate, queue, sk, ino, nodes, nextSk, nextIno>>

\* mutant: sk_free_security frees the node and leaves sk_provenance set
CloseKeepsPointer(s) ==
    /\ Busy /\ Open(s) /\ queue[s] = {}
    /\ nodes' = IF sk[s] = NULL THEN nodes ELSE [nodes EXCEPT ![sk[s]].used = FALSE]
    /\ ino' = [ino EXCEPT ![s] = NULL]
    /\ sstate' = [sstate EXCEPT ![s] = "none"]
    /\ calls' = calls + 1
    /\ UNCHANGED <<queue, log, sk, nextSk, nextIno>>

\* close() of an open socket with nothing queued: sk_free calls
\* provenance_sk_free_security (node freed, pointer cleared); the inode's
\* node is left allocated by inode_free_security
Close(s) ==
    /\ Busy /\ Open(s) /\ queue[s] = {}
    /\ nodes' = IF sk[s] = NULL THEN nodes ELSE [nodes EXCEPT ![sk[s]].used = FALSE]
    /\ sk' = [sk EXCEPT ![s] = NULL]
    /\ ino' = [ino EXCEPT ![s] = NULL]
    /\ sstate' = [sstate EXCEPT ![s] = "none"]
    /\ calls' = calls + 1
    /\ UNCHANGED <<queue, log, nextSk, nextIno>>

Finished == calls = MaxCalls /\ UNCHANGED vars

Next ==
    \/ \E t \in Tasks :
          \/ \E k \in BOOLEAN : SocketCreate(t, k)
          \/ \E s \in Socks :
                \/ Bind(t, s) \/ Connect(t, s) \/ Listen(t, s)
                \/ SendMsg(t, s) \/ RecvMsg(t, s)
                \/ \E l \in Socks : UnixStreamConnect(t, s, l) \/ Accept(t, s, l)
    \/ \E s, o \in Socks : UnixMaySend(s, o)
    \/ \E s \in Socks : Close(s)
    \/ Finished

Spec == Init /\ [][Next]_vars

-----------------------------------------------------------------------------
Endpoints == Tasks \cup {Addr, NULL} \cup ({"sock", "inode"} \X (1..MaxCalls))

TypeOK ==
    /\ sstate \in [Socks -> {"none", "open", "kern", "queued"}]
    /\ queue \in [Socks -> SUBSET Socks]
    /\ sk \in [Socks -> Slots \cup {NULL}]
    /\ ino \in [Socks -> Slots \cup {NULL}]
    /\ \A s \in Socks : sk[s] # NULL => nodes[sk[s]].used
    /\ \A i \in 1..Len(log) : log[i].type \in EdgeTypes
                              /\ {log[i].from, log[i].to} \subseteq Endpoints
    /\ calls \in 0..MaxCalls

\* The socket hooks implement the abstract provenance graph (ProvGraph):
\* the log only grows, a sock node's id is drawn once from ASSIGN_NODE_ID
\* and a socket inode's once from the inode numbers, and every edge a hook
\* records (socket_post_create, unix_stream_connect, listen, may_send, ...)
\* joins tasks, the address record and nodes in use: no sock reaches a
\* hook without its node, so no edge has a NULL or freed endpoint.
MaxId == MaxCalls
Graph == INSTANCE ProvGraph WITH Agents <- Tasks \cup {Addr},
           Handles <- {SockId(k) : k \in 1..MaxId} \cup {InoId(k) : k \in 1..MaxId},
           live <- {nodes[n].id : n \in {x \in Slots : nodes[x].used}},
           issued <- {SockId(k) : k \in 1..(nextSk - 1)} \cup {InoId(k) : k \in 1..(nextIno - 1)}
RefinesGraph == Graph!Spec

\* Spec scenario 4: a bind or connect by a task that is not opaque is
\* preceded by the one-time address capture, an ED_NAMED edge from the
\* socket's node (provenance_record_address).
AddressCaptured ==
    \A i \in 1..Len(log) :
       log[i].type \in {"bind", "connect"} =>
          \E j \in 1..(i - 1) : log[j].type = "named" /\ log[j].from = log[i].to

\* spec.md l.35: an opaque task's outbound edges are suppressed, so no edge
\* recorded by a socket hook leaves an opaque task.
OpaqueSilent == \A i \in 1..Len(log) : log[i].from \notin Opaque

\* spec.md l.86: accept records ED_CREATE listening socket -> new socket
\* and ED_ACCEPT new socket -> task on socket (sock) nodes.
AcceptOnSockNodes ==
    \A i \in 1..Len(log) :
       log[i].type = "accept" => log[i].from[1] = "sock"
=============================================================================
