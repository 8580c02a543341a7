# TLA+ models of the CamFlow IFC and provenance hooks

This directory holds TLA+ models of the two kernel security extensions in
`src/security/`:

- **IFC control plane** (`src/security/ifc/fs.c`). A process manipulates its own
  tag sets through the securityfs file `self`. It mints a fresh tag and gets
  full privilege over it through `tag`. It grants a privilege tag to another
  process through `process`, which requires the caller to hold that privilege.
- **Provenance hooks** (`src/security/provenance/hooks.c`). These are LSM hooks
  on credentials, inodes, files, IPC, sockets and superblocks. Each hook finds
  or allocates a provenance node for the kernel object it is called on. It then
  records edges (read, write, open, mmap, named, ...) to the relay log.

The two parts interact through the credential: IFC labels decide whether an
inode node is `tracked`, and only tracked nodes get a name record. In the code
that link is the `ifc_is_labelled` test in `provenance_inode_alloc_security`.
The models keep it as the constant `Labelled` (the inodes whose IFC context is
labelled). For credentials the link is composed: `ProvTaskIfc` adds the
`/ifc/self` writes of `IfcFs` to the credential hooks of `ProvTask`.

Several helpers live outside `src/`: the tag sets (`ifc_add_tag`,
`ifc_add_privilege`, `ifc_create_tag`, `ifc_tag_valid`), `alloc_provenance`,
`record_edge` and the IFC cred hooks. They are modelled from `spec.md` and
marked `spec_modelled` in `PROJECT.json`.

## Inventory

| part | source | module | status |
|---|---|---|---|
| IFC control plane: `ifc_write_self`, `ifc_read_tag`, `ifc_write_process`, `ifc_read_process`, `context_from_pid` | fs.c | `IfcFs` | modelled |
| `ifc_read_self`, `ifc_write_tag` (returns -EPERM) | fs.c | none | change no state |
| tag sets, tag allocator, context copy on fork and free on exit | outside src/ | `IfcFs` | from the spec |
| inode and file hooks: alloc, free, permission, file_permission, open, mmap, ioctl, record_file_name | hooks.c 149-416 | `ProvFile` | modelled |
| inode_link | hooks.c 246-282 | none | body commented out, returns 0 |
| cred and exec hooks | hooks.c 32-140, 822-844 | `ProvTask` | modelled |
| msg and shm hooks | hooks.c 427-576 | `ProvTask` | modelled |
| `ifc_write_self` on the running credential, composed with the cred hooks | fs.c 26-91 | `ProvTaskIfc` | composition |
| socket hooks and record_address | hooks.c 582-806 | `ProvSocket` | modelled |
| superblock hooks, and the uuid copy in inode_alloc_security | hooks.c 853-885, 165-166 | `ProvSb` | modelled |
| hook table and `provenance_add_hooks` | hooks.c 887-949 | none | boot-time registration |
| record sink (`record_edge`, relay) | outside src/ | all `Prov*` | an append-only log, from the spec |
| what the log promises (spec 3): append only, live endpoints, ids assigned once | spec.md | `ProvGraph` | abstract spec, refined by `ProvTask` and `ProvSocket` |

## Module `IfcFs` (with `MCIfcFs`)

**State.**
- `ctx[p][kind]` holds each process's tag sets. It is restricted to the
  dimensions in the constant `Dimensions`.
- `alive` is the set of processes that exist. `gen[p]` counts how often pid `p`
  has been reused.
- `nextTag` is the tag counter. `issued[t]` records who minted tag `t`.
- `ubuf[p]` is the tag field of the caller's user buffer.
- `req[p]` is a `write_process` (pc "add") or `read_process` (pc "read")
  call in flight: the kind, the target, the target's generation seen at
  lookup, and the tag value that was checked.
- `freedUses` counts adds into, and copies out of, a context whose process
  has exited.

**Actions.**
- `WriteSelf` is `ifc_write_self` (26-91). It validates the tag, then adds or
  removes the tag in any kind, with no privilege check.
- `ReadTag` is `ifc_read_tag` (120-146). It mints a tag and adds four
  privileges, and an add may fail when a set is full.
- `ifc_write_process` is split into two steps at the second read of `msg->tag`:
  - `WPBegin` (154-182) covers validation, lookup and the privilege check.
  - `WPAdd` (183-206) is the add, which re-reads the buffer.
- `UserWrite` is another thread of the caller rewriting the buffer between
  those two steps. The code reads it through a plain cast of a user pointer
  (line 167).
- `ifc_read_process` is split the same way: `RPBegin` (208-222) is the
  lookup, `RPCopy` (225-228) the `copy_to_user` of the context it found.
- `ContextFromPid` is `context_from_pid` (19-23): it finds only a live task,
  and takes no reference on its credential.
- `Fork` and `Exit` are the context copy and free from the spec.

Secrecy and integrity go through identical code, so the runs use
`Dimensions = {"secrecy"}`. With this, the 6 kinds become 3: the label and its
positive and negative privilege.

## Module `ProvFile` (with `MCProvFile`)

**State.**
- `iprov[i]` is the inode's node pointer (`inode_get_provenance`).
- `nodes[s]` is the node pool: used, owner inode, tracked, name_recorded and
  version.
- `ilive` is the set of inodes that exist.
- `log` is the sequence of recorded edges.
- `th[t]` is each thread's hook in progress: the remaining steps `prog`, the
  inode, the mask or prot, and the node read by the name check.
- `faults` is the set of sites where a NULL node was dereferenced.
- `calls` bounds the number of hook calls.

**Actions.** A hook call (`InodePermission`, `FilePermission`, `FileOpen`,
`MmapFile`, `FileIoctl`) puts the hook's steps into `prog`, in the order the
code runs them. The steps are:
- `AllocCheck` and `AllocDo`: the "alloc provenance if none there" repair, with
  the test and the allocation as separate steps.
- `NameCheck` and `NameDo`: `provenance_record_file_name`, with the test of
  `name_recorded` and its setting as separate steps.
- `PermEdges`, `OpenEdge`, `MmapEdges` and `IoctlEdges`: the edge recording at
  the end of each hook. Each re-reads `iprov` as the code does.

`InodeAllocSecurity` and `InodeFreeSecurity` are the lifecycle hooks. An
allocation can fail with -ENOMEM at any call. A NULL dereference is recorded in
`faults` and ends the hook.

### Versions

`FileIoctl` bumps two versions with `prov_update_version`, a plain
increment. The step `IoctlEdges` records ED_WRITE and loads the inode node's
version into the thread (`th[t].ver`). `IoctlBump` stores the loaded value
plus one, records ED_READ and bumps the task's version (`tver`). Two threads
can interleave between the load and the store.

## Module `ProvTask` (with `MCProvTask`)

**State.**
- `alive` and `cur[t]` are the tasks and the credential each runs with.
- `credLive` is the set of credentials still referenced.
- `clab[c]` says whether a credential's IFC context is labelled.
- `pending[p]` is the blank credential that keyctl queued for parent `p`.
- `prov[o]` is the node slot of a credential, message or segment, or NULL.
- `nodes[n]` is a node: in use, id, tracked. `nextId` is the next
  ASSIGN_NODE_ID.
- `mstate`, `slive` and `olab` are the messages, the segments and their IFC
  state at allocation.
- `log` holds the edges, with endpoints by node id. An executable's inode
  node is the file itself, or NULL for the files in `MissingFiles`.
- `faults` holds the NULL dereferences.

**Actions.**
- `Clone` is fork: `cred_prepare` records ED_FORK.
- `Setuid` is `cred_prepare` then `task_fix_setuid` (ED_CHANGE), then commit.
- `Exec` is `cred_prepare` then `bprm_committing_creds`. It records
  ED_CREATE from the old cred and from the executable's inode node.
  `PrepareCommit` is the part these three share. `commit_creds` puts the old
  credential, and `keep` says whether another reference keeps it alive until
  `Release` (`cred_free`).
- `KeyctlToParent` is `cred_alloc_blank`, and -ENOMEM fails the call.
  `JoinSession` is `cred_transfer` followed by the commit in the parent. It
  copies the whole node, id included.
- `Exit` puts the task's credential.
- `MsgSnd` is `msg_msg_alloc_security` (`AllocIpc`) followed by `msgsnd`.
  `MsgRcv` and `MsgFree` are the receive and the free.
- `ShmGet`, `ShmAt` and `ShmFree` are the segment hooks.
- `AllocIpc` keeps the inverted `if(!ifc)`. A task without an IFC context
  (`IfcStates` contains "none") oopses. Otherwise the new node is never
  tracked.

`Init` is the state after `cred_init_provenance`: the init task's credential
has a node with the first id, and that node is not tracked, because the
function sets no `tracked` flag and the init credential carries no label.

Which free slot, credential or task the host hands out is immaterial, so
`CHOOSE` picks it.

## Module `ProvTaskIfc` (with `MCProvTaskIfc`): IFC labels and cred nodes

`ProvTaskIfc` EXTENDS `ProvTask` and adds one action, `WriteSelf(t, b)`:
`ifc_write_self` by task `t`. The handler edits the context of
`current_ifc()`, the credential `t` already runs with, in place (fs.c:30,
45-84), and no provenance hook runs. The only part of that context the
provenance hooks read is `ifc_is_labelled`, so the write is modelled by its
effect on `clab[cur[t]]`: an add makes it labelled, a remove may make it
unlabelled, either may fail and leave it. `SpecIfc` is `Init /\
[][Next \/ WriteSelf]_vars`; task_core checks it, so the graph properties
and the refinement hold with relabelling in the mix.

`provenance_cred_prepare` reads the label once (hooks.c:96-99). So after a
`WriteSelf`, the task's node keeps the `tracked` flag of the old label until
the task next prepares a credential: a child forked after the write is
tracked, its parent is not. The init task's node, from
`cred_init_provenance`, is untracked in the same way. task_self_label shows this against
`ObjectTracked`. spec.md disagrees with itself here: l.57 calls `tracked` a
one-time snapshot, while l.54 and l.144 say it follows whether the object
currently carries a label.

## Module `ProvGraph`, and the refinements

`ProvGraph` is the abstract specification of what the hooks promise the
log (spec 3 (a) and (d), 4.4). Its state is the set `live` of node
identities carried by a node in use, the set `issued` of identities given
out so far, and the `log`. Its one action `Hook` is any hook: identities
appear and disappear, and edges are appended, subject to three rules:
- the log only grows (a record handed to the sink never changes);
- every new edge joins `Agents` (endpoints that are never allocated or
  freed) or identities live before or after the step;
- an identity that appears is new, or one a node in use already carries:
  an identity is never issued twice.

`ProvTask` and `ProvSocket` implement it, each with `Graph == INSTANCE ProvGraph WITH ...`
and the property `RefinesGraph == Graph!Spec`:
- **`ProvTask`** (run task_core). Identities are node ids, `issued` is
  `1..nextId-1`, and the executables' inode nodes are the agents.
  `cred_transfer` copying the parent's id is allowed (the id is live), but
  no free followed by an allocation can bring an id back.

`ProvFile` does not refine `ProvGraph`. An inode node's id is the inode
number (`set_node_id(iprov, inode->i_ino)`, hooks.c:160). The kernel reuses
inode numbers after eviction, and spec.md l.35 lets an id be a stable value
the host passes in, so "an id is issued once" is not a promise these hooks
make. The mapping held in earlier versions only because
`inode_free_security` never frees a node (hooks.c:191), which is the leak
that file_leak shows.

`ProvSocket` refines it as well. A sock node's id comes from
`set_node_id(skprov, ASSIGN_NODE_ID)` (hooks.c:588, counter `nextSk`), a
socket inode's from `set_node_id(iprov, inode->i_ino)` (hooks.c:160, with
sockfs numbering its inodes from `get_next_ino`: counter `nextIno`). The two
counters are independent, so an id is a pair `<<"sock", k>>` or
`<<"inode", k>>` (`SockId`, `InoId`). Tasks and the address record are the
agents. Slots are reused after `sk_free_security`, but ids are not. The
mutant `SkAllocIgnoreENOMEM` (a failed `sk_alloc_security` that lets the
socket go on) breaks the refinement with a NULL endpoint.

## Module `ProvSocket` (with `MCProvSocket`)

**State.**
- `sstate[s]` is one of:
  - "none";
  - "open": a user socket;
  - "kern": a socket created with `kern` set;
  - "queued": the server-side sock that `unix_stream_connect` allocated and
    that waits on the listener's queue `queue[l]`.
- `sk[s]` and `ino[s]` are the sock node and the socket inode's node.
- `nodes[n]` records a node's id, tracked and name_recorded; `nextSk` and
  `nextIno` are the next sock node id and the next socket inode number.
- `log` holds the edges.

**Actions.**
- `SocketCreate` covers `sk_alloc_security`, the inode node and
  `socket_post_create` (nothing for `kern`).
- `Bind` and `Connect` share `BindConnect`: the opaque skip, -ENOMEM without
  a node, `record_address`, then the edge.
- `Listen` records ED_LISTEN.
- `SendMsg` and `RecvMsg` are the `inode_permission` edge on the socket inode.
- `UnixStreamConnect` allocates the server-side sock and records its three
  edges.
- `Accept` gives the queued sock its struct socket and records the two edges,
  using the inode nodes as the code does.
- `UnixMaySend` records ED_UNKNOWN.
- `Close` is `sk_free_security`. The socket inode's node is not freed (see
  `NoLeakedNode` in ProvFile).

The constant `Opaque` is the set of opaque tasks; the flag is set outside
src/.

## Module `ProvSb` (with `MCProvSb`)

A mount has two halves:
- `SbAlloc` (`sb_alloc_security`) creates the superblock node with a zero
  uuid.
- `KernMount` (`sb_kern_mount`) sets the uuid: the file system's `s_uuid` for
  the superblocks in `HasUuid`, a random one (fresh per mount) otherwise
  (`KernMountUuid`, hooks.c 875-883).

A further mount of a device whose superblock is already mounted is
`Remount`. `sget` hands back the existing superblock, so nothing is
allocated, but `mount_fs` calls `sb_kern_mount` on every mount, so the
uuid is written again. For a superblock without `s_uuid` that is a new
random value. Unmounting one of several mounts changes no provenance
state, so it is not an action. `SbFree` may free a superblock once its
inodes are evicted.

`InodeAlloc` copies the superblock node's uuid into the inode node (hooks.c
165-166). It can happen between the two halves, as `fill_super` does for the
root inode, or after them. `InodeFree` and `SbFree` are eviction and
unmount.

## Runs

| run | cfg | expect | shows |
|---|---|---|---|
| ifc_core | IfcFs.cfg | pass | No stored tag is 0, and a completed grant never changes a label set (TypeOK, NoInvalidTag, ProcessWriteKeepsLabels). |
| ifc_grant_refetch | IfcFs_grant.cfg | violation | A double fetch of `msg->tag` grants an unchecked tag (fs.c:181/183). |
| ifc_freed_target | IfcFs_freed.cfg | violation | The target exits between lookup and use, so `write_process` writes and `read_process` copies a freed context (fs.c:173, 225). |
| ifc_mint_privileges | IfcFs_mint.cfg | violation | spec.md l.117 (the minter holds all four privileges over a new tag, nobody else any) fails. TLC's trace: a privilege set of the caller is full, one add of `read_tag` fails and the others stay (fs.c:132-139). `write_self` claiming a privilege before the mint (fs.c:53) breaks the other half (IfcFs_exclusive.cfg). |
| file_seq | ProvFile_seq.cfg | pass | One thread, 385k states, every hook on inodes with and without a node: each inode node gets one name record, and it comes before any open edge on it (TypeOK, NameOnce, OpenNamed). With two threads both fail (ProvFile_namerace.cfg, ProvFile_allocrace.cfg). |
| file_null_deref | ProvFile_nullderef.cfg | violation | `file_permission` and `mmap_file` dereference a missing node (hooks.c:326, 370); the name capture does not check its allocations (293). |
| file_version_race | ProvFile_version.cfg | violation | Two ioctls interleave `prov_update_version` and a version goes back (hooks.c:411). |
| file_leak | ProvFile_leak.cfg | violation | The inverted `if(!prov)` frees only NULL, so every freed inode leaks its node (hooks.c:191). |
| task_core | ProvTask.cfg | pass | 1.6M states of `ProvTaskIfc`: fork, setuid, exec, keyctl join, exit, msg, shm and `/ifc/self` relabelling: every referenced cred has a node; every running cred id was introduced by an ED_FORK; the hooks implement `ProvGraph` (TypeOK, LiveCredHasNode, CredIdsIntroduced, RefinesGraph). |
| task_self_label | ProvTaskIfc_tracked.cfg | violation | A task labels its credential through `/ifc/self` and its node stays untracked (fs.c:45 against hooks.c:96-99; spec.md l.57 against l.54, l.144). |
| socket_core | ProvSocket.cfg | pass | 3.1M states of user and kernel sockets, one opaque task: the hooks implement `ProvGraph`: ids issued once, every edge on live nodes (TypeOK, RefinesGraph). |
| sb_uuid | ProvSb_uuid.cfg | violation | An inode node does not name its superblock's uuid: inodes allocated during `fill_super` copy it before `sb_kern_mount` sets it (hooks.c:166), and a remount redraws a random uuid under earlier inodes (hooks.c:882). |

Each property of a passing run has a mutant in `PROJECT.json`: a plausible
bug in the definition the property is about, which TLC must refute.

### Further counterexamples

These configurations are not listed as runs. Each checks one property that
TLC finds violated; the hazards in `PROJECT.json` point to them.

| cfg | property | what the counterexample shows |
|---|---|---|
| IfcFs_exclusive.cfg | MintExclusive | `write_self` claims a privilege on a tag number before it is minted, and a fork spreads it (fs.c:53). |
| ProvFile_namerace.cfg | NameOnce | Two threads both record the file name (hooks.c:291). |
| ProvFile_allocrace.cfg | OpenNamed | Concurrent repairs replace a named node with an unnamed one that is then opened (hooks.c:216-219, 347). |
| ProvFile_nulledge.cfg | NoNullEndpoint | The -ENOMEM of the repair is ignored, and an edge gets a NULL endpoint (hooks.c:218). |
| ProvTask_dupid.cfg | UniqueIds | `cred_transfer` copies the node id, so two live nodes share it (hooks.c:120). |
| ProvTask_execnull.cfg | RefinesGraph | Exec of a file whose inode has no node records a NULL endpoint (hooks.c:843). |
| ProvTask_ifcnull.cfg | NoNullDeref | A task without an IFC context oopses in msg/shm alloc (hooks.c:443, 527). |
| ProvTask_untracked.cfg | ObjectTracked | A labelled task's message is never tracked (the inverted `if(!ifc)`, hooks.c:443, 527). |
| ProvSocket_address.cfg | AddressCaptured | No bind or connect records an address, because socket nodes are never tracked (hooks.c:646; spec scenario 4). |
| ProvSocket_opaque.cfg | OpaqueSilent | An opaque task's create, listen and send edges are recorded (hooks.c:636, 719, 733; spec.md l.35). |
| ProvSocket_accept.cfg | AcceptOnSockNodes | accept's edges use the socket inode nodes (hooks.c:761-762; spec.md l.86). |
| ProvSb_remount.cfg | SbUuidStable | A second mount of a device without `s_uuid` gives its mounted superblock a new random uuid (hooks.c:882). |

## Bounds

**IfcFs.**
- Two processes (`p1`, the init process that never exits, and `p2`).
- `MaxGen = 1`, so pid `p2` can be reused once.
- `TagCap = 1`, so a second distinct tag in one set is refused. This is the
  capacity failure that `ReadTag` must handle.
- `MaxTag` is 1 in the passing run and 2 in the violation runs, which need a
  second tag to rewrite the buffer to or to pre-claim.

**ProvFile.**
- One or two threads, one or two inodes, two node slots.
- `MaxCalls` is 3 or 4 hook calls.
- `MissingAtInit` is the inodes that exist without a node. This is the state
  after a failed allocation at creation.

**ProvTask.**
- Two tasks, three credentials, one message, one segment, one executable.
- Four node slots and `MaxCalls = 6`, which is enough for:
  - keyctl, join, and both commits with the old credential kept alive;
  - a fork followed by IPC;
  - the pool running out, so -ENOMEM happens.
- `IfcStates = {"plain", "labelled"}` in the passing run. The counterexample
  configs narrow it to show one branch.

**ProvSocket.**
- Two tasks (`u2` opaque), three sockets and six node slots, with
  `MaxCalls = 6`.
- A unix connection needs 4 calls (two socket() calls, the connect and the
  accept) and 5 slots. The sixth slot and call let an allocation fail or a
  close free a node for reuse.

**ProvSb.**
- Two superblocks, one with a file system uuid, and two inodes.
- Three mounts: enough to mount a superblock, remount it and mount the
  other, or to mount one superblock twice in a row.

Every race the runs show takes two threads (or two processes) and at most
four calls.

## Fairness

No run checks a liveness property, so no fairness is assumed. Every hook
runs to completion in the calling thread (spec §5), and no step of a hook
waits for another: `AllocDo` gives up on -ENOMEM instead of retrying. A
property that every call returns would therefore hold of any model in
which a thread's steps run in order, and would say nothing about the code.

All runs check safety. Bounded calls end in the `Finished` stutter step, so
deadlock checking stays on.

## Not modelled

- **Hook registration** (hooks.c 887-949). It runs once at boot, with a
  single thread, and no property is about it. The hook table only gives the
  set of entry points the actions model.
- **`ifc_read_self` and `ifc_write_tag`.** They change no kernel state:
  the first copies the caller's own context (which cannot be freed under
  it), the second returns -EPERM.
- **`inode_link`.** Its whole body is commented out; the hook returns 0.
- **Relay buffering of the log, and losing records when it is full.** This
  is outside src/ and the spec says nothing about it.
- **The address-capture race at hooks.c:646.** It cannot happen, because no
  socket node is ever tracked.
- **Sockets from `accept` on non-unix families.** They are treated like unix
  stream connections: the sock is allocated at connect time and queued on the
  listener.

## Plan

1. Composition of `ProvFile` and `ProvSb`, so that the inode nodes the file
   hooks repair also copy the superblock uuid.
