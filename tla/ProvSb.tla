-------------------------------- MODULE ProvSb --------------------------------
(***************************************************************************)
(* Superblock provenance, security/provenance/hooks.c: sb_alloc_security, *)
(* sb_free_security, sb_kern_mount, and the copy of the superblock uuid   *)
(* into every inode node by inode_alloc_security.                         *)
(*                                                                         *)
(* A mount allocates the superblock (sb_alloc_security), lets the file    *)
(* system fill it, which allocates inodes (the root at least), and only   *)
(* then calls sb_kern_mount.  A later mount of the same device finds the *)
(* superblock mounted (sget) and mount_fs calls sb_kern_mount on it again.*)
(* Unmount frees the inodes, then the                                      *)
(* superblock.  A uuid is the value Zero, the file system's own uuid      *)
(* FsUuid[sb], or a random one drawn at a mount (a fresh value); a failed *)
(* allocation fails the host's operation, which changes nothing.          *)
(***************************************************************************)
EXTENDS Naturals

CONSTANTS
    Sbs,      \* superblocks
    Inodes,   \* inodes, each of which may belong to any superblock
    HasUuid,  \* the superblocks whose file system fills s_uuid
    MaxMounts \* bound on mounts

ASSUME /\ HasUuid \subseteq Sbs
       /\ MaxMounts \in Nat \ {0}

Zero == 0
\* the file system's s_uuid of sb, written as the model value sb
FsUuid(sb) == sb
\* get_random_bytes at the m-th mount (a fresh value)
RandUuid(m) == m
Uuids == {Zero} \cup Sbs \cup 1..MaxMounts
NoProv == [set |-> FALSE, uuid |-> Zero]

\* the uuid provenance_sb_kern_mount writes at the m-th mount: s_uuid, or
\* a random one when s_uuid is all zero
KernMountUuid(sb, m) == IF sb \in HasUuid THEN FsUuid(sb) ELSE RandUuid(m)

VARIABLES
    sbstate, \* "none", "filling" (before sb_kern_mount) or "mounted"
    sbprov,  \* sbprov[sb]: whether sb->s_provenance is set, and its uuid
    iof,     \* iof[i]: the superblock of a live inode, or "none"
    iuuid,   \* iuuid[i]: inode_info.sb_uuid of the inode's node
    mno,     \* mno[sb]: the number of the last mount of sb
    mounts

vars == <<sbstate, sbprov, iof, iuuid, mno, mounts>>

Init ==
    /\ sbstate = [sb \in Sbs |-> "none"]
    /\ sbprov = [sb \in Sbs |-> NoProv]
    /\ iof = [i \in Inodes |-> "none"]
    /\ iuuid = [i \in Inodes |-> Zero]
    /\ mno = [sb \in Sbs |-> 0]
    /\ mounts = 0

\* mount, first half: alloc_super calls provenance_sb_alloc_security; the
\* node is zeroed, so its uuid is Zero
SbAlloc(sb) ==
    /\ sbstate[sb] = "none" /\ mounts < MaxMounts
    /\ sbprov' = [sbprov EXCEPT ![sb] = [set |-> TRUE, uuid |-> Zero]]
    /\ sbstate' = [sbstate EXCEPT ![sb] = "filling"]
    /\ mno' = [mno EXCEPT ![sb] = mounts + 1]
    /\ mounts' = mounts + 1
    /\ UNCHANGED <<iof, iuuid>>

\* provenance_inode_alloc_security for an inode of sb: the node copies
\* sb->s_provenance->sb_info.uuid (during fill_super or after the mount)
InodeAlloc(i, sb) ==
    /\ iof[i] = "none" /\ sbstate[sb] # "none"
    /\ iof' = [iof EXCEPT ![i] = sb]
    /\ iuuid' = [iuuid EXCEPT ![i] = sbprov[sb].uuid]
    /\ UNCHANGED <<sbstate, sbprov, mno, mounts>>

\* mount, second half: provenance_sb_kern_mount on the superblock just
\* filled
KernMount(sb) ==
    /\ sbstate[sb] = "filling"
    /\ sbprov' = [sbprov EXCEPT ![sb].uuid = KernMountUuid(sb, mno[sb])]
    /\ sbstate' = [sbstate EXCEPT ![sb] = "mounted"]
    /\ UNCHANGED <<iof, iuuid, mno, mounts>>

\* a further mount of a device whose superblock is mounted: sget returns
\* the existing superblock, nothing is allocated, and mount_fs calls
\* provenance_sb_kern_mount on it again
Remount(sb) ==
    /\ sbstate[sb] = "mounted" /\ mounts < MaxMounts
    /\ sbprov' = [sbprov EXCEPT ![sb].uuid = KernMountUuid(sb, mounts + 1)]
    /\ mno' = [mno EXCEPT ![sb] = mounts + 1]
    /\ mounts' = mounts + 1
    /\ UNCHANGED <<sbstate, iof, iuuid>>

\* eviction of an inode of a mounted sb (inode_free_security)
InodeFree(i) ==
    /\ iof[i] # "none" /\ sbstate[iof[i]] = "mounted"
    /\ iof' = [iof EXCEPT ![i] = "none"]
    /\ UNCHANGED <<sbstate, sbprov, iuuid, mno, mounts>>

\* unmount once every inode is evicted: provenance_sb_free_security frees
\* the node and clears s_provenance
SbFree(sb) ==
    /\ sbstate[sb] = "mounted" /\ \A i \in Inodes : iof[i] # sb
    /\ sbprov' = [sbprov EXCEPT ![sb] = NoProv]
    /\ sbstate' = [sbstate EXCEPT ![sb] = "none"]
    /\ UNCHANGED <<iof, iuuid, mno, mounts>>

\* every mount has happened and been undone
Finished ==
    /\ mounts = MaxMounts /\ \A sb \in Sbs : sbstate[sb] = "none"
    /\ UNCHANGED vars

Next ==
    \/ Finished
    \/ \E sb \in Sbs : SbAlloc(sb) \/ KernMount(sb) \/ Remount(sb) \/ SbFree(sb)
    \/ \E i \in Inodes : InodeFree(i) \/ \E sb \in Sbs : InodeAlloc(i, sb)

Spec == Init /\ [][Next]_vars

-----------------------------------------------------------------------------
TypeOK ==
    /\ sbstate \in [Sbs -> {"none", "filling", "mounted"}]
    /\ sbprov \in [Sbs -> [set : BOOLEAN, uuid : Uuids]]
    /\ iof \in [Inodes -> Sbs \cup {"none"}]
    /\ iuuid \in [Inodes -> Uuids]
    /\ mno \in [Sbs -> 0..MaxMounts]
    /\ mounts \in 0..MaxMounts

\* spec.md l.57: a node takes its metadata from the host object at
\* allocation, so every live inode's node names the uuid of its mounted
\* superblock.  Broken both by an inode allocated during fill_super (before
\* sb_kern_mount sets the uuid) and by a remount that redraws the random
\* uuid under inodes allocated earlier.
InodeSbUuid ==
    \A i \in Inodes :
       (iof[i] # "none" /\ sbstate[iof[i]] = "mounted") => iuuid[i] = sbprov[iof[i]].uuid

\* A mounted superblock keeps the uuid sb_kern_mount first gave it: the
\* uuid is the identity its inodes' nodes carry (spec.md l.57).
SbUuidStable ==
    [][\A sb \in Sbs : sbstate[sb] = "mounted" /\ sbstate'[sb] = "mounted"
                        => sbprov'[sb].uuid = sbprov[sb].uuid]_vars
====
