-------------------------------- MODULE IfcFs --------------------------------
(***************************************************************************)
(* The IFC control plane of security/ifc/fs.c: the securityfs files        *)
(* /ifc/self (ifc_write_self), /ifc/tag (ifc_read_tag) and /ifc/process    *)
(* (ifc_write_process, ifc_read_process) acting on the ifc_context of each *)
(* process's credential.                                                   *)
(*                                                                         *)
(* The handlers dereference the user buffer `buf` directly, so msg->tag is *)
(* read from user memory each time the code names it; another thread of    *)
(* the caller may rewrite it in between (UserWrite).  ifc_write_process is *)
(* therefore split at the point where that matters: WPBegin does the       *)
(* validity check, the pid lookup and the privilege check, WPAdd re-reads  *)
(* msg->tag and writes the target's context.  No lock or RCU read section  *)
(* is held across the two, so the target may exit in between.              *)
(*                                                                         *)
(* The tag-set helpers (ifc_add_tag, ifc_add_privilege, ifc_contains_value,*)
(* ifc_create_tag) and the credential hooks that copy and free contexts    *)
(* live outside src/ and are modelled from the spec.                       *)
(***************************************************************************)
EXTENDS Naturals, FiniteSets

CONSTANTS
    Procs,      \* process identifiers (pids)
    InitProc,   \* the init task: it never exits
    MaxTag,     \* ifc_create_tag can mint the tags 1..MaxTag
    TagCap,     \* capacity of one tag set of an ifc_context
    MaxGen,     \* how many times a pid may be (re)used by a fork
    NoProc,     \* "no process"
    Dimensions  \* the label dimensions checked: "secrecy", "integrity"

ASSUME /\ InitProc \in Procs
       /\ NoProc \notin Procs
       /\ MaxTag \in Nat \ {0}
       /\ TagCap \in Nat \ {0}
       /\ MaxGen \in Nat
       /\ Dimensions \in SUBSET {"secrecy", "integrity"} \ {{}}

NoTag   == 0                       \* the value ifc_tag_valid rejects
Tags    == 1..MaxTag
TagVals == {NoTag} \cup Tags       \* what the user may put in msg->tag

\* IFC_SECRECY, IFC_INTEGRITY and their privilege kinds IFC_*_P, IFC_*_N.
\* Every handler treats the two dimensions alike, so a run may check one.
PrivOf     == [secrecy   |-> {"secrecy_p", "secrecy_n"},
               integrity |-> {"integrity_p", "integrity_n"}]
Labels     == Dimensions
Privileges == UNION {PrivOf[d] : d \in Dimensions}
Kinds      == Labels \cup Privileges
Ops        == {"add", "remove"}    \* IFC_ADD_TAG and anything else

VARIABLES
    ctx,      \* ctx[p][k]: tag set k of the ifc_context of p's credential
    alive,    \* processes whose task and credential exist
    gen,      \* gen[p]: incarnation of pid p (bumped by every fork into p)
    nextTag,  \* the counter behind ifc_create_tag
    issued,   \* issued[t]: the process whose read of /ifc/tag minted t
    ubuf,     \* ubuf[p]: msg->tag in the user buffer of p's pending write
    req,      \* req[p]: p's write to /ifc/process between check and add;
              \* .checked records the msg->tag the privilege check read
    freedUses \* accesses that reached the context of an exited credential

vars == <<ctx, alive, gen, nextTag, issued, ubuf, req, freedUses>>

Idle == [pc |-> "idle", kind |-> CHOOSE k \in Privileges : TRUE,
         target |-> InitProc, tgen |-> 0, checked |-> NoTag]

EmptyContext == [k \in Kinds |-> {}]

-----------------------------------------------------------------------------
(* Tag sets (spec 3 and 4.2): bounded, no duplicates, sentinel rejected.   *)

\* mutant: the sentinel check of ifc_add_privilege left out
AddOkNoSentinel(set, t) == t \in set \/ Cardinality(set) < TagCap

\* ifc_add_tag / ifc_add_privilege succeed on this set and tag
AddOk(set, t) == t # NoTag /\ (t \in set \/ Cardinality(set) < TagCap)

\* the set after ifc_add_tag / ifc_add_privilege (unchanged on failure)
AddTag(set, t) == IF AddOk(set, t) THEN set \cup {t} ELSE set

\* the set after ifc_remove_tag / ifc_remove_privilege
RemoveTag(set, t) == set \ {t}

\* context_from_pid: find_task_by_vpid finds q only while its task exists;
\* the context is then read through __task_cred without a reference
ContextFromPid(q) == q \in alive

-----------------------------------------------------------------------------
Init ==
    /\ ctx = [p \in Procs |-> EmptyContext]
    /\ alive = {InitProc}
    /\ gen = [p \in Procs |-> 0]
    /\ nextTag = 1
    /\ issued = [t \in Tags |-> NoProc]
    /\ ubuf = [p \in Procs |-> NoTag]
    /\ req = [p \in Procs |-> Idle]
    /\ freedUses = 0

\* Another thread of p rewrites msg->tag in the buffer of p's write to
\* /ifc/process while that write is in the kernel.
UserWrite(p, v) ==
    /\ req[p].pc = "add"
    /\ ubuf' = [ubuf EXCEPT ![p] = v]
    /\ UNCHANGED <<ctx, alive, gen, nextTag, issued, req, freedUses>>

\* ifc_write_self: add or remove tag t in set k of the caller's own context.
\* An invalid tag returns -EINVAL and changes nothing.
WriteSelf(p, op, k, t) ==
    /\ p \in alive
    /\ t # NoTag
    /\ ctx' = [ctx EXCEPT ![p][k] = IF op = "add" THEN AddTag(@, t)
                                                  ELSE RemoveTag(@, t)]
    /\ UNCHANGED <<alive, gen, nextTag, issued, ubuf, req, freedUses>>

\* mutant: ifc_create_tag hands out the counter without advancing it
ReadTagNoIncrement(p) ==
    /\ p \in alive
    /\ nextTag <= MaxTag
    /\ ctx' = [ctx EXCEPT ![p] = [k \in Kinds |->
                  IF k \in Privileges THEN AddTag(@[k], nextTag) ELSE @[k]]]
    /\ issued' = [issued EXCEPT ![nextTag] = p]
    /\ UNCHANGED <<nextTag, alive, gen, ubuf, req, freedUses>>

\* ifc_read_tag: mint a tag and add it to the privilege sets of the
\* caller; each add is done whatever the previous ones returned.
ReadTag(p) ==
    /\ p \in alive
    /\ nextTag <= MaxTag
    /\ ctx' = [ctx EXCEPT ![p] = [k \in Kinds |->
                  IF k \in Privileges THEN AddTag(@[k], nextTag) ELSE @[k]]]
    /\ issued' = [issued EXCEPT ![nextTag] = p]
    /\ nextTag' = nextTag + 1
    /\ UNCHANGED <<alive, gen, ubuf, req, freedUses>>

\* mutant: the switch of ifc_write_process also takes IFC_SECRECY and
\* IFC_INTEGRITY, checked against the caller's own label
WPBeginAnyKind(p, k, q, t) ==
    /\ p \in alive
    /\ req[p].pc = "idle"
    /\ t # NoTag
    /\ q \in alive
    /\ t \in ctx[p][k]
    /\ ubuf' = [ubuf EXCEPT ![p] = t]
    /\ req' = [req EXCEPT ![p] = [pc |-> "add", kind |-> k,
                                  target |-> q, tgen |-> gen[q],
                                  checked |-> t]]
    /\ UNCHANGED <<ctx, alive, gen, nextTag, issued, freedUses>>

\* ifc_write_process up to the privilege check: msg->tag is valid, the pid
\* resolves to a live task (context_from_pid), the op is IFC_ADD_TAG, the
\* kind is a privilege, and the caller holds that privilege over msg->tag.
\* Every other outcome returns an error and changes nothing.  t is what
\* the user buffer holds when the check reads it.
WPBegin(p, k, q, t) ==
    /\ p \in alive
    /\ req[p].pc = "idle"
    /\ t # NoTag
    /\ ContextFromPid(q)
    /\ k \in Privileges
    /\ t \in ctx[p][k]
    /\ ubuf' = [ubuf EXCEPT ![p] = t]
    /\ req' = [req EXCEPT ![p] = [pc |-> "add", kind |-> k,
                                  target |-> q, tgen |-> gen[q],
                                  checked |-> t]]
    /\ UNCHANGED <<ctx, alive, gen, nextTag, issued, freedUses>>

\* ifc_write_process, the add: msg->tag is read again and added to the
\* context found by the lookup.  If that credential has gone, the write
\* lands in freed memory.
WPAdd(p) ==
    /\ req[p].pc = "add"
    /\ LET q == req[p].target
           k == req[p].kind
       IN IF q \in alive /\ gen[q] = req[p].tgen
          THEN /\ ctx' = [ctx EXCEPT ![q][k] = AddTag(@, ubuf[p])]
               /\ UNCHANGED freedUses
          ELSE /\ freedUses' = freedUses + 1
               /\ UNCHANGED ctx
    /\ req' = [req EXCEPT ![p] = Idle]
    /\ ubuf' = [ubuf EXCEPT ![p] = NoTag]
    /\ UNCHANGED <<alive, gen, nextTag, issued>>

\* ifc_read_process up to the copy: context_from_pid finds the live task q;
\* a short buffer or an unknown pid returns an error and changes nothing.
RPBegin(p, q) ==
    /\ p \in alive
    /\ req[p].pc = "idle"
    /\ ContextFromPid(q)
    /\ req' = [req EXCEPT ![p] = [Idle EXCEPT !.pc = "read", !.target = q,
                                                !.tgen = gen[q]]]
    /\ UNCHANGED <<ctx, alive, gen, nextTag, issued, ubuf, freedUses>>

\* ifc_read_process, the copy_to_user of the context found by the lookup:
\* no reference was taken, so it reads freed memory if the target is gone.
RPCopy(p) ==
    /\ req[p].pc = "read"
    /\ freedUses' = IF req[p].target \in alive /\ gen[req[p].target] = req[p].tgen
                    THEN freedUses ELSE freedUses + 1
    /\ req' = [req EXCEPT ![p] = Idle]
    /\ UNCHANGED <<ctx, alive, gen, nextTag, issued, ubuf>>

\* fork: the new credential's context is a copy of the parent's.
Fork(p, q) ==
    /\ p \in alive
    /\ q \notin alive
    /\ gen[q] < MaxGen
    /\ alive' = alive \cup {q}
    /\ gen' = [gen EXCEPT ![q] = @ + 1]
    /\ ctx' = [ctx EXCEPT ![q] = ctx[p]]
    /\ req' = [req EXCEPT ![q] = Idle]
    /\ UNCHANGED <<nextTag, issued, ubuf, freedUses>>

\* exit: the task goes and its credential and context are freed.
Exit(p) ==
    /\ p \in alive \ {InitProc}
    /\ req[p].pc = "idle"
    /\ alive' = alive \ {p}
    /\ ctx' = [ctx EXCEPT ![p] = EmptyContext]
    /\ UNCHANGED <<gen, nextTag, issued, ubuf, req, freedUses>>

Next ==
    \/ \E p \in Procs, v \in TagVals : UserWrite(p, v)
    \/ \E p \in Procs, op \in Ops, k \in Kinds, t \in TagVals : WriteSelf(p, op, k, t)
    \/ \E p \in Procs : ReadTag(p)
    \/ \E p, q \in Procs, k \in Kinds, t \in TagVals : WPBegin(p, k, q, t)
    \/ \E p \in Procs : WPAdd(p)
    \/ \E p, q \in Procs : RPBegin(p, q)
    \/ \E p \in Procs : RPCopy(p)
    \/ \E p, q \in Procs : Fork(p, q)
    \/ \E p \in Procs : Exit(p)

Spec == Init /\ [][Next]_vars

-----------------------------------------------------------------------------
TypeOK ==
    /\ ctx \in [Procs -> [Kinds -> SUBSET TagVals]]
    /\ \A p \in Procs, k \in Kinds : Cardinality(ctx[p][k]) <= TagCap
    /\ alive \in SUBSET Procs /\ InitProc \in alive
    /\ gen \in [Procs -> 0..MaxGen]
    /\ nextTag \in 1..(MaxTag + 1)
    /\ issued \in [Tags -> Procs \cup {NoProc}]
    /\ \A t \in Tags : issued[t] # NoProc <=> t < nextTag
    /\ ubuf \in [Procs -> TagVals]
    /\ req \in [Procs -> [pc : {"idle", "add", "read"}, kind : Kinds,
                          target : Procs, tgen : 0..MaxGen,
                          checked : TagVals]]
    /\ freedUses \in Nat

\* The sentinel tag never enters a context, although ifc_write_process
\* re-reads msg->tag from user memory after validating it: the reject in
\* ifc_add_privilege is what keeps a rewritten 0 out.
NoInvalidTag ==
    \A p \in Procs, k \in Kinds : NoTag \notin ctx[p][k]

\* ifc_write_process grants a privilege only over the tag its privilege
\* check was made for (spec 4.2: the sole authorization check), also when
\* another thread rewrites msg->tag after the check.
GrantChecked ==
    [][\A p \in Procs :
         (req[p].pc = "add" /\ req'[p].pc = "idle"
           /\ ctx'[req[p].target] # ctx[req[p].target])
           => ubuf[p] = req[p].checked]_vars

\* ifc_write_process never changes a secrecy or integrity label, of the
\* target or of anyone: another process can only be given privileges, so no
\* process can taint or declassify another's labels directly.
ProcessWriteKeepsLabels ==
    [][\A p \in Procs :
         (req[p].pc = "add" /\ req'[p].pc = "idle")
           => \A q \in Procs, l \in Labels : ctx'[q][l] = ctx[q][l]]_vars

\* Neither ifc_write_process (the add) nor ifc_read_process (the copy to
\* user space) touches the context of a credential freed after
\* context_from_pid found it.
NoFreedContextUse == freedUses = 0

\* A freshly minted tag gives privilege to its minter only (spec 8): no
\* other live process holds any privilege over it right after the mint.
MintExclusive ==
    [][\A t \in Tags :
         (issued[t] = NoProc /\ issued'[t] # NoProc)
           => \A q \in alive' \ {issued'[t]}, k \in Privileges :
                 t \notin ctx'[q][k]]_vars

\* spec l.117: for a freshly minted tag, the minting process holds all four
\* privileges over it and no other process holds any.  ifc_read_tag ORs the
\* results of its four ifc_add_privilege calls and keeps the ones that
\* succeeded, and ifc_write_self lets anyone take a privilege on any valid
\* tag beforehand; either breaks it.
MintPrivileges ==
    [][\A t \in Tags :
         (issued[t] = NoProc /\ issued'[t] # NoProc)
           => /\ \A k \in Privileges : t \in ctx'[issued'[t]][k]
              /\ \A q \in alive' \ {issued'[t]}, k \in Privileges :
                    t \notin ctx'[q][k]]_vars
=============================================================================
