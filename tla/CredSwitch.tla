----------------------------- MODULE CredSwitch -----------------------------
(***************************************************************************)
(* The per-request identity switch of the NFS server (auth_clnt.c,         *)
(* nfs_dispatch.c, nfsd.c:auth_fh, fh.c:fh_buildpath).                     *)
(*                                                                         *)
(* The process keeps a cache of the identity it last installed (auth_uid,  *)
(* auth_gid, auth_gids/auth_gidlen) and only issues setfsuid/setfsgid/     *)
(* setgroups (or seteuid/setegid/setgroups) when the cache differs from    *)
(* the request's mapped credential.  auth_override_uid changes the kernel  *)
(* uid without touching the cache.  The kernel identity is fsuid, fsgid,   *)
(* kgroups; in the seteids flavour fsuid stands for the effective uid.     *)
(***************************************************************************)
EXTENDS Integers, Sequences

CONSTANTS
    ROOT_UID, ROOT_GID,     \* 0
    NobodyUid, NobodyGid,   \* mp->o.nobody_uid / nobody_gid
    Uids, Gids,             \* client uids / gids that requests carry
    GidLists,               \* supplementary gid lists (length <= NGRPS)
    NGRPS,
    Mounts,                 \* exports a request may resolve to
    RootSquash, AllSquash,  \* mounts with root_squash / all_squash
    InitGroups,             \* supplementary groups of the daemon at start
    Builds,                 \* {"setfsids"} (HAVE_SETFSUID), {"seteids"}, or both
    NoGroups, NoRequest     \* model values: auth_gidlen = -1; no request

ASSUME /\ RootSquash \subseteq Mounts /\ AllSquash \subseteq Mounts
       /\ Builds \subseteq {"setfsids", "seteids"}
       /\ \A l \in GidLists : Len(l) <= NGRPS

VARIABLES
    pc,         \* where the single server thread is in nfs_dispatch
    req,        \* the request being served
    fsuid,      \* kernel fs (or effective) uid
    fsgid,      \* kernel fs (or effective) gid
    kgroups,    \* kernel supplementary groups
    auth_uid,   \* cached identity (auth_clnt.c:31-34)
    auth_gid,
    auth_gids,  \* NoGroups while auth_gidlen = -1
    build       \* how the server was compiled: fixed for a whole run

vars == <<pc, req, fsuid, fsgid, kgroups, auth_uid, auth_gid, auth_gids, build>>

Creds ==
    [flavor : {"unix"}, uid : Uids, gid : Gids, gids : GidLists]
        \cup [flavor : {"null"}]

\* rootskip: a CHK_ROOT call (getattr, statfs) on the export root itself,
\* for which auth_fh does not call auth_user (nfsd.c:177-178).
Requests == [cred : Creds, mount : Mounts, rootskip : BOOLEAN]

LocalUids == Uids \cup {NobodyUid}
LocalGids == Gids \cup {NobodyGid}

(* luid/lgid under the identity map (ugid_map.c): root squash tests the   *)
(* mapped uid but the unmapped gid.                                        *)
luid(u, m) ==
    IF (u = ROOT_UID /\ m \in RootSquash) \/ m \in AllSquash
    THEN NobodyUid ELSE u

lgid(g, m) ==
    IF (g = ROOT_GID /\ m \in RootSquash) \/ m \in AllSquash
    THEN NobodyGid ELSE g

\* auth_user: squash when all_squash or the flavour is not AUTH_UNIX.
Squashed(r) == r.mount \in AllSquash \/ r.cred.flavor # "unix"

MappedUid(r) == IF Squashed(r) THEN NobodyUid ELSE luid(r.cred.uid, r.mount)
MappedGid(r) == IF Squashed(r) THEN NobodyGid ELSE lgid(r.cred.gid, r.mount)
MappedGids(r) ==
    IF Squashed(r) THEN <<NobodyGid>>
    ELSE [i \in 1..Len(r.cred.gids) |-> lgid(r.cred.gids[i], r.mount)]

Init ==
    /\ pc = "idle"
    /\ req = NoRequest
    /\ fsuid = ROOT_UID
    /\ fsgid = ROOT_GID
    /\ kgroups = InitGroups
    /\ auth_uid = ROOT_UID
    /\ auth_gid = ROOT_GID
    /\ auth_gids = NoGroups
    /\ build \in Builds

(* auth_override_uid(uid): the kernel uid changes, auth_uid does not.      *)
auth_override_uid(u) == fsuid' = u

(* Mutants of setfsids, used to test the properties below. *)
\* mutant: memcmp dropped: the groups are reinstalled only when the length changes.
setfsids_lencmp(u, g, gs) ==
    /\ fsuid' = u /\ fsgid' = g /\ auth_uid' = u /\ auth_gid' = g
    /\ IF auth_gids = NoGroups \/ Len(auth_gids) # Len(gs)
       THEN kgroups' = gs /\ auth_gids' = gs
       ELSE UNCHANGED <<kgroups, auth_gids>>

\* mutant: memcpy of cred_len + 1 gids into the cache.
setfsids_memcpy(u, g, gs) ==
    /\ fsuid' = u /\ fsgid' = g /\ auth_uid' = u /\ auth_gid' = g
    /\ IF auth_gids # gs THEN kgroups' = gs /\ auth_gids' = gs \o <<g>>
                         ELSE UNCHANGED <<kgroups, auth_gids>>

\* mutant: the extension hooks defined as efs_noop, like efs_init in
\* extensions.h: only the cache-guarded setfsuid/setfsgid remain.
setfsids_nohook(u, g, gs) ==
    /\ IF auth_uid # u THEN fsuid' = u /\ auth_uid' = u
                       ELSE UNCHANGED <<fsuid, auth_uid>>
    /\ IF auth_gid # g THEN fsgid' = g /\ auth_gid' = g
                       ELSE UNCHANGED <<fsgid, auth_gid>>
    /\ IF auth_gids # gs THEN kgroups' = gs /\ auth_gids' = gs
                         ELSE UNCHANGED <<kgroups, auth_gids>>

(* setfsids: the extension hooks efs_setfsuid/efs_setfsgid are setfsuid  *)
(* and setfsgid (extensions.h:18-19) and run before the cache tests, so   *)
(* the fs ids are always the request's; the tests then only decide       *)
(* whether to call setfsuid/setfsgid again and update auth_uid/auth_gid.  *)
(* Calls from a root process cannot fail.  setgroups is cache-guarded.    *)
setfsids(u, g, gs) ==
    /\ fsuid' = u /\ fsgid' = g
    /\ auth_uid' = u /\ auth_gid' = g
    /\ IF auth_gids # gs THEN kgroups' = gs /\ auth_gids' = gs
                         ELSE UNCHANGED <<kgroups, auth_gids>>

\* mutant: seteids without regaining root before setegid/setgroups.
seteids_noregain(u, g, gs) ==
    LET gOK  == auth_gid # g /\ (fsuid = ROOT_UID \/ g = ROOT_GID)
        gsOK == auth_gids # gs /\ fsuid = ROOT_UID
    IN /\ fsgid'     = IF gOK THEN g ELSE fsgid
       /\ auth_gid'  = IF gOK THEN g ELSE auth_gid
       /\ kgroups'   = IF gsOK THEN gs ELSE kgroups
       /\ auth_gids' = IF gsOK THEN gs ELSE auth_gids
       /\ fsuid'     = IF auth_uid # u THEN u ELSE fsuid
       /\ auth_uid'  = IF auth_uid # u THEN u ELSE auth_uid

\* mutant: memcpy of cred_len + 1 gids into the cache.
seteids_memcpy(u, g, gs) ==
    LET a1   == IF auth_gid # g /\ auth_uid # ROOT_UID THEN ROOT_UID ELSE auth_uid
        e1   == IF auth_gid # g /\ auth_uid # ROOT_UID THEN ROOT_UID ELSE fsuid
        gOK  == auth_gid # g /\ (e1 = ROOT_UID \/ g = ROOT_GID)
        a2   == IF auth_gids # gs /\ a1 # ROOT_UID THEN ROOT_UID ELSE a1
        e2   == IF auth_gids # gs /\ a1 # ROOT_UID THEN ROOT_UID ELSE e1
        gsOK == auth_gids # gs /\ e2 = ROOT_UID
    IN /\ fsgid'     = IF gOK THEN g ELSE fsgid
       /\ auth_gid'  = IF gOK THEN g ELSE auth_gid
       /\ kgroups'   = IF gsOK THEN gs ELSE kgroups
       /\ auth_gids' = IF gsOK THEN gs \o <<g>> ELSE auth_gids
       /\ fsuid'     = IF a2 # u THEN u ELSE e2
       /\ auth_uid'  = IF a2 # u THEN u ELSE a2

(* seteids: auth_user takes this flavour only when setfsuid(0) failed at  *)
(* start-up (have_setfsuid = 0, auth_init.c:576), so its extension hooks  *)
(* efs_setfsuid/efs_setfsgid fail and change nothing.  It regains euid 0  *)
(* (the real uid is 0, so seteuid never fails)                            *)
(* before setegid and setgroups, then drop to the target uid last.        *)
(* setegid needs euid 0 unless the gid is the real gid 0; setgroups       *)
(* needs euid 0.  A failing call leaves the cache as it was.              *)
seteids(u, g, gs) ==
    LET needG  == auth_gid # g
        a1     == IF needG /\ auth_uid # ROOT_UID THEN ROOT_UID ELSE auth_uid
        e1     == IF needG /\ auth_uid # ROOT_UID THEN ROOT_UID ELSE fsuid
        gOK    == needG /\ (e1 = ROOT_UID \/ g = ROOT_GID)
        needGs == auth_gids # gs
        a2     == IF needGs /\ a1 # ROOT_UID THEN ROOT_UID ELSE a1
        e2     == IF needGs /\ a1 # ROOT_UID THEN ROOT_UID ELSE e1
        gsOK   == needGs /\ e2 = ROOT_UID
    IN /\ fsgid'     = IF gOK THEN g ELSE fsgid
       /\ auth_gid'  = IF gOK THEN g ELSE auth_gid
       /\ kgroups'   = IF gsOK THEN gs ELSE kgroups
       /\ auth_gids' = IF gsOK THEN gs ELSE auth_gids
       /\ fsuid'     = IF a2 # u THEN u ELSE e2
       /\ auth_uid'  = IF a2 # u THEN u ELSE a2

SetIds(u, g, gs) ==
    IF build = "setfsids" THEN setfsids(u, g, gs) ELSE seteids(u, g, gs)

(* auth_user: install the request's mapped credential.                    *)
auth_user(r) == SetIds(MappedUid(r), MappedGid(r), MappedGids(r))

-----------------------------------------------------------------------------
(* nfs_dispatch: reset to root, then decode and run the handler.          *)
Dispatch ==
    /\ pc = "idle"
    /\ auth_override_uid(ROOT_UID)
    /\ \E r \in Requests : req' = r
    /\ pc' = "find"
    /\ UNCHANGED <<fsgid, kgroups, auth_uid, auth_gid, auth_gids>>

(* A call that never reaches auth_fh: procedure out of range, undecodable *)
(* arguments, or the NULL procedure.                                       *)
DispatchNoAuth ==
    /\ pc = "idle"
    /\ auth_override_uid(ROOT_UID)
    /\ UNCHANGED <<pc, req, fsgid, kgroups, auth_uid, auth_gid, auth_gids>>

(* fh_find hits the cache: no identity change.                            *)
FindCached ==
    /\ pc = "find"
    /\ pc' = "auth"
    /\ UNCHANGED <<req, fsuid, fsgid, kgroups, auth_uid, auth_gid, auth_gids>>

(* fh_find misses and fh_buildpath walks the tree as root, then restores  *)
(* auth_override_uid(auth_uid) on its way out.                             *)
FindRebuild ==
    /\ pc = "find"
    /\ auth_override_uid(auth_uid)
    /\ pc' = "auth"
    /\ UNCHANGED <<req, fsgid, kgroups, auth_uid, auth_gid, auth_gids>>

(* fh_find returns NULL (stale handle), or auth_fh refuses the caller     *)
(* (unknown client, no mount, noaccess, read-only): reply and finish.     *)
AuthFail ==
    /\ pc \in {"find", "auth"}
    /\ pc' = "idle"
    /\ UNCHANGED <<req, fsuid, fsgid, kgroups, auth_uid, auth_gid, auth_gids>>

(* auth_fh ends with auth_user, except for CHK_ROOT on the export root.   *)
AuthUser ==
    /\ pc = "auth"
    /\ IF req.rootskip THEN UNCHANGED <<fsuid, fsgid, kgroups, auth_uid,
                                        auth_gid, auth_gids>>
                       ELSE auth_user(req)
    /\ pc' = "op"
    /\ UNCHANGED req

(* Mid-handler privilege bracket: path_psi, path_open's EACCES retry and  *)
(* devtab_index run as root and restore auth_override_uid(auth_uid).      *)
Reassume ==
    /\ pc = "op"
    /\ ~req.rootskip
    /\ auth_override_uid(auth_uid)
    /\ UNCHANGED <<pc, req, fsgid, kgroups, auth_uid, auth_gid, auth_gids>>

(* build_path calls auth_user again after auth_fh on the directory.       *)
AuthUserAgain ==
    /\ pc = "op"
    /\ ~req.rootskip
    /\ auth_user(req)
    /\ UNCHANGED <<pc, req>>

(* The handler's syscall runs, the reply is sent, dirty is cleared.       *)
Serve ==
    /\ pc = "op"
    /\ pc' = "idle"
    /\ UNCHANGED <<req, fsuid, fsgid, kgroups, auth_uid, auth_gid, auth_gids>>

Step ==
    \/ Dispatch \/ DispatchNoAuth
    \/ FindCached \/ FindRebuild \/ AuthFail
    \/ AuthUser \/ Reassume \/ AuthUserAgain \/ Serve

Next == Step /\ UNCHANGED build

Spec == Init /\ [][Next]_vars

-----------------------------------------------------------------------------
TypeOK ==
    /\ pc \in {"idle", "find", "auth", "op"}
    /\ build \in Builds
    /\ req \in Requests \cup {NoRequest}
    /\ fsuid \in LocalUids /\ auth_uid \in LocalUids
    /\ fsgid \in LocalGids /\ auth_gid \in LocalGids
    /\ kgroups \in Seq(LocalGids) /\ Len(kgroups) <= NGRPS
    /\ auth_gids = NoGroups
       \/ (auth_gids \in Seq(LocalGids) /\ Len(auth_gids) <= NGRPS)

(* Spec 4.I: the syscall that serves a request runs with the request's    *)
(* mapped uid, gid and groups (root for a CHK_ROOT call on the export     *)
(* root).  auth_user skips setfsuid when auth_uid already equals the      *)
(* mapped uid, although nfs_dispatch has reset the kernel uid to root.    *)
IdentityAtSyscall ==
    pc = "op" =>
        IF req.rootskip THEN fsuid = ROOT_UID
        ELSE /\ fsuid = MappedUid(req)
             /\ fsgid = MappedGid(req)
             /\ kgroups = MappedGids(req)

(* The group half of the identity is always right at the syscall: the     *)
(* cache-skip in setfsids/seteids is sound for gids because nothing but   *)
(* auth_user changes the kernel gid and groups, and in seteids root is    *)
(* regained before setegid/setgroups whatever the cached uid says.        *)
GroupsAtSyscall ==
    (pc = "op" /\ ~req.rootskip) =>
        /\ fsgid = MappedGid(req)
        /\ kgroups = MappedGids(req)

(* The uid at the syscall of a request that went through auth_user is   *)
(* the request's mapped uid, across fh_buildpath's and path_open's        *)
(* restores of auth_override_uid(auth_uid); the one exception is the      *)
(* seteids flavour, whose uid cache-skip (auth_clnt.c:327) leaves the     *)
(* root that nfs_dispatch installed.  A CHK_ROOT call on the export root  *)
(* skips auth_user and is left to IdentityAtSyscall.                      *)
UidAtSyscall ==
    (pc = "op" /\ ~req.rootskip) =>
        \/ fsuid = MappedUid(req)
        \/ build = "seteids" /\ fsuid = ROOT_UID

=============================================================================
