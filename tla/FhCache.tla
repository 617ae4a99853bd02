------------------------------ MODULE FhCache ------------------------------
(***************************************************************************)
(* The file-handle cache of nfsd (fh.c) driven by the NFS handlers that    *)
(* use it (nfsd.c) and by the dispatcher's deferred flush (nfs_dispatch.c, *)
(* fh.c:flush_cache).                                                      *)
(*                                                                         *)
(* A handle is its pseudo-inode psi (a model value).  The global LRU       *)
(* (fh_head/fh_tail list) is the sequence lru, head first; the descriptor  *)
(* LRU (fd_lru_head/fd_lru_tail) is fdlru.  fh_list_size and fd_cache_size *)
(* are the code's separate counters.  kfds is the set of descriptors the   *)
(* process has open; conns are those held by TCP connections.  The file    *)
(* system is the environment: whether an lstat, a path rebuild or an open *)
(* succeeds is a nondeterministic choice.  Paths, attributes and the       *)
(* client/mount hints are left out; an entry's path is always set        *)
(* outside fh_compose, so it is not a variable either.                     *)
(***************************************************************************)
EXTENDS Integers, SequencesExt, FiniteSets

CONSTANTS
    Handles,            \* psi values of files clients hold handles for
    Uids,               \* mapped uids requests run as
    FH_CACHE_LIMIT,
    FOPEN_MAX,          \* size of fd_cache[]
    CLOSE_INTERVAL, DISCARD_INTERVAL,
    MaxTime,            \* bound on curtime
    MaxFds,             \* RLIMIT_NOFILE: descriptors are 0 .. MaxFds-1
    InitFds,            \* descriptors open at start (RPC sockets)
    MaxConns,           \* bound on concurrently open TCP connections
    SpecialFiles,       \* psi values of device files and FIFOs
    ROOT_UID,           \* auth_uid before the first request
    NoUid,              \* model value: last_uid = (uid_t)-1
    NoRequest

FD_CACHE_LIMIT == (3 * FOPEN_MAX) \div 4

ASSUME /\ FH_CACHE_LIMIT \in Nat \ {0} /\ FOPEN_MAX \in Nat \ {0}
       /\ InitFds \subseteq 0..(MaxFds - 1) /\ SpecialFiles \subseteq Handles

Modes == {"RDONLY", "WRONLY", "RDWR"}
Kinds == {"getattr", "read", "write", "lookup", "create", "remove"}
Fds == 0..(MaxFds - 1)

VARIABLES
    lru, fh_list_size,      \* global LRU and its counter
    ent,                    \* per-psi fhcache fields
    fdlru, fd_cache_size,   \* descriptor LRU and its counter
    io_state,               \* "active" from fh_fd's open to fd_inactive
    kfds, conns,            \* open descriptors of the process
    curtime,
    need_flush,             \* flush_cache deferred while dispatching
    pc, req, tmpfd,         \* the request being served
    auth_uid

vars == <<lru, fh_list_size, ent, fdlru, fd_cache_size, io_state, kfds,
          conns, curtime, need_flush, pc, req, tmpfd, auth_uid>>

Entry == [fd : {-1} \cup Fds, omode : Modes \cup {"none"},
          last_uid : Uids \cup {NoUid}, last_used : 0..MaxTime]
NoEntry == [fd |-> -1, omode |-> "none", last_uid |-> NoUid, last_used |-> 0]

\* h is the handle the call authenticates; c the name it composes or
\* removes inside directory h (lookup, create, remove), else h itself.
Requests == {r \in [kind : Kinds, h : Handles, c : Handles, uid : Uids] :
                IF r.kind \in {"lookup", "create", "remove"} THEN r.c # r.h
                ELSE r.c = r.h}

Cached == ToSet(lru)

-----------------------------------------------------------------------------
(* Descriptor bookkeeping shared by fh_close, fh_delete, fh_flush_fds.    *)

\* The descriptors held by the entries in G.
FdsOf(G) == {ent[x].fd : x \in {y \in G : ent[y].fd >= 0}}

\* Mutant: fd_cache_size decremented for every closed entry, linked or not.
Linked_all(l, G) == Cardinality(G)

\* fh_unlink_fdcache decrements fd_cache_size only for a linked entry.
Linked(l, G) == Cardinality({x \in G : ent[x].fd >= 0 /\ x \in ToSet(l)})

\* fh_close on every entry of G: unlink, close(fd), fd = -1.
CloseFds(G) ==
    /\ fdlru' = SelectSeq(fdlru, LAMBDA x : x \notin G)
    /\ fd_cache_size' = fd_cache_size - Linked(fdlru, G)
    /\ kfds' = kfds \ FdsOf(G)

\* fh_insert_fdcache(h) on the list l with counter n: nothing when h is
\* already the head, else unlink if linked and push at the head.
InsFdLru(l, h) ==
    IF l # <<>> /\ Head(l) = h THEN l ELSE <<h>> \o Remove(l, h)
InsFdSize(l, n, h) ==
    IF l # <<>> /\ Head(l) = h THEN n
    ELSE IF h \in ToSet(l) THEN n ELSE n + 1

\* Mutant: flushing only once the cache is over the limit.
FlushFdsVictims_gt(l, n) ==
    IF io_state = "active" \/ n <= FD_CACHE_LIMIT THEN {}
    ELSE ToSet(SubSeq(l, Len(l) - n + FD_CACHE_LIMIT, Len(l)))

\* fh_flush_fds: unless io_state is active, close fd-LRU tail entries while
\* fd_cache_size >= FD_CACHE_LIMIT.
FlushFdsVictims(l, n) ==
    IF io_state = "active" \/ n < FD_CACHE_LIMIT THEN {}
    ELSE ToSet(SubSeq(l, Len(l) - n + FD_CACHE_LIMIT, Len(l)))

\* The lowest free descriptor, as open(2) and accept(2) allocate.
FreeFds == Fds \ kfds
LowestFree == CHOOSE f \in FreeFds : \A g \in FreeFds : f <= g

-----------------------------------------------------------------------------
(* fh_flush(force): walk the LRU from the head, delete entries beyond the *)
(* limit, unused for DISCARD_INTERVAL, or all when forced; close the fds  *)
(* of survivors idle for CLOSE_INTERVAL; reset fh_list_size.              *)
Discardable(x, kept, force) ==
    \/ kept > FH_CACHE_LIMIT
    \/ curtime > ent[x].last_used + DISCARD_INTERVAL
    \/ force

RECURSIVE FlushKeep(_, _, _)
FlushKeep(s, kept, force) ==
    IF s = <<>> THEN <<>>
    ELSE IF Discardable(Head(s), kept, force)
         THEN FlushKeep(Tail(s), kept, force)
         ELSE <<Head(s)>> \o FlushKeep(Tail(s), kept + 1, force)

\* Mutant: idle descriptors closed without resetting the entry's fd.
fh_flush_noreset(force) ==
    LET keep    == FlushKeep(lru, 0, force)
        deleted == Cached \ ToSet(keep)
        idle    == {x \in ToSet(keep) :
                       ent[x].fd >= 0 /\ curtime > ent[x].last_used + CLOSE_INTERVAL}
    IN /\ lru' = keep
       /\ fh_list_size' = Len(keep)
       /\ CloseFds(deleted \cup idle)
       /\ ent' = [x \in Handles |-> IF x \in deleted THEN NoEntry ELSE ent[x]]

fh_flush(force) ==
    LET keep    == FlushKeep(lru, 0, force)
        deleted == Cached \ ToSet(keep)
        idle    == {x \in ToSet(keep) :
                       ent[x].fd >= 0 /\ curtime > ent[x].last_used + CLOSE_INTERVAL}
    IN /\ lru' = keep
       /\ fh_list_size' = Len(keep)
       /\ CloseFds(deleted \cup idle)
       /\ ent' = [x \in Handles |->
                    IF x \in deleted THEN NoEntry
                    ELSE IF x \in idle THEN [ent[x] EXCEPT !.fd = -1]
                    ELSE ent[x]]

-----------------------------------------------------------------------------
(* fh_find(h, mode): a valid hit moves h to the front; otherwise a stale   *)
(* hit (hash_path mismatch, or lstat/psi check failed) is deleted, the    *)
(* tail is evicted while fh_list_size > FH_CACHE_LIMIT, and a new entry   *)
(* is built (FCREATE: without path; FEXISTS: fh_buildpath, which may      *)
(* fail).  flush_cache(0) on an overfull cache is deferred by the dirty   *)
(* flag into need_flush.                                                  *)

\* Mutant: the eviction loop tests fh_list_size > FH_CACHE_LIMIT + 1.
EvictCount_off(n, l) ==
    IF n > FH_CACHE_LIMIT + 1 THEN Min({n - FH_CACHE_LIMIT - 1, Len(l)}) ELSE 0

\* Entries the eviction loop deletes from the tail of l (size n).
EvictCount(n, l) ==
    IF n > FH_CACHE_LIMIT THEN Min({n - FH_CACHE_LIMIT, Len(l)}) ELSE 0

FindHit(h, okpc) ==
    /\ h \in Cached
    /\ lru' = <<h>> \o Remove(lru, h)
    /\ ent' = [ent EXCEPT ![h].last_used = curtime]
    /\ pc' = okpc
    /\ UNCHANGED <<fh_list_size, fdlru, fd_cache_size, kfds, need_flush>>

FindMiss(h, create, newpc, failpc) ==
    LET stale == IF h \in Cached THEN {h} ELSE {}
        l0    == Remove(lru, h)
        n0    == fh_list_size - Cardinality(stale)
        k     == EvictCount(n0, l0)
        l1    == SubSeq(l0, 1, Len(l0) - k)
        gone  == stale \cup ToSet(SubSeq(l0, Len(l0) - k + 1, Len(l0)))
    IN /\ CloseFds(gone)
       /\ \/ /\ lru' = <<h>> \o l1
             /\ fh_list_size' = n0 - k + 1
             /\ ent' = [x \in Handles |->
                          IF x = h THEN [NoEntry EXCEPT !.last_used = curtime]
                          ELSE IF x \in gone THEN NoEntry ELSE ent[x]]
             /\ need_flush' = (need_flush \/ n0 - k + 1 > FH_CACHE_LIMIT)
             /\ pc' = newpc
          \/ /\ ~create
             /\ lru' = l1
             /\ fh_list_size' = n0 - k
             /\ ent' = [x \in Handles |-> IF x \in gone THEN NoEntry ELSE ent[x]]
             /\ UNCHANGED need_flush
             /\ pc' = failpc

fh_find(h, create, hitpc, newpc, failpc) ==
    FindHit(h, hitpc) \/ FindMiss(h, create, newpc, failpc)

\* Mutant: the entry freed without fh_close, still linked in the fd LRU.
fh_delete_noclose(h) ==
    /\ lru' = Remove(lru, h)
    /\ fh_list_size' = fh_list_size - 1
    /\ UNCHANGED <<fdlru, fd_cache_size, kfds>>
    /\ ent' = [ent EXCEPT ![h] = NoEntry]

\* fh_delete(h) of a cached entry (fh_remove).
fh_delete(h) ==
    /\ lru' = Remove(lru, h)
    /\ fh_list_size' = fh_list_size - 1
    /\ CloseFds({h})
    /\ ent' = [ent EXCEPT ![h] = NoEntry]

-----------------------------------------------------------------------------
Init ==
    /\ lru = <<>> /\ fh_list_size = 0
    /\ ent = [x \in Handles |-> NoEntry]
    /\ fdlru = <<>> /\ fd_cache_size = 0
    /\ io_state = "inactive"
    /\ kfds = InitFds /\ conns = {}
    /\ curtime = 0
    /\ need_flush = FALSE
    /\ pc = "idle" /\ req = NoRequest /\ tmpfd = -1
    /\ auth_uid = ROOT_UID

FdVars == <<fdlru, fd_cache_size, kfds>>
CacheVars == <<lru, fh_list_size, ent, fdlru, fd_cache_size, kfds>>

(* nfs_dispatch: a decoded call; the handler starts with auth_fh.         *)
Dispatch ==
    /\ pc = "idle"
    /\ \E r \in Requests : req' = r
    /\ pc' = "auth"
    /\ UNCHANGED <<CacheVars, io_state, conns, curtime, need_flush, tmpfd, auth_uid>>

(* auth_fh: fh_find(FEXISTS|CHECK); NULL is NFSERR_STALE.                 *)
AuthFind ==
    /\ pc = "auth"
    /\ fh_find(req.h, FALSE, "authok", "authok", "done")
    /\ UNCHANGED <<io_state, conns, curtime, req, tmpfd, auth_uid>>

\* What each handler does after authenticating its handle.
AfterAuth == [getattr |-> "done", read |-> "fd", write |-> "fd",
              lookup |-> "compose", create |-> "open", remove |-> "remove"]

(* auth_fh's client, mount, noaccess and read-only checks, then auth_user *)
(* (build_path for the directory handlers).                               *)
AuthUser ==
    /\ pc = "authok"
    /\ \/ /\ auth_uid' = req.uid
          /\ pc' = AfterAuth[req.kind]
       \/ /\ pc' = "done"
          /\ UNCHANGED auth_uid
    /\ UNCHANGED <<CacheVars, io_state, conns, curtime, need_flush, req, tmpfd>>

\* The open mode read and write ask fh_fd for.
Want(kind) == IF kind = "read" THEN "RDONLY" ELSE "WRONLY"

(* fh_fd's reuse test: same uid and same mode, or O_RDWR for either.      *)
Reusable(h, want) ==
    /\ ent[h].fd >= 0
    /\ ent[h].last_uid = auth_uid
    /\ (ent[h].omode = want \/ ent[h].omode = "RDWR")

(* fh_fd, cached descriptor reused: move it to the front of the fd LRU.   *)
FdReuse ==
    LET h == req.h IN
    /\ pc = "fd"
    /\ Reusable(h, Want(req.kind))
    /\ fdlru' = InsFdLru(fdlru, h)
    /\ fd_cache_size' = InsFdSize(fdlru, fd_cache_size, h)
    /\ pc' = "io"
    /\ UNCHANGED <<lru, fh_list_size, ent, kfds, io_state, conns,
                   curtime, need_flush, req, tmpfd, auth_uid>>

(* fh_fd otherwise: close a mismatching descriptor, then path_open        *)
(* (fh_flush_fds, refuse non-regular files, open); on success io_state    *)
(* becomes active and the entry records omode and last_uid.               *)
FdOpen ==
    LET h       == req.h
        want    == Want(req.kind)
        old     == IF ent[h].fd >= 0 THEN {h} ELSE {}
        l1      == SelectSeq(fdlru, LAMBDA x : x \notin old)
        n1      == fd_cache_size - Linked(fdlru, old)
        victims == FlushFdsVictims(l1, n1)
        l2      == SelectSeq(l1, LAMBDA x : x \notin victims)
        n2      == n1 - Linked(l1, victims)
        k2      == kfds \ FdsOf(old \cup victims)
        free    == Fds \ k2
        fd      == CHOOSE f \in free : \A g \in free : f <= g
        closed  == [x \in Handles |->
                      IF x \in old \cup victims THEN [ent[x] EXCEPT !.fd = -1]
                      ELSE ent[x]]
    IN /\ pc = "fd"
       /\ ~Reusable(h, want)
       /\ \/ /\ h \notin SpecialFiles /\ free # {}
             /\ ent' = [closed EXCEPT ![h] = [@ EXCEPT !.fd = fd, !.omode = want,
                                                       !.last_uid = auth_uid]]
             /\ fdlru' = InsFdLru(l2, h)
             /\ fd_cache_size' = InsFdSize(l2, n2, h)
             /\ kfds' = k2 \cup {fd}
             /\ io_state' = "active"
             /\ pc' = "io"
          \/ /\ ent' = closed
             /\ fdlru' = l2 /\ fd_cache_size' = n2 /\ kfds' = k2
             /\ UNCHANGED io_state
             /\ pc' = "done"
    /\ UNCHANGED <<lru, fh_list_size, conns, curtime, need_flush, req, tmpfd,
                   auth_uid>>

(* The handler's lseek and read/write, then fd_inactive.                  *)
FdInactive ==
    /\ pc = "io"
    /\ io_state' = "inactive"
    /\ pc' = "done"
    /\ UNCHANGED <<CacheVars, conns, curtime, need_flush, req, tmpfd, auth_uid>>

(* nfsd_nfsproc_create, regular file: path_open(O_WRONLY[|O_CREAT|O_TRUNC])*)
(* flushes descriptors first; a failing open ends the call.               *)
CreateOpen ==
    LET victims == FlushFdsVictims(fdlru, fd_cache_size)
        k2      == kfds \ FdsOf(victims)
        free    == Fds \ k2
    IN /\ pc = "open"
       /\ req.c \notin SpecialFiles
       /\ fdlru' = SelectSeq(fdlru, LAMBDA x : x \notin victims)
       /\ fd_cache_size' = fd_cache_size - Linked(fdlru, victims)
       /\ ent' = [x \in Handles |->
                    IF x \in victims THEN [ent[x] EXCEPT !.fd = -1] ELSE ent[x]]
       /\ \/ /\ free # {}
             /\ tmpfd' = CHOOSE f \in free : \A g \in free : f <= g
             /\ kfds' = k2 \cup {tmpfd'}
             /\ pc' = "setattr"
          \/ /\ pc' = "done"
             /\ kfds' = k2
             /\ UNCHANGED tmpfd
    /\ UNCHANGED <<lru, fh_list_size, io_state, conns, curtime, need_flush,
                   req, auth_uid>>

(* nfsd_nfsproc_create, special file: mknod (or nothing if it exists), no *)
(* descriptor; mknod or stat may fail.                                    *)
CreateSpecial ==
    /\ pc = "open"
    /\ req.c \in SpecialFiles
    /\ pc' \in {"setattr", "done"}
    /\ UNCHANGED <<CacheVars, io_state, conns, curtime, need_flush, req, tmpfd,
                   auth_uid>>

(* setattr on the new file; on failure the handler returns its status    *)
(* without closing tmpfd (nfsd.c:654-655).                                *)
CreateSetattr ==
    /\ pc = "setattr"
    /\ \/ pc' = "compose" /\ UNCHANGED tmpfd
       \/ pc' = "done" /\ tmpfd' = -1
    /\ UNCHANGED <<CacheVars, io_state, conns, curtime, need_flush, req, auth_uid>>

(* fh_compose: the directory's own fh_find is a hit at the head (it was   *)
(* just authenticated) and changes nothing.  Name checks and path_psi may *)
(* fail (create then closes tmpfd); otherwise fh_find(FCREATE) the child. *)
ComposeFind ==
    /\ pc = "compose"
    /\ \/ fh_find(req.c, TRUE, "composeHit", "composeSet", "done")
          /\ UNCHANGED tmpfd
       \/ /\ pc' = "done"
          /\ kfds' = IF tmpfd >= 0 THEN kfds \ {tmpfd} ELSE kfds
          /\ tmpfd' = -1
          /\ UNCHANGED <<lru, fh_list_size, ent, fdlru, fd_cache_size,
                         need_flush>>
    /\ UNCHANGED <<io_state, conns, curtime, req, auth_uid>>

(* The cached entry has another path: "an old file under the same inode" *)
(* is deleted and the handle found again with FCREATE.                    *)
ComposeRefind ==
    /\ pc = "composeHit"
    /\ FindMiss(req.c, TRUE, "composeSet", "done")
    /\ UNCHANGED <<io_state, conns, curtime, req, tmpfd, auth_uid>>

(* Set the path; a passed fd replaces the entry's descriptor (closing the *)
(* old one), records last_uid and enters the fd LRU; create passes        *)
(* CREATE_OMODE, which becomes omode even without a descriptor.           *)
ComposeSet ==
    LET c   == req.c
        old == IF tmpfd >= 0 /\ ent[c].fd >= 0 THEN {c} ELSE {}
        l1  == SelectSeq(fdlru, LAMBDA x : x \notin old)
        n1  == fd_cache_size - Linked(fdlru, old)
        e1  == IF req.kind = "create" THEN [ent[c] EXCEPT !.omode = "WRONLY"]
               ELSE ent[c]
    IN /\ pc \in {"composeHit", "composeSet"}
       /\ IF tmpfd >= 0
          THEN /\ ent' = [ent EXCEPT ![c] = [e1 EXCEPT !.fd = tmpfd,
                                                       !.last_uid = auth_uid]]
               /\ fdlru' = InsFdLru(l1, c)
               /\ fd_cache_size' = InsFdSize(l1, n1, c)
               /\ kfds' = kfds \ FdsOf(old)
          ELSE /\ ent' = [ent EXCEPT ![c] = e1]
               /\ UNCHANGED FdVars
       /\ tmpfd' = -1
       /\ pc' = "done"
       /\ UNCHANGED <<lru, fh_list_size, io_state, conns, curtime, need_flush,
                      req, auth_uid>>

(* remove/rename/rmdir: fh_remove(path) deletes the entry path_psi names, *)
(* unless path_psi fails.                                                 *)
RemoveName ==
    /\ pc = "remove"
    /\ \/ req.c \in Cached /\ fh_delete(req.c)
       \/ UNCHANGED CacheVars
    /\ pc' = "done"
    /\ UNCHANGED <<io_state, conns, curtime, need_flush, req, tmpfd, auth_uid>>

(* End of nfs_dispatch: dirty is cleared and a deferred flush_cache runs. *)
DispatchDone ==
    /\ pc = "done"
    /\ IF need_flush THEN fh_flush(FALSE) ELSE UNCHANGED CacheVars
    /\ need_flush' = FALSE
    /\ pc' = "idle"
    /\ req' = NoRequest   \* svc_freeargs
    /\ UNCHANGED <<io_state, conns, curtime, tmpfd, auth_uid>>

(* SIGALRM outside a call: flush_cache runs fh_flush(0).                  *)
Alarm ==
    /\ pc = "idle"
    /\ fh_flush(FALSE)
    /\ need_flush' = FALSE
    /\ UNCHANGED <<io_state, conns, curtime, pc, req, tmpfd, auth_uid>>

(* SIGALRM during a call: deferred with need_flush.  need_flush is read   *)
(* only when the call ends, so an alarm at any point of the call has the  *)
(* effect of one arriving at its end.                                     *)
AlarmDeferred ==
    /\ pc = "done"
    /\ ~need_flush
    /\ need_flush' = TRUE
    /\ UNCHANGED <<CacheVars, io_state, conns, curtime, pc, req, tmpfd, auth_uid>>

(* SIGHUP outside a call: reinitialize runs fh_flush(1).                  *)
Hangup ==
    /\ pc = "idle"
    /\ fh_flush(TRUE)
    /\ UNCHANGED <<io_state, conns, curtime, need_flush, pc, req, tmpfd, auth_uid>>

(* The clock advances between calls; fh_find and fh_flush read it.        *)
Tick ==
    /\ pc = "idle"
    /\ curtime < MaxTime
    /\ curtime' = curtime + 1
    /\ UNCHANGED <<CacheVars, io_state, conns, need_flush, pc, req, tmpfd, auth_uid>>

(* svc_run accepts or drops a TCP connection between calls.               *)
ConnOpen ==
    /\ pc = "idle"
    /\ Cardinality(conns) < MaxConns /\ FreeFds # {}
    /\ conns' = conns \cup {LowestFree}
    /\ kfds' = kfds \cup {LowestFree}
    /\ UNCHANGED <<lru, fh_list_size, ent, fdlru, fd_cache_size,
                   io_state, curtime, need_flush, pc, req, tmpfd, auth_uid>>

ConnClose ==
    /\ pc = "idle"
    /\ \E f \in conns : conns' = conns \ {f} /\ kfds' = kfds \ {f}
    /\ UNCHANGED <<lru, fh_list_size, ent, fdlru, fd_cache_size,
                   io_state, curtime, need_flush, pc, req, tmpfd, auth_uid>>

Next ==
    \/ Dispatch \/ AuthFind \/ AuthUser
    \/ FdReuse \/ FdOpen \/ FdInactive
    \/ CreateOpen \/ CreateSpecial \/ CreateSetattr
    \/ ComposeFind \/ ComposeRefind \/ ComposeSet
    \/ RemoveName \/ DispatchDone
    \/ Alarm \/ AlarmDeferred \/ Hangup \/ Tick \/ ConnOpen \/ ConnClose

Spec == Init /\ [][Next]_vars

-----------------------------------------------------------------------------
TypeOK ==
    /\ lru \in Seq(Handles) /\ fdlru \in Seq(Handles)
    /\ fh_list_size \in Nat /\ fd_cache_size \in Nat
    /\ ent \in [Handles -> Entry]
    /\ io_state \in {"active", "inactive"}
    /\ kfds \subseteq Fds /\ conns \subseteq kfds
    /\ curtime \in 0..MaxTime /\ need_flush \in BOOLEAN
    /\ pc \in {"idle", "auth", "authok", "fd", "io", "open", "setattr",
               "compose", "composeHit", "composeSet", "remove", "done"}
    /\ req \in Requests \cup {NoRequest}
    /\ tmpfd \in {-1} \cup kfds
    /\ auth_uid \in Uids \cup {ROOT_UID}

(* The three intrusive lists and their counters agree (spec 3): the       *)
(* global LRU holds each cached entry once and fh_list_size counts it; an *)
(* entry is in the descriptor LRU iff it holds a descriptor, and          *)
(* fd_cache_size counts that list -- across fh_fd's reuse, fh_compose's   *)
(* replacement of a descriptor, eviction and fh_flush.                    *)
ListsConsistent ==
    /\ IsInjective(lru) /\ fh_list_size = Len(lru)
    /\ IsInjective(fdlru) /\ fd_cache_size = Len(fdlru)
    /\ \A x \in Handles :
          /\ (ent[x].fd >= 0 <=> x \in ToSet(fdlru))
          /\ (x \notin Cached => ent[x] = NoEntry)

(* Every descriptor the cache holds is open, belongs to one entry only,   *)
(* and is neither a TCP connection nor create's uncached tmpfd: fh_close  *)
(* and fh_flush never leave an entry with a closed, reusable descriptor.  *)
FdsOwned ==
    \A x, y \in Cached :
        ent[x].fd >= 0 =>
            /\ ent[x].fd \in kfds \ (conns \cup {tmpfd})
            /\ (x # y => ent[x].fd # ent[y].fd)

(* fh_flush_fds keeps the descriptor cache within FD_CACHE_LIMIT (spec    *)
(* 3) before every open that can enter it.                                *)
FdCacheBound == fd_cache_size <= FD_CACHE_LIMIT

(* The handle cache never exceeds FH_CACHE_LIMIT + 1: fh_find evicts down *)
(* to the limit before inserting, and fh_flush keeps limit + 1 entries.   *)
CacheBound == Len(lru) <= FH_CACHE_LIMIT + 1

(* Spec 3: total cached entries <= FH_LIMIT.                              *)
CacheWithinLimit == Len(lru) <= FH_CACHE_LIMIT

(* fd_cache[] has FOPEN_MAX slots: fh_insert_fdcache indexes it by fd.    *)
FdIndexInBounds == \A x \in Cached : ent[x].fd < FOPEN_MAX

(* Spec 3: total open descriptors <= FD_LIMIT.  Counts every descriptor   *)
(* the file layer opened (all but the RPC sockets and TCP connections).   *)
OpenFdsWithinLimit == Cardinality(kfds \ (InitFds \cup conns)) <= FD_CACHE_LIMIT

=============================================================================
