------------------------------ MODULE FhPaths ------------------------------
(***************************************************************************)
(* File handles and the paths they stand for (fh.c, nfsd.c).  A handle is *)
(* a pseudo-inode (psi) and a hash path: one byte, hash_psi, for "/" and  *)
(* for each directory above the file.  The handle cache maps a psi to a   *)
(* path; auth_fh checks a cached path against the file system and, when   *)
(* it is gone or names another inode, rebuilds one with fh_buildpath, a    *)
(* depth-first search for a path whose directories hash to the handle's   *)
(* bytes.  The namespace handlers (LOOKUP, CREATE, MKDIR, REMOVE, RMDIR,   *)
(* RENAME) build "dir path/name" from a directory handle, change the file  *)
(* system, evict by psi with fh_remove and hand out new handles through    *)
(* fh_compose.  One device: a psi is the inode number.  Strings are name   *)
(* sequences with their lengths.                                           *)
(***************************************************************************)
EXTENDS Naturals, Sequences, SequencesExt, FiniteSets

CONSTANTS
    Inodes,          \* inode numbers of the exported file system
    Root,            \* the inode of "/"
    Names,           \* names used in directories
    NameOrder,       \* the order readdir returns names in
    NameLen,         \* strlen of each name
    Hash,            \* hash_psi of each psi: a byte, with collisions
    HP_LEN,          \* size of the hash path, its length byte included
    NFS_MAXPATHLEN,
    InitFs,          \* the exported tree when the server starts
    Exports,         \* exported paths
    MountPaths,      \* the paths clients ask mountd to mount
    NoMnt,           \* mountd is between requests
    ReadOnly,        \* the exports with the ro option
    NoEntry,         \* no cache entry for a psi
    NoPath,          \* pathbuf before any handler has written it ("")
    NoReply,         \* the step was not a CREATE on a read-only export
    MaxCalls,        \* bound on NFS calls
    MaxAllocs        \* bound on inodes allocated

VARIABLES
    fs,      \* [kind |-> "free", "dir", "file", "symlink" per inode, ent]
    gen,     \* ghost: how often each inode has been allocated
    cache,   \* fh cache: psi -> [hp, path] or NoEntry
    held,    \* handles clients hold, with the generation they were made for
    pathbuf, \* nfsd.c's static path buffer, shared by the handlers
    roreply, \* ghost: a CREATE's reply on a read-only export
    mnt,     \* mountd's MNT in progress: the path, the components fh_create
             \* has walked, the last psi and the hash path so far
    calls,
    allocs

vars == <<fs, gen, cache, held, pathbuf, roreply, mnt, calls, allocs>>

Empty == [n \in Names |-> 0]

\* The inode a path names in file system f, or 0.
RECURSIVE Walk(_, _)
Walk(f, p) ==
    IF p = <<>> THEN Root
    ELSE LET d == Walk(f, Front(p))
         IN  IF d # 0 /\ f.kind[d] = "dir" THEN f.ent[d][Last(p)] ELSE 0

\* strlen of a path; the search buffer also ends in "/".
StrLen(p) == IF p = <<>> THEN 1 ELSE FoldLeft(LAMBDA a, n : a + 1 + NameLen[n], 0, p)
BufLen(p) == IF p = <<>> THEN 1 ELSE StrLen(p) + 1

\* fh_create, and the hash path of spec 3: the hashes of "/" and of each
\* directory above the file.
HashPath(f, p) == [k \in 1 .. Len(p) |-> Hash[Walk(f, SubSeq(p, 1, k - 1))]]

NotFound == [found |-> FALSE, path |-> <<>>]

(* fh_buildpath: read the directory at p from its k-th entry, looking    *)
(* for level i.  Skips entries whose name would overflow the buffer;     *)
(* at the last level the psi must match, above it the hash; a hash match *)
(* descends, and a failed descent resumes after the entry (the cookie).  *)
RECURSIVE Scan(_, _, _, _, _), Descend(_, _, _, _)
Scan_noresume(f, h, p, i, k) ==
    IF k > Len(NameOrder) THEN NotFound
    ELSE LET n == NameOrder[k]
             c == f.ent[Walk(f, p)][n]
         IN  IF c = 0 \/ BufLen(p) + NameLen[n] + 1 >= NFS_MAXPATHLEN
               THEN Scan(f, h, p, i, k + 1)
             ELSE IF i = Len(h.hp) + 1
               THEN IF c = h.psi THEN [found |-> TRUE, path |-> Append(p, n)]
                                 ELSE Scan(f, h, p, i, k + 1)
             ELSE IF Hash[c] # h.hp[i] THEN Scan(f, h, p, i, k + 1)
             ELSE Descend(f, h, Append(p, n), i + 1)

Scan(f, h, p, i, k) ==
    IF k > Len(NameOrder) THEN NotFound
    ELSE LET n == NameOrder[k]
             c == f.ent[Walk(f, p)][n]
         IN  IF c = 0 \/ BufLen(p) + NameLen[n] + 1 >= NFS_MAXPATHLEN
               THEN Scan(f, h, p, i, k + 1)
             ELSE IF i = Len(h.hp) + 1
               THEN IF c = h.psi THEN [found |-> TRUE, path |-> Append(p, n)]
                                 ELSE Scan(f, h, p, i, k + 1)
             ELSE IF Hash[c] # h.hp[i] THEN Scan(f, h, p, i, k + 1)
             ELSE LET r == Descend(f, h, Append(p, n), i + 1)
                  IN  IF r.found THEN r ELSE Scan(f, h, p, i, k + 1)

\* efs_stat and efs_opendir fail on anything but a directory.
Descend(f, h, p, i) == IF f.kind[Walk(f, p)] = "dir" THEN Scan(f, h, p, i, 1) ELSE NotFound

fh_buildpath(f, h) ==
    IF Len(h.hp) >= HP_LEN THEN NotFound
    ELSE IF Len(h.hp) = 0
      THEN IF h.psi = Root THEN [found |-> TRUE, path |-> <<>>] ELSE NotFound
    ELSE IF Hash[Root] # h.hp[1] THEN NotFound
    ELSE Scan(f, h, <<>>, 2, 1)

AuthFh_nocheck(f, h, c) ==
    LET e == c[h.psi]
        r == fh_buildpath(f, h)
    IN  IF e # NoEntry /\ e.hp = h.hp
          THEN [ok |-> TRUE, path |-> e.path, cache |-> c]
        ELSE IF r.found
          THEN [ok |-> TRUE, path |-> r.path,
                cache |-> [c EXCEPT ![h.psi] = [hp |-> h.hp, path |-> r.path]]]
        ELSE [ok |-> FALSE, path |-> <<>>, cache |-> [c EXCEPT ![h.psi] = NoEntry]]

(* auth_fh's fh_find(FHFIND_FEXISTS|FHFIND_CHECK): a cached entry with   *)
(* the same hash path whose path still names the psi is used; otherwise *)
(* it is deleted and the path rebuilt and cached, or the handle is stale. *)
AuthFh(f, h, c) ==
    LET e == c[h.psi]
        r == fh_buildpath(f, h)
    IN  IF e # NoEntry /\ e.hp = h.hp /\ Walk(f, e.path) = h.psi
          THEN [ok |-> TRUE, path |-> e.path, cache |-> c]
        ELSE IF r.found
          THEN [ok |-> TRUE, path |-> r.path,
                cache |-> [c EXCEPT ![h.psi] = [hp |-> h.hp, path |-> r.path]]]
        ELSE [ok |-> FALSE, path |-> <<>>, cache |-> [c EXCEPT ![h.psi] = NoEntry]]

(* auth_match_mount: the mount list is kept most specific first, so the *)
(* first export that is the path or a directory above it is the longest. *)
ExportsOver(p) == {e \in Exports : IsPrefix(e, p)}
MountOf(p) == CHOOSE e \in ExportsOver(p) : \A o \in ExportsOver(p) : Len(o) <= Len(e)
ReadOnlyPath(p) == MountOf(p) \in ReadOnly

build_path_norofs(f, h, n, c) ==
    LET a == AuthFh(f, h, c)
    IN  [ok    |-> a.ok /\ StrLen(a.path) + NameLen[n] + 1 < NFS_MAXPATHLEN,
         rofs  |-> FALSE,
         dir   |-> a.path,
         path  |-> Append(a.path, n),
         cache |-> a.cache]

(* build_path: authenticate the directory handle (auth_fh refuses a       *)
(* write under a read-only export with ROFS), refuse a result of          *)
(* NFS_MAXPATHLEN or more, append "/name".  Only a result of ok has been *)
(* copied into the buffer.                                                *)
build_path(f, h, n, c) ==
    LET a == AuthFh(f, h, c)
    IN  [ok    |-> a.ok /\ ~ReadOnlyPath(a.path)
                     /\ StrLen(a.path) + NameLen[n] + 1 < NFS_MAXPATHLEN,
         rofs  |-> a.ok /\ ReadOnlyPath(a.path),
         dir   |-> a.path,
         path  |-> Append(a.path, n),
         cache |-> a.cache]

fh_compose_nolimit(f, h, dir, n, c) ==
    LET child == Walk(f, Append(dir, n))
        nh == [psi |-> child, hp |-> Append(h.hp, Hash[h.psi])]
    IN  IF StrLen(dir) + NameLen[n] + 1 >= NFS_MAXPATHLEN \/ child = 0
          THEN [ok |-> FALSE, fh |-> nh, cache |-> c]
          ELSE [ok |-> TRUE, fh |-> nh,
                cache |-> [c EXCEPT ![child] = [hp |-> nh.hp, path |-> Append(dir, n)]]]

(* fh_compose for a name other than "." and "..": the length check, the  *)
(* child's psi by path_psi, the directory's hash appended to its hash    *)
(* path unless that makes it HP_LEN long; the child's cache entry takes  *)
(* the new hash path and path (an entry with another one is replaced).   *)
fh_compose(f, h, dir, n, c) ==
    LET child == Walk(f, Append(dir, n))
        nh == [psi |-> child, hp |-> Append(h.hp, Hash[h.psi])]
    IN  IF StrLen(dir) + NameLen[n] + 1 >= NFS_MAXPATHLEN \/ child = 0
           \/ Len(h.hp) + 1 >= HP_LEN
          THEN [ok |-> FALSE, fh |-> nh, cache |-> c]
          ELSE [ok |-> TRUE, fh |-> nh,
                cache |-> [c EXCEPT ![child] = [hp |-> nh.hp, path |-> Append(dir, n)]]]

\* fh_remove: evict the entry of the psi the path names, if any.
fh_remove(f, p, c) == IF Walk(f, p) = 0 THEN c ELSE [c EXCEPT ![Walk(f, p)] = NoEntry]

\* efs_mkdir, or open(O_CREAT) of a regular file: a free inode i becomes
\* entry n of directory d.
FreeInodes(f) == {i \in Inodes : f.kind[i] = "free"}
Alloc(f, d, n, i, k) ==
    [kind |-> [f.kind EXCEPT ![i] = k], ent |-> [f.ent EXCEPT ![d][n] = i, ![i] = Empty]]

\* unlink(2) or rmdir(2) of entry n of d, naming inode t: the inode is
\* freed with its last link.
Links(f, t) == Cardinality({e \in Inodes \X Names : f.ent[e[1]][e[2]] = t})
Free(f, t) == IF Links(f, t) = 1 THEN [f.kind EXCEPT ![t] = "free"] ELSE f.kind
Unlink(f, d, n, t) == [kind |-> Free(f, t), ent |-> [f.ent EXCEPT ![d][n] = 0]]

(* rename(2): a directory may not move below itself and replaces only an *)
(* empty directory; a file replaces only a file; renaming a name onto    *)
(* itself does nothing; the replaced inode is freed.                     *)
RenameOk(f, from, to) ==
    LET s == Walk(f, from)
        t == Walk(f, to)
    IN  /\ s # 0
        /\ f.kind[Walk(f, Front(to))] = "dir"
        /\ s = t \/ IF f.kind[s] = "dir"
                      THEN /\ ~IsPrefix(from, to)
                           /\ t = 0 \/ (f.kind[t] = "dir" /\ f.ent[t] = Empty)
                      ELSE t = 0 \/ f.kind[t] # "dir"
Renamed(f, from, to) ==
    LET s == Walk(f, from)
        t == Walk(f, to)
        e == [f.ent EXCEPT ![Walk(f, Front(from))][Last(from)] = 0]
    IN  IF s = t THEN f
        ELSE [kind |-> IF t = 0 THEN f.kind ELSE Free(f, t),
              ent  |-> [e EXCEPT ![Walk(f, Front(to))][Last(to)] = s]]

\* The handle a client keeps from a reply, tagged with the generation of
\* the inode it was made for.
Handle(fh, g) == [psi |-> fh.psi, hp |-> fh.hp, gen |-> g[fh.psi]]
Grant(r, g) == IF r.ok THEN held \cup {Handle(r.fh, g)} ELSE held

Init ==
    /\ fs = InitFs
    /\ gen = [i \in Inodes |-> IF InitFs.kind[i] = "free" THEN 0 ELSE 1]
    /\ cache = [i \in Inodes |-> NoEntry]
    /\ held = {}
    /\ pathbuf = NoPath
    /\ roreply = NoReply
    /\ mnt = NoMnt
    /\ calls = 0
    /\ allocs = 0

Call == calls < MaxCalls /\ calls' = calls + 1

\* The handlers bind a result they use often with \E v \in {e}, so that it
\* is computed once.

\* What a handler that builds its path into pathbuf leaves there.
Filled(b) == IF b.ok THEN b.path ELSE pathbuf

\* efs_lstat of the buffer: "" names nothing.
Lstat(p) == IF p = NoPath THEN 0 ELSE Walk(fs, p)

(* MNT, up to fh_create's first path_psi: mountd (a process of its own,  *)
(* with its own cache) refuses a path no export covers (auth_path), and  *)
(* one that stat finds missing or neither a directory nor a regular      *)
(* file.  "/" is answered at once: its handle is the root's psi and an    *)
(* empty hash path.  realpath is the identity: symlinks are not followed. *)
MntStart(p) ==
    /\ Call
    /\ mnt = NoMnt
    /\ LET t == Walk(fs, p)
       IN  IF ExportsOver(p) # {} /\ t # 0 /\ fs.kind[t] \in {"dir", "file"}
             THEN IF p = <<>>
                    THEN /\ held' = held \cup {Handle([psi |-> Root, hp |-> <<>>], gen)}
                         /\ UNCHANGED mnt
                    ELSE /\ mnt' = [path |-> p, k |-> 0, psi |-> Root, hp |-> <<>>]
                         /\ UNCHANGED held
             ELSE UNCHANGED <<held, mnt>>
    /\ roreply' = NoReply
    /\ UNCHANGED <<fs, gen, cache, pathbuf, allocs>>

(* fh_create, one component at a time: the hash of the last psi joins    *)
(* the hash path (NAMETOOLONG when it reaches HP_LEN), and path_psi      *)
(* lstat's the path up to the next component, in the file system as it  *)
(* is now: nfsd runs in another process between two lstats.  A missing  *)
(* component ends the call with an error; after the last one the handle *)
(* is the reply.                                                          *)
MntWalk ==
    /\ mnt # NoMnt
    /\ LET k  == mnt.k + 1
           hp == Append(mnt.hp, Hash[mnt.psi])
           t  == Walk(fs, SubSeq(mnt.path, 1, k))
       IN  CASE Len(hp) >= HP_LEN \/ t = 0 ->
                  mnt' = NoMnt /\ UNCHANGED held
             [] k = Len(mnt.path) ->
                  /\ held' = held \cup {Handle([psi |-> t, hp |-> hp], gen)}
                  /\ mnt' = NoMnt
             [] OTHER ->
                  mnt' = [mnt EXCEPT !.k = k, !.psi = t, !.hp = hp] /\ UNCHANGED held
    /\ roreply' = NoReply
    /\ UNCHANGED <<fs, gen, cache, pathbuf, calls, allocs>>

(* LOOKUP: auth_fh of the directory, fh_compose of the name; the second *)
(* auth_fh, of the new handle, hits the entry fh_compose made.          *)
Lookup(x, n) ==
    /\ Call
    /\ \E a \in {AuthFh(fs, x, cache)} :
       LET r == fh_compose(fs, x, a.path, n, a.cache)
       IN  /\ cache' = IF a.ok THEN r.cache ELSE a.cache
           /\ held' = IF a.ok THEN Grant(r, gen) ELSE held
    /\ roreply' = NoReply
    /\ UNCHANGED <<fs, gen, pathbuf, allocs>>

(* CREATE of a regular file and MKDIR: build_path; an existing file is  *)
(* opened (path_open fails with EISDIR on anything but a regular file), *)
(* a missing name gets a free inode; fh_compose then makes the reply's   *)
(* handle.  MKDIR fails on any existing name.                            *)
MakeNode(x, n, k) ==
    /\ Call
    /\ \E b \in {build_path(fs, x, n, cache)} :
       LET d == Walk(fs, b.dir)
           t == Walk(fs, b.path)
           r == fh_compose(fs, x, b.dir, n, b.cache)
       IN  /\ pathbuf' = Filled(b)
           /\ \/ /\ \/ ~b.ok
                    \/ fs.kind[d] # "dir"
                    \/ t # 0 /\ (k = "dir" \/ fs.kind[t] # "file")
                    \/ t = 0 /\ FreeInodes(fs) = {}
                 /\ cache' = b.cache
                 /\ UNCHANGED <<fs, gen, held, allocs>>
              \/ /\ b.ok /\ k = "file" /\ t # 0 /\ fs.kind[t] = "file"
                 /\ cache' = r.cache
                 /\ held' = Grant(r, gen)
                 /\ UNCHANGED <<fs, gen, allocs>>
              \/ /\ b.ok /\ fs.kind[d] = "dir" /\ t = 0
                 /\ allocs < MaxAllocs
                 /\ \E i \in FreeInodes(fs) :
                       LET f == Alloc(fs, d, n, i, k)
                           g == [gen EXCEPT ![i] = @ + 1]
                           rn == fh_compose(f, x, b.dir, n, b.cache)
                       IN  /\ fs' = f
                           /\ gen' = g
                           /\ cache' = rn.cache
                           /\ held' = Grant(rn, g)
                 /\ allocs' = allocs + 1

(* CREATE.  A ROFS from build_path is let through (so that "echo         *)
(* >/dev/null" works on a read-only export), and the buffer is lstat'ed  *)
(* whether build_path filled it or not.  When the file-type bits of the  *)
(* mode are zero (z) and what the buffer names exists and is not a       *)
(* regular file, the status becomes OK: the kind is kept, mknod is       *)
(* skipped, setattr of the size leaves a non-regular file alone, and     *)
(* fh_compose answers with the handle of the name asked for.  Any other  *)
(* case ends at a refused build_path or is MakeNode's regular file.      *)
Create(x, n, z) ==
    \E b \in {build_path(fs, x, n, cache)} :
    LET t == Lstat(Filled(b))
        special == z /\ t # 0 /\ fs.kind[t] # "file"
        r == fh_compose(fs, x, b.dir, n, b.cache)
        c == Walk(fs, Append(b.dir, n))
    IN  /\ roreply' = IF b.rofs
                        THEN [ok |-> special /\ r.ok,
                              named |-> IF c = 0 THEN "none" ELSE fs.kind[c]]
                        ELSE NoReply
        /\ IF special /\ (b.ok \/ b.rofs)
             THEN /\ Call
                  /\ pathbuf' = Filled(b)
                  /\ cache' = r.cache
                  /\ held' = Grant(r, gen)
                  /\ UNCHANGED <<fs, gen, allocs>>
             ELSE MakeNode(x, n, "file")

Mkdir(x, n) == MakeNode(x, n, "dir") /\ roreply' = NoReply

(* REMOVE and RMDIR: build_path, fh_remove of the path, then unlink(2)   *)
(* of a file or rmdir(2) of an empty directory.                          *)
Delete(x, n, k) ==
    /\ Call
    /\ \E b \in {build_path(fs, x, n, cache)} :
       LET t == Walk(fs, b.path)
       IN  /\ pathbuf' = Filled(b)
           /\ IF ~b.ok THEN cache' = b.cache /\ UNCHANGED fs
              ELSE /\ cache' = fh_remove(fs, b.path, b.cache)
                   /\ fs' = IF t # 0 /\ IF k = "dir" THEN fs.kind[t] = "dir" /\ fs.ent[t] = Empty
                                                    ELSE fs.kind[t] # "dir"
                              THEN Unlink(fs, Walk(fs, b.dir), n, t) ELSE fs
    /\ roreply' = NoReply
    /\ UNCHANGED <<gen, held, allocs>>

RemoveFile(x, n) == Delete(x, n, "file")
Rmdir(x, n) == Delete(x, n, "dir")

(* RENAME: build_path of both names (the first into pathbuf, the second *)
(* into pathbuf_1, on the cache the first left), fh_remove of both      *)
(* paths, rename(2).                                                     *)
Rename(x, n, y, m) ==
    /\ Call
    /\ \E b1 \in {build_path(fs, x, n, cache)} :
       \E b2 \in {build_path(fs, y, m, b1.cache)} :
       LET c  == fh_remove(fs, b2.path, fh_remove(fs, b1.path, b2.cache))
       IN  /\ pathbuf' = Filled(b1)
           /\ CASE ~b1.ok -> cache' = b1.cache /\ UNCHANGED fs
                [] b1.ok /\ ~b2.ok -> cache' = b2.cache /\ UNCHANGED fs
                [] b1.ok /\ b2.ok ->
                     /\ cache' = c
                     /\ fs' = IF RenameOk(fs, b1.path, b2.path)
                                THEN Renamed(fs, b1.path, b2.path) ELSE fs
    /\ roreply' = NoReply
    /\ UNCHANGED <<gen, held, allocs>>

(* LINK: auth_fh of the file (ROFS under a read-only export), build_path *)
(* of the new name into pathbuf_1, ACCES when the two lie under          *)
(* different exports, then link(2) of fhc->path, which refuses a         *)
(* directory and an existing name.  No handle is made.                   *)
Link(x, y, m) ==
    /\ Call
    /\ \E a \in {AuthFh(fs, x, cache)} :
       LET w == a.ok /\ ~ReadOnlyPath(a.path)
           b == build_path(fs, y, m, a.cache)
           d == Walk(fs, b.dir)
           s == Walk(fs, a.path)
       IN  /\ cache' = IF w THEN b.cache ELSE a.cache
           /\ fs' = IF w /\ b.ok /\ MountOf(b.path) = MountOf(a.path)
                       /\ fs.kind[s] # "dir" /\ fs.kind[d] = "dir"
                       /\ Walk(fs, b.path) = 0
                      THEN [fs EXCEPT !.ent[d][m] = s] ELSE fs
    /\ roreply' = NoReply
    /\ UNCHANGED <<gen, held, pathbuf, allocs>>

(* SYMLINK: build_path, symlink(2) into a free inode unless the name     *)
(* exists.  The link's text is not modelled: lookups do not follow it.  *)
Symlink(x, n) ==
    /\ Call
    /\ \E b \in {build_path(fs, x, n, cache)} :
       LET d == Walk(fs, b.dir)
       IN  /\ pathbuf' = Filled(b)
           /\ \/ /\ ~b.ok \/ fs.kind[d] # "dir" \/ Walk(fs, b.path) # 0
                    \/ FreeInodes(fs) = {}
                 /\ UNCHANGED <<fs, gen, allocs>>
              \/ /\ b.ok /\ fs.kind[d] = "dir" /\ Walk(fs, b.path) = 0
                 /\ allocs < MaxAllocs
                 /\ \E i \in FreeInodes(fs) :
                       /\ fs' = Alloc(fs, d, n, i, "symlink")
                       /\ gen' = [gen EXCEPT ![i] = @ + 1]
                 /\ allocs' = allocs + 1
           /\ cache' = b.cache
    /\ roreply' = NoReply
    /\ UNCHANGED held

(* fh_flush and the FH_CACHE_LIMIT trim in fh_find delete entries unused *)
(* for DISCARD_INTERVAL, or the least recently used; a restart of nfsd   *)
(* deletes them all.                                                      *)
Evict(i) ==
    /\ cache[i] # NoEntry
    /\ cache' = [cache EXCEPT ![i] = NoEntry]
    /\ roreply' = NoReply
    /\ UNCHANGED <<fs, gen, held, pathbuf, calls, allocs>>

(* nfsd's handlers and cache evictions; mountd's state is its own. *)
Nfsd ==
    \/ \E x \in held, n \in Names :
          \/ \E z \in BOOLEAN : Create(x, n, z)
          \/ Lookup(x, n) \/ Mkdir(x, n) \/ Symlink(x, n)
          \/ RemoveFile(x, n) \/ Rmdir(x, n)
    \/ \E x, y \in held, m \in Names : Link(x, y, m)
    \/ \E x, y \in held, n, m \in Names : Rename(x, n, y, m)
    \/ \E i \in Inodes : Evict(i)

Next ==
    \/ \E p \in MountPaths : MntStart(p)
    \/ MntWalk
    \/ Nfsd /\ UNCHANGED mnt

Spec == Init /\ [][Next]_vars

-----------------------------------------------------------------------------

Handles == [psi : Inodes, hp : Seq(0 .. 255), gen : Nat]
Entries == [hp : Seq(0 .. 255), path : Seq(Names)]

TypeOK ==
    /\ fs.kind \in [Inodes -> {"free", "dir", "file", "symlink"}]
    /\ fs.ent \in [Inodes -> [Names -> Inodes \cup {0}]]
    /\ gen \in [Inodes -> 0 .. MaxAllocs + 1]
    /\ cache \in [Inodes -> Entries \cup {NoEntry}]
    /\ held \subseteq Handles
    /\ \A x \in held : Len(x.hp) < HP_LEN
    /\ pathbuf \in Seq(Names) \cup {NoPath}
    /\ roreply \in [ok : BOOLEAN, named : {"none", "free", "dir", "file", "symlink"}]
                   \cup {NoReply}
    /\ mnt \in [path : MountPaths, k : Nat, psi : Inodes, hp : Seq(0 .. 255)] \cup {NoMnt}
    /\ calls \in 0 .. MaxCalls
    /\ allocs \in 0 .. MaxAllocs

\* Spec 4.D: the paths, no longer than a server path may be, whose
\* directories hash to the handle's bytes and that name its pseudo-inode.
RECURSIVE PathsFrom(_, _, _)
PathsFrom(f, p, k) ==
    {p} \cup UNION {PathsFrom(f, Append(p, n), k - 1) :
                      n \in {m \in Names : k > 0 /\ f.kind[Walk(f, p)] = "dir"
                                             /\ f.ent[Walk(f, p)][m] # 0}}
RefPaths(f, h) ==
    {p \in PathsFrom(f, <<>>, HP_LEN - 1) :
        Walk(f, p) = h.psi /\ HashPath(f, p) = h.hp /\ StrLen(p) < NFS_MAXPATHLEN}

(* Every handle a client holds is served right by auth_fh, whatever     *)
(* renames, removes, creations and cache evictions came before: the path *)
(* it gives (a cached one, or fh_buildpath's) names the handle's inode, *)
(* and it finds one whenever spec 4.D says a path exists.                *)
HandlesResolve ==
    \A x \in held :
        LET a == AuthFh(fs, x, cache)
        IN  /\ a.ok => Walk(fs, a.path) = x.psi
            /\ RefPaths(fs, x) # {} => a.ok

(* Spec 4.D for MNT: the handle mountd replies with is one auth_fh can  *)
(* serve when it is made, a path whose directories hash to its bytes      *)
(* leading to its psi.  fh_create reads the hashes one lstat at a time,   *)
(* while nfsd may rename the directories it has already passed.          *)
MntReplyValid ==
    [][mnt # NoMnt /\ mnt' = NoMnt =>
         \A x \in held' \ held : RefPaths(fs', x) # {}]_vars

(* A handle that still resolves names the file it was issued for, not a *)
(* later file that reused the inode (a handle carries no generation).    *)
HandleNamesIssuedFile ==
    \A x \in held : AuthFh(fs, x, cache).ok => gen[x.psi] = x.gen

\* Directories some path of a read-only export leads to.
InReadOnly(d) ==
    \E p \in PathsFrom(fs, <<>>, Cardinality(Inodes)) :
        Walk(fs, p) = d /\ ReadOnlyPath(p)

(* No handler changes a directory under a read-only export.  Every one   *)
(* but CREATE stops at build_path's ROFS; CREATE goes on, on the stale    *)
(* path another call left in pathbuf, so an existing special file there  *)
(* must not lead to a mknod, an open or a truncation.                     *)
ReadOnlyUnchanged ==
    [][\A d \in Inodes : InReadOnly(d) => fs'.ent[d] = fs.ent[d]]_vars

(* The comment in CREATE (nfsd.c:531) and spec 4.L: on a read-only export *)
(* a CREATE with zero file-type bits succeeds only for an existing       *)
(* special file of the name asked for, as "echo >/dev/null" needs.       *)
RofsCreateAsCommented ==
    roreply # NoReply /\ roreply.ok => roreply.named \notin {"none", "file"}
====
