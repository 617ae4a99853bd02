# TLA+ models of the user-space NFS server

These modules model the parts of `nfs-user-server` (the `src/` tree) where the
server's correctness depends on the order of events rather than on the data:
the switch between client credentials, the file-handle and descriptor caches,
the asynchronous signal handlers that flush the cache and reload
`/etc/exports`, the device table that several server processes share through
a lock file, mountd's remote-mount log `/etc/rmtab`, the translation
of client uids and gids to server ids (`ugid_map.c`), and the fail-safe
supervisor that restarts crashed servers (`failsafe.c`), and the file
handles themselves: how a handle's hash path is made, checked and turned back
into a path as the name space changes under it (`FhPaths`), and the export
database that decides which export and options a client address gets
(`Exports`). Each module is translated from the C source; `PROJECT.json`
maps every definition to the lines it models.

## The system and how its parts interact

`rpc.nfsd` is a single-threaded RPC server. `svc_run` calls `nfs_dispatch`
(`nfs_dispatch.c`) for each request. The dispatcher does three things:

- it sets `_rpcsvcdirty`;
- it drops the kernel uid to root with `auth_override_uid`;
- it calls a handler of `nfsd.c`.

A handler authenticates the file handle with `auth_fh`, which does these steps:

- it looks up the handle in the cache with `fh_find` (`fh.c`);
- it checks the client and the export, through the cached `last_clnt`/`last_mount` hints or through `auth_path`;
- it switches to the client's mapped identity with `auth_user` (`auth_clnt.c`, `ugid_map.c`).

`fh_find` may rebuild a path with `fh_buildpath`, and `fh_fd` may open a file
with `path_open`. Both bracket their work with `auth_override_uid(ROOT)` and a
restore of the cached `auth_uid`.

Two signal handlers run on the same thread at any point. `install_signal_handler`
blocks no other signal in them.

- **SIGALRM (`flush_cache`)** ages the cache with `fh_flush(0)`.
- **SIGHUP (`reinitialize`)** empties the cache with `fh_flush(1)` and reloads the exports with `auth_init`, which frees the client and mount lists.

Both handlers defer themselves (`need_flush`, `need_reinit`) while a call is
in progress. Each has a static `inprogress` counter.

When built with `ENABLE_DEVTAB`, several processes (the copies of `rpc.nfsd`
forked with `-n`, and `rpc.mountd`) number devices through the shared file
`devtab` (`devtab.c`). A process that meets an unknown device takes the lock
file by `link(2)`, rereads the file if its mtime changed, appends the device
and unlinks the lock. A lock whose holder no longer exists (`kill(pid, 0)`
fails with `ESRCH`) is removed as stale. `failsafe` forks a server again when
it dies of a signal, but not when it exits.

With `-z`, `failsafe()` turns the first process into a supervisor. It
forks `ncopies` servers, records their pids, sets SIGTERM, SIGHUP, SIGINT
and SIGCHLD to `SIG_IGN`, and loops on `wait()`. A server killed by a
signal other than SIGTERM is forked again; one that exited or died of
SIGTERM is retired. More than `2*ncopies` forks in one second make it
sleep. The forked servers inherit the ignored signals until `main`
installs their handlers.

`rpc.mountd` keeps the list of client mounts in `/etc/rmtab` (`rmtab.c`).
MNT, UMNT, UMNTALL and DUMP each reread the file when its mtime differs from
the one last seen, change the sorted in-core list, and rewrite the whole file
in place.

The export database (`auth.c`, `auth_init.c`) is built by `auth_init` at
start-up and on every SIGHUP. Each client field of an `/etc/exports` line
gets an `nfs_client` in a bucket (literal names that resolve, names that do
not, wildcard patterns, addr/mask pairs, the anonymous client), and the
line's path is inserted in the client's mount list, kept in descending
`strcmp` order. Then the netmask, wildcard and anonymous lists are copied into
the literal clients. A request's address is looked up in a 16-slot cache,
then in the address hash, and otherwise `auth_unknown_clientbyaddr` builds a
client from every pattern that matches the host; `auth_path` takes the first
mount in the list that is a prefix of the path.

## Modules

| Module | Source | State | Actions |
|---|---|---|---|
| `CredSwitch` | `auth_clnt.c`, `ugid_map.c`, `nfs_dispatch.c`, `nfsd.c` (`auth_fh`, `build_path`), `fh.c` (override brackets) | kernel fsuid/euid, gid, groups; the cache `auth_uid`, `auth_gid`, `auth_gids`; the request in progress | `Dispatch`, `FindCached`, `FindRebuild`, `AuthFail`, `AuthUser`, `Reassume`, `AuthUserAgain`, `Serve` |
| `FhCache` | `fh.c`, `fh.h`, `nfsd.c` (read, write, create, remove), `nfs_dispatch.c` | global LRU `fhlru`, descriptor LRU `fdlru`, `fh_list_size`, `fd_cache_size`, each entry's fd/uid/mode/last_used, kernel descriptor set `kfds`, `ex_state`/`io_state`, the clock | `Dispatch`, `AuthFind`, `AuthUser`, `FdReuse`, `FdOpen`, `FdInactive`, `CreateOpen`, `CreateSpecial`, `CreateSetattr`, `ComposeFind`, `ComposeRefind`, `ComposeSet`, `RemoveName`, `DispatchDone`, `Alarm`, `AlarmDeferred`, `Hangup`, `Tick`, `ConnOpen`, `ConnClose` |
| `Devtab` | `devtab.c`, `failsafe.c` | each process's pc in `devtab_index`/`devtab_lock`, the device it wants, its in-core table and `devtab_mtime`, the pid it read from the lock file, its incarnation; the file's lines and mtime; the lock file's pid; the clock | `Miss`, `Link`, `OpenLock`, `Kill`, `Stat`, `DevtabAdd`, `Crash`, `Restart`, `Tick` |
| `Rmtab` | `rmtab.c`, `mountd.c` (MNT, UMNT, UMNTALL, DUMP) | mountd's pc, `rmtablist`, the bytes of `/etc/rmtab`, whether it exists, its mtime and `old_st_mtime`; ghost: the set of pairs the log should hold | `Mnt` (the record is the `realpath` of the argument, an empty argument read as `/`: `MntPath`, with `Realpath` a constant operator), `Umnt` (the argument as sent), `Umntall`, `Dump`, `WriteFile`, `Crash`, `CrashInWrite`, `Restart`, `Edit`, `Tick` |
| `Failsafe` | `failsafe.c`, `nfsd.c` (`main` after `failsafe`, `sigterm`), `logging.c` (`L_FATAL`) | the supervisor's pc, `servers[]`, `ncopies`, `running`, `last_restart`, `restarts`, `backoff`, whether it ignores its signals; each pid's state (starting, serving, zombie, reaped by the kernel, reaped by `wait`), the SIGTERM disposition it inherited and how it ended; the clock; the kernel; ghosts: servers owed a restart, the last back-off sleep | `Fork`, `ForkFail`, `EnterWait`, `ReapRestart`, `ReapLast`, `ReapRetire`, `WaitNoChild`, `Ready`, `Die`, `TermAll`, `Tick` |
| `FhPaths` | `fh.c` (`path_psi`, `fh_create`, `fh_buildpath`, `fh_find`'s CHECK, `fh_compose`, `fh_remove`, `fh_flush`), `nfsd.c` (`build_path`, LOOKUP, CREATE, MKDIR, SYMLINK, LINK, REMOVE, RMDIR, RENAME), `mountd.c` (MNT's `fh_create`), `auth.c` (`auth_match_mount`) | the exported tree as inode kinds and directory entries; nfsd's cache as psi to hash path and path; the handles clients hold; the static `pathbuf`; ghosts: each inode's allocation count, the reply of a CREATE on a read-only export | mountd's `MntStart` (MNT's `auth_path`, `stat` and kind checks) and `MntWalk` (one `path_psi` of `fh_create` per step, so nfsd's handlers run between them; the variable `mnt` holds the walk in progress); nfsd's `Lookup`, `Create`, `Mkdir`, `Symlink`, `Link` (refused with ACCES when the two handles are under different exports, `nfsd.c:749-752`; it links the source handle's own path), `RemoveFile`, `Rmdir`, `Rename`, `Evict` |
| `UgidMap` | `ugid_map.c`, `ugidd.c` (the four name procedures), `auth.c` (`auth_unknown_clientbyaddr`, `auth_init_lists`), `auth_init.c` (`parse_squash`, `parse_static_uidmap`) | the map mode; whether `squash_uids=`/`squash_gids=` comes before or after `map_static=` on the exports line (`order`, which `parse_opts` applies in the line's order); each host's four tables, entries with a value and an expiry; the ugidd handle cache slots (host, handle, last use); the clock; reloads and calls done; the last call and its result | `Luid(h, u)`, `Lgid(h, g)`, `Rid(h, how, op, i)` (ruid and rgid), each through `ugid_find` and, under `map_daemon`, `ugid_get_client` and `rlookup` with an RPC outcome ok, killed or transient: `ugidd_lookup`'s retry loop (`ugid_map.c:734`) ends either in an answer, in a failed call after which the client is killed, or in giving up with the handle kept, and only the end result changes state, so the retries are one step. `rlookup` passes names between the server's passwd/group files (`SrvPasswd`, `SrvGroup`, constant functions from id to name, `getpwuid`/`getpwnam`) and ugidd's `NAME_UID`, `GROUP_GID`, `UID_NAME`, `GID_GROUP` procedures (`ugidd.c`, operators over each client's files `CltPasswd`, `CltGroup`); `Reload` (`ugid_free_map` and `auth_init`); `Tick` |
| `Signals` | `signals.c`, `nfs_dispatch.c`, `fh.c` (`fh_flush`, `flush_cache`), `nfsd.c` (`reinitialize`, `auth_fh`), `auth.c`, `auth_init.c` | main-loop pc, `_rpcsvcdirty`, `need_flush`, `need_reinit`, both `inprogress` counters, `ex_state`, a stack of interrupted handler frames, each cache entry's client hint, the export-list generation, the file version loaded | the main loop's `Dispatch`, `Find`, `AuthFh`, `Reply`, `FlushCheck`; signal delivery `Deliver(r)`; the handler steps `FlushCacheStart`, `ReinitStart`, `FhFlushBegin`, `FhFlushEnd`, `AfterFlush`, `FlushCacheExit`, `AuthInitFree`, `AuthInitLoad`, `ReinitExit`; `Edit` of `/etc/exports` |
| `Exports` | `auth.c` (buckets, `auth_add_mount`, `auth_add_mountlist`, `auth_sort_mountlist`, `hostmatch`, the netmask test, `auth_check_all_*`, `auth_init_lists`, `auth_clientbyaddr`, `auth_known_clientbyaddr`, `auth_unknown_clientbyaddr`, `auth_match_mount`), `auth_init.c` (`auth_init`, `get_client`), `auth_clnt.c` (`auth_path`) | the installed exports file and the one the last `auth_init` read (`loaded`, which `GrantedByFile` and `WildcardBeforeNetmask` compare against); each client's mount list (path, length, options, parent); `known_clients`, `unknown_clients`, `wildcard_clients` and `netmask_clients`; the address hash; `cached_clients` and `cached_next`; `nr_anonymous_clients`; the last request since the last load and the mount it got | `Request(a, q)` (cache miss: hash or `auth_unknown_clientbyaddr`, then `auth_path`), `CachedRequest(a, q)`, `Reload` (SIGHUP's `auth_init`, a literal name may fail to resolve), `Edit` of the file. `auth_init`, the parse of a line (`ParseEntry`), `CheckNetmasks`, `CheckWildcards` and the lookups are folds over the lines and the pattern lists; `StrCmp`, `hostmatch` (`HostMatch`, RECURSIVE) and the prefix tests work on paths and names as character sequences |

Every action models a whole code path, from one point where the program can
be interrupted, or where another actor can act, to the next. Helpers keep the
C names: `setfsids`, `seteids`, `auth_user`, `auth_override_uid`, `fh_find`,
`fh_delete`, `fh_flush`.

The `MC*` modules and `.cfg` files instantiate the modules:

- **`MCCredSwitch`:**
  - uids and gids {0, 1};
  - group lists `<<>>`, `<<1>>`, `<<0,1>>`;
  - squash and no-squash exports.
  - These values cover equal and different lengths and a shared prefix for the `memcmp` cache.
- **`MCFhCache`:**
  - three handles, one of them a special file;
  - two uids;
  - `FH_CACHE_LIMIT` 1;
  - `FOPEN_MAX` 2, so `FD_CACHE_LIMIT` is 1;
  - descriptors 0..2, with 0 the RPC socket, plus one TCP connection;
  - `DISCARD_INTERVAL` 1 and a clock of 2 ticks.
  - The limits are the smallest at which eviction, descriptor flushing, idle close and discard all happen and interleave with calls.
- **`MCDevtab.cfg`:** two processes, three devices, two seconds, one kill and one restart. Two processes are enough for the lock to be contended and for a killed holder's lock to be found stale; two seconds let one append fall in the same second as a read and another not.
- **`MCRmtab`:** host names `a` and `b` and the arguments `/` and `/a` as character strings (`Args`, with `realpath` removing a trailing slash, so these are canonical; `MCRmtab_realpath.cfg` adds `/a/` and the empty argument), lines of at most 5 bytes kept (standing for 255: no modelled line is longer), two seconds, one kill of mountd in a behaviour (between calls or inside the rewrite; the constraint `MCOneKill`), one administrator edit. The strings are short but have common prefixes, so `strcmp` ordering, `rmtab_insert`'s early stop and `rmtab_mdel_client`'s early stop are all exercised.
- **`MCUgidMap`:** hosts `h1`, named in the exports, and `h2`, matched by a wildcard; ids {0, 1, 2} and `(uid_t)-2` (`NOBODY`), which a client may send and ugidd may answer; `squash_uids` and `squash_gids` {1}; one static line for uid and gid; root_squash on; both option orders (`Orders`). The server's passwd has root 0, alice 1 and nobody; `h1` has the same numbering plus bob 2, and `h2` numbers alice 2 and bob 1, so a translation that confuses direction or side gives a different name; every server name is known to both clients. Entries expire after one second; a two-slot handle cache, two seconds, one reload and two calls. Two calls are enough for a lookup and a lookup that meets its reverse entry; two hosts fill the two slots. A third call multiplies the states about seventy-fold without a new kind of step.
- **`MCFailsafe.cfg`:** two servers, three deaths, two seconds, both kernels. Two servers let a retirement shift a live pid down; three deaths within one second give the five forks after which the supervisor backs off.
- **`MCFhPaths`:** five inodes: `/`, a directory `/a` with a file `/a/a`, and two free; names `a` and `b`; `HP_LEN` 3, so a handle reaches depth two and fh_compose's hash-path limit is met one level further; hashes 0 for odd and 1 for even inodes, so a new `/b` collides with `/a` and a rebuild of `/b/a` descends into `/a` first; five calls and two allocations; `NFS_MAXPATHLEN` 16, above every modelled path; exports `/` (read-write) and `/a` (read-only), so a CREATE in `/a` meets ROFS after a write elsewhere has filled `pathbuf`; clients ask mountd for `/`, `/a` and `/a/a`, the last a walk of two components that nfsd can interleave with. Five calls are enough to mount, make a directory and a file in it, and rename or remove across them; evictions are free, so every cached/uncached mix is checked. Deadlock is not checked: the states where the call bound is spent and the cache is empty end the model, not the server.
- **`MCExports`:** addresses `a1` (1) and `a2` (2), both of host `h.X`, and `a3` (0) with no name; the pattern `*.x`, which matches `h.X` only case-blind after the dot; the netmask 1/1 (odd addresses, so `a1` and not `a2`); paths `/`, `/a`, `/a/a` and `/a-a`, where `-` sorts before `/` so that `/a-a` falls between `/a/a` and `/a` in `strcmp` order without being under `/a`; two files, the second dropping the netmask line and exporting `/a/a` to everyone; a two-slot cache and an anonymous limit of 1 (1000 in the code), so eviction and the unhash both happen; two reloads and four requests. Start-up and each reload may find `h.X` unresolvable, which puts it in `unknown_clients` until a request from it.
- **`MCSignals`:**
  - two handles;
  - two SIGHUPs, so that a reload can nest or be deferred;
  - two edits of the exports file.

## Runs

| Run | Result | What it shows |
|---|---|---|
| `credswitch` | pass | In both builds (a constant set `Builds`, one chosen per behaviour), the switch always installs the request's mapped groups (`GroupsAtSyscall`) and, in the `setfsuid` build, the request's mapped uid is the fsuid at the syscall (`UidAtSyscall`) except for an export-root call that skips `auth_user`; in the `seteuid` build it may be root instead. `setfsids` calls the `efs_setfsuid`/`efs_setfsgid` hooks before its cache tests (`auth_clnt.c:236-237`), so the restores in `fh_buildpath` and `path_open` cannot leave another uid in force; `seteids` runs only where `setfsuid(0)` failed, so its hooks change nothing. |
| `credswitch_identity` | violation of `IdentityAtSyscall` | In the `setfsuid` build: a request squashed to nobody misses the cache, `fh_buildpath` restores `auth_uid` 65534, and the next call, a GETATTR of an export root, skips `auth_user` (`nfsd.c:177`) and runs as nobody instead of root. In the `seteuid` build: two requests by the same mapped uid, and the second runs as root, because `seteids` skips `seteuid` when the cached `auth_uid` matches although the dispatcher reset the euid (`auth_clnt.c:327`). |
| `fhcache` | pass (about 3.0M states) | The two LRUs and their counters agree (`ListsConsistent`), every cached descriptor is open and held by one entry (`FdsOwned`), and the cache sizes stay within the code's own bounds (`FdCacheBound`, `CacheBound`). |
| `signals` | pass | Handlers change neither the cache nor the exports while a call is in progress (`HandlersDeferWhileDirty`). Once signals stop, a deferred reload or flush is carried out (`DeferredServed`). |
| `signals_hint` | violation of `NoStaleHint` | A SIGHUP nested in SIGALRM's `fh_flush` skips the forced flush, because `ex_state` is active. The reload frees the client lists, and the next call dereferences the freed `last_clnt` hint. |
| `devtab` | pass | While no process has been killed, at most one holds the lock (`MutualExclusionWhileNoneKilled`); a process that enters `devtab_lock` returns from it or dies (`LockServed`, under weak fairness of each process's steps). |
| `rmtab` | pass | With clients that name canonical paths, the list stays sorted without duplicates through kills, torn rewrites and edits (`ListSorted`); with no edit and no torn rewrite, DUMP returns exactly the pairs mounted and not unmounted (`DumpIsMountsUnlessTorn`). |
| `ugid` | pass | For hosts named in the exports, under the identity and static maps, every uid and gid in a squash range, and uid 0 under root_squash, maps to the anonymous id (`SquashHonouredNamed`). Under all three modes, the ugidd handle cache never holds two slots for one host (`NoDuplicateSlots`). Under `map_daemon`, every real id `luid`, `lgid`, `ruid` or `rgid` returns, from ugidd's answer or from a reverse entry stored after one, has the same name on the server as its counterpart on the client (`DaemonMapsByName`). |
| `ugid_wildcard` | violation of `SquashHonoured` | A host matched by a wildcard, netgroup or netmask entry gets a client with the export's options but an empty map (`auth.c:490`), so `luid` returns a uid in `squash_uids` unchanged. Spec 4.H says such ids map to the anonymous id. |
| `failsafe` | pass | Through restarts, retirements, deaths before the first `wait`, killall and fork failure, the slots below `ncopies` hold each unreaped server once and `running` counts them (`SlotsMatch`). On a kernel that keeps zombies, every server killed by a signal is forked again (`ReplacedOnZombieKernels`, under weak fairness of the supervisor and of server start-up). |

| `fhpaths` | pass | Through mounts (mountd's walk interleaved with nfsd's calls), lookups, creations, hard and symbolic links, removals, renames of files and directories and any cache evictions, `auth_fh` serves every handle a client holds: the path it gives, cached or rebuilt, names the handle's inode, and `fh_buildpath` finds a path whenever spec 4.D says one exists, colliding one-byte hashes included (`HandlesResolve`). With `/a` exported read-only, no step changes a directory under a read-only export (`ReadOnlyUnchanged`), including CREATE's branch that goes on after ROFS with a stale `pathbuf`. |
| `exports` | pass | Whatever order lines, netmasks, wildcards and the anonymous client are merged in, across reloads of two files and names unresolved at start-up, every client's list keeps the `strcmp` order `auth_match_mount` relies on, so the first match is the most specific export (`MostSpecificMatch`), and every known client's parent links name the nearest export above (`KnownParents`). |

Each property of a passing run has a mutant in `PROJECT.json`: a plausible bug
in the definition it depends on, which TLC catches under the same
configuration.

### Further configurations

These configurations are kept beside the runs; each makes TLC report a
counterexample to a property stated in its module, and each shows a
disagreement between the code and `spec.md`:

- `MCDevtab_stale.cfg` (`MutualExclusion`): a holder is killed; a waiter reads its dead pid, the restarted process removes the stale lock and takes it, then the waiter's `kill(pid, 0)` still fails and it unlinks the live holder's lock by name (`devtab.c:169`): both append, and two devices get the same index.
- `MCFhPaths_pathlen.cfg` (`HandlesResolve`, `NFS_MAXPATHLEN` 5): LOOKUP gives a handle for `/a/a`, 4 bytes, which `build_path` and `fh_compose` accept. Once its entry is evicted, `fh_buildpath` skips the name, because its buffer `/a/` ends in a slash and it tests `pathlen + n + 1 >= NFS_MAXPATHLEN` (`fh.c:574`): one byte stricter. The handle is stale though its path exists, which spec 4.D rules out.
- `MCFhPaths_mntrace.cfg` (`MntReplyValid`): `/` exported read-write with `/a/a` and `/b/a`, the directories hashing differently. mountd's `fh_create` for `/a/a` lstat's `/a` and records its hash; nfsd then removes `/a/a` and renames `/b` onto the now empty `/a`; the last lstat (`fh.c:1019`, here the final component's) finds `/b`'s old file. The handle has the old directory's hash and the new file's psi, so no path matches it and the first use is stale. mountd and nfsd are separate processes with no lock between them.
- `MCFhPaths_rofs.cfg` (`RofsCreateAsCommented`): a CREATE with zero file-type bits naming the existing directory `/a` is answered OK and leaves `/a` in `pathbuf`. The next CREATE, of `/a/a` on the read-only export, gets ROFS from `auth_fh` before `build_path` copies anything. It then lstat's the stale `/a`, finds a directory, sets the status back to OK (`nfsd.c:538-553`) and returns a handle for the regular file `/a/a`. The comment at `nfsd.c:531` and spec 4.L mean this branch only for an existing special file of the name asked for.
- `MCFhPaths_reuse.cfg` (`HandleNamesIssuedFile`): a file is removed and a new one created in the same directory gets the freed inode. The old handle has the same pseudo-inode and hash path and resolves to the new file (`fh.c:879`): handles carry no generation number.
- `MCFhCache_fdindex.cfg` (`FdIndexInBounds`): a file descriptor numbered `FOPEN_MAX` or more is written to `fd_cache[fd]` out of bounds (`fh.c:212`).
- `MCRmtab_crash.cfg` (`DumpIsMounts`): mountd killed inside `rmtab_file('w')`, which truncates the file and rewrites it in place (`rmtab.c:309`). The next mountd reads a prefix and loses records; a cut last line plus the stored `(char)EOF` becomes a bogus record.
- `MCFailsafe_term.cfg` (`TermStops`): a server dies of a signal just before killall -TERM. The supervisor ignores SIGTERM, reaps it and forks a new server that the signal never reached (`failsafe.c:80`), so the supervisor waits for ever. A server restarted earlier and still starting up ignores the SIGTERM itself, because it inherited `SIG_IGN`.
- `MCFailsafe_backoff.cfg` (`BackoffDoubles`): one server crashing at once after every fork. After a back-off sleep the next fork falls in a new second, which resets `restarts` and `backoff` (`failsafe.c:45`). The next burst again sleeps 120 s; the back-off never doubles beyond that, though the spec says it doubles up to an hour.
- `MCFhCache_leak.cfg` (`OpenFdsWithinLimit`): CREATE leaks its descriptor when `setattr` fails (`nfsd.c:656`).
- `MCUgidMap_daemon.cfg` (`SquashHonoured`): under `map_daemon`, `ruid` of a squashed uid asks ugidd and stores the answer in the remote-to-local table (`ugid_map.c:190`). That overwrites the squash record, and the next `luid` of that uid returns a real local uid. The anonymous id is set equal to `AUTH_UID_NOBODY` here; otherwise the first squashed lookup already fails, because `map_daemon` returns `(uid_t)-2` rather than the export's `anonuid` (`ugid_map.c:195`).
- `MCUgidMap_nobody.cfg` (`DaemonMapsByName`): the clients have no alice. `ruid` of the server's alice (a getattr of her file) asks ugidd `NAME_UID("alice")`, which answers `NOBODY`, `(uid_t)-2` (`ugidd.c:267`). `ugid_find` takes that for a real id and stores the reverse entry `-2 -> alice` (`ugid_map.c:190`), so the next request from the client's uid -2 runs as alice until the entry expires.
- `MCUgidMap_oob.cfg` (`SlotInBounds`): with a one-slot handle cache, two hosts in the same second leave no slot older than now. `oldest` stays -1, and `ugid_get_client` calls `clnt_destroy` on `cache[-1]` and writes it (`ugid_map.c:573`).
- `MCFhCache_limit.cfg` (`CacheWithinLimit`): the cache holds `FH_CACHE_LIMIT + 1` entries (`fh.c:914`); spec §3 says at most the limit.
- `MCSignals_reload.cfg` (`ReloadApplied`): a SIGHUP during a running reload, after the file was read, is dropped by `inprogress` (`nfsd.c:1234`), so the newer exports file is never loaded.
- `MCDevtab_reread.cfg` (`ReReadKeepsIndices`): an append by another process in the same second as this process's last read is not seen (`devtab.c:90`). This process then appends its device at an index the other already gave to a different device, and its next reread renumbers a device already in use. Spec 4.B says rereads never reorder indices.
- `MCDevtab_abort.cfg` (`NoFatalExit`): the lock file vanishes between the failed `link` and the `open` (`devtab.c:150`); `devtab_lock` ends in `Dprintf(L_FATAL)`, `exit(1)`, and failsafe does not restart a child that exited.
- `MCRmtab_colon.cfg` (`DumpIsMounts`): a mounted path containing `:` is read back with the host ended at the first colon and the path started after the last (`rmtab.c:288`).
- `MCRmtab_long.cfg` (`NoPhantomEntries`): a line longer than the buffer is cut and its prefix inserted (`rmtab.c:287`); spec 4.J says it is skipped.
- `MCFailsafe_autoreap.cfg` (`ServerReplaced`): on a kernel that reaps children at once while SIGCHLD is ignored (POSIX.1-2001, Linux 2.6 on), a server killed by a signal vanishes without `wait()` returning it (`failsafe.c:83`). It is never forked again, and once the others are gone `wait()` fails with ECHILD and the supervisor exits by `L_FATAL`. The spec says the supervisor restarts any worker that exits abnormally.
- `MCExports_netmask.cfg` (`GrantedByFile`): `/a/a` is exported to the netmask 1/1; the administrator removes that line and sends SIGHUP; the reload reads the new file. `auth_init_lists` frees every bucket but `netmask_clients` (`auth.c:1137`), so `get_client` is never asked for the netmask, the old client keeps its mounts, and `auth_check_all_netmasks` copies them into `h.X` again: `a1` is still served `/a/a` with the removed line's options. Spec 4.L says a revoked export takes effect on the next call.
- `MCExports_multihome.cfg` (`GrantedByFile`): no literal name; `a1`'s first request matches `*.x` and the netmask, and `auth_create_client` hashes the new client under both addresses of `h.X` (`auth.c:523`, `auth_hash_host`). A request from `a2`, which the netmask does not cover, is then served the netmask's export.
- `MCExports_order.cfg` (`WildcardBeforeNetmask`): `h.X` is named in the file for `/a`, and `/a/a` goes to `*.x` and to the netmask. `auth_init` copies the netmask's list into known clients before the wildcards' (`auth_init.c:568-570`), and `auth_add_mountlist` keeps the first, so `h.X` gets the netmask's options for `/a/a`; a host not named in the file gets the wildcard's, as spec 4.F's order says.
- `MCExports_anon.cfg` (`ServedParents`): the anonymous client exports `/` and `/a/a`. A host nothing else matches is served the anonymous client itself, whose list `auth_sort_all_mountlists` never sorts (`auth.c:1073`, known clients only), so `/a/a` has no parent and READDIR's `hidedot` (`nfsd.c:887`) treats it as the top of the tree.
- `MCRmtab_realpath.cfg` (`DumpIsMounts`): a client mounts `/a/`; MNT records `realpath`'s `/a` (`mountd.c:112-124`) and the file is written; its UMNT of `/a/` deletes the raw argument (`mountd.c:188`), finds no record, and DUMP still lists `/a` for a mount the client released.
- `MCUgidMap_order.cfg` (`SquashHonouredNamed`): the static file maps uid 1 to 2 and `squash_uids` contains 1. With `squash_uids=` before `map_static=` on the exports line, `parse_opts` (`auth_init.c:297-309`) lets the static line overwrite the squash record, and `luid(h1, 1)` returns 2. Spec 4.H gives squashing precedence whatever the order.
- `MCRmtab_edit.cfg` (`DumpIsMounts`): an administrator's edit in the same second as mountd's last write is not reread (`rmtab.c:258`), and the next rewrite overwrites it. Spec 4.J says rereads tolerate concurrent editors; spec 5 mentions a lock the code does not take.

## Fairness

`Signals` assumes weak fairness of every process step except a new request
and a new signal:

- `svc_run` always runs the next step of the main loop;
- a handler runs to completion on the same thread once it starts.

Signals can arrive forever, and SIGALRM re-arms itself. So `DeferredServed`
is stated under the assumption that signal deliveries eventually stop
(`SignalsCease`). `Failsafe` assumes weak fairness of the supervisor's steps, a loop of
system calls, and of each server's start-up up to its handlers; deaths,
killall and the clock are not fair. `Devtab` assumes weak fairness of each process's lock
steps: `devtab_index` is a straight sequence of system calls and `sleep(1)`
with nothing to wait for but the lock. Kills, restarts, new misses and the
clock are not fair. The `CredSwitch`, `Exports`, `FhCache`, `FhPaths`, `Rmtab` and `UgidMap` runs check safety
only and assume no fairness.

## Not modelled

- **Parsing of `/etc/exports`** (continuations, comments, `parse_opts`, `realpath` of the path): a line is a path, one client field and an option set. `Exports` models the database built from the lines; in `Signals` an export list is a generation number. Netgroups (`innetgr`, a NIS query), the promiscuous default client, literal IP addresses in the file, the secure-port test of `auth_path` and the resolver's spoof check (the model's `Rev` is the verified answer) are left out. DNS answers are fixed except that a literal name may fail to resolve during `auth_init`.
- **`fh_buildpath` and pseudo-inodes in `FhCache` and `CredSwitch`:** abstracted to "rebuild succeeds or fails"; `FhPaths` models the search. `FhPaths` has one device, so a pseudo-inode is the inode number and mount points are not crossed; `hash_psi` is a constant table with collisions. Symbolic links are made and removed but their text is not modelled, and lookups do not follow them. `.` and `..` in `fh_compose`, the public (WebNFS) handle and device, FIFO and socket creation by CREATE (mknod) are left out: CREATE has the regular-file branch and, for zero file-type bits, the branch for an existing directory or symlink. The descriptor and LRU side of the cache is `FhCache`'s.
- **A MKDIR or CREATE whose `fh_compose` fails** (`nfsd.c:808`, NAMETOOLONG with the hash path full) has changed the file system and still answers with an error; no property states what the client sees.
- **Attribute conversion and the other NFS procedures** (`getattr`, `setattr`, `readdir`, `readlink`, `statfs`): not modelled yet.
- **mountd beyond rmtab and MNT's walk:** `realpath` is a constant operator of `Rmtab` (in `MCRmtab` it removes a trailing slash; link text is not modelled), and the `noaccess` option, `nfsmounted`, PATHCONF and EXPORT are left out. MNT records the mount in rmtab even when `fh_create` fails; `Rmtab` takes MNT as successful. `gethostbyaddr` failing (no record written) is not modelled. The deferred reinitialize is the same pattern as nfsd's and is covered by `Signals`.
- **failsafe details:** the length of a sleep is not modelled, only that it ends in a later second. SIGINT and SIGHUP follow SIGTERM's inheritance and are left out. `wait()` failing with an error other than ECHILD (EINTR) is not modelled: every signal that could interrupt it is ignored.
- **Identity map details:** the radix trie of `ugid_get_entry` is a function from id to entry. NIS maps are the daemon path with another resolver. Which hosts a pattern matches is a constant (`Exact`) in `UgidMap`; `Exports` models the matching itself.
- **ugidd beyond its name procedures:** `AUTHENTICATE`, which nfsd no longer calls (`ugid_map.c:641`), and `main`'s daemon setup are not modelled; the dispatcher's refusal of a host and its decode errors are the RPC outcomes `ugidd_lookup` sees. User and group names longer than `MAXUGLEN` are not modelled.
- **Other programs:** `rquotad` has no model. See `PROJECT.json` for the reasons and the hazards recorded against them.

## Plan

Done: `Devtab`, `Rmtab`, `UgidMap`, `Failsafe`, `FhPaths` (which covers the
old item "PathRebuild": `fh_buildpath` is a RECURSIVE operator checked against
the reference path set of spec 4.D).

Read-only exports and `pathbuf` are in `FhPaths` (the stale `pathbuf` hazard of CREATE).

The export database is in `Exports`.

mountd's MNT walk is in `FhPaths`, interleaved with nfsd; ugidd's name procedures are in `UgidMap`, under `rlookup`.

1. **READLINK into `pathbuf`:** READLINK writes the link's text into `pathbuf`, so a client could aim the stale lstat anywhere; link text is not modelled yet.
2. **MNT and rmtab together:** MNT records a mount in `/etc/rmtab` even when `fh_create` fails; composing `Rmtab` with the MNT walk would show the log naming mounts no client holds.
