------------------------------- MODULE Devtab -------------------------------
(***************************************************************************)
(* The shared device table of devtab.c: server processes (nfsd copies and *)
(* mountd) map a device number to a small index by its position in the   *)
(* file /var/state/nfs/devtab.  A process that meets a device missing from *)
(* its in-core table takes the lock PATH_DEVTAB ".lock" by link(2) from a  *)
(* pid file, rereads the table if its mtime changed since the last read,  *)
(* appends the device and unlinks the lock.  A lock whose pid no longer   *)
(* exists is unlinked as stale.  Processes die by a signal (failsafe      *)
(* restarts them) or by exit(1) from Dprintf(L_FATAL) (failsafe does not). *)
(***************************************************************************)
EXTENDS Naturals, Sequences, SequencesExt, FiniteSets

CONSTANTS
    Procs,        \* server processes sharing the table
    Devs,         \* device numbers
    MaxTime,      \* last second of the clock; mtime has one-second grain
    MaxCrash,     \* bound on deaths by a signal
    MaxRestarts,  \* bound on failsafe restarts of one process
    NoDev         \* no device: devtab_index not called yet

VARIABLES
    pc,       \* where each process is in devtab_index and devtab_lock
    want,     \* the device devtab_index was called with
    tbl,      \* the in-core table devtab[0..nrdevs-1] of each process
    mtime,    \* devtab_mtime of each process
    seen,     \* the holder read from the lock file by each process
    inc,      \* incarnation of each process; a pid dies with it
    file,     \* lines of the devtab file, line i binding index i
    fmtime,   \* st_mtime of the devtab file
    lock,     \* the pid in the lock file, or NoLock
    now,      \* time(NULL)
    crashes   \* deaths by a signal so far

vars == <<pc, want, tbl, mtime, seen, inc, file, fmtime, lock, now, crashes>>

NoLock == <<>>
Pids == Procs \X (0 .. MaxRestarts + MaxCrash + 1)
PCs == {"idle", "link", "open", "kill", "stat", "append", "crashed", "exited"}

\* A pid names a live process when that process has not died since.
Alive(pid) == inc[pid[1]] = pid[2] /\ pc[pid[1]] \notin {"crashed", "exited"}

Init ==
    /\ pc = [p \in Procs |-> "idle"]
    /\ want = [p \in Procs |-> NoDev]
    /\ tbl = [p \in Procs |-> <<>>]
    /\ mtime = [p \in Procs |-> 0]
    /\ seen = [p \in Procs |-> NoLock]
    /\ inc = [p \in Procs |-> 0]
    /\ file = <<>>
    /\ fmtime = 0
    /\ lock = NoLock
    /\ now = 1
    /\ crashes = 0

(* devtab_index: the device is not in the in-core table; switch to root  *)
(* and enter devtab_lock, which writes the pid file and starts to loop.  *)
Miss(p, d) ==
    /\ pc[p] = "idle"
    /\ d \notin ToSet(tbl[p])
    /\ pc' = [pc EXCEPT ![p] = "link"]
    /\ want' = [want EXCEPT ![p] = d]
    /\ UNCHANGED <<tbl, mtime, seen, inc, file, fmtime, lock, now, crashes>>

(* link(tempname, PATH_DEVTAB_LOCK): it succeeds only if no lock file. *)
Link(p) ==
    /\ pc[p] = "link"
    /\ IF lock = NoLock
         THEN /\ lock' = <<p, inc[p]>>
              /\ pc' = [pc EXCEPT ![p] = "stat"]
         ELSE /\ pc' = [pc EXCEPT ![p] = "open"]
              /\ UNCHANGED lock
    /\ UNCHANGED <<want, tbl, mtime, seen, inc, file, fmtime, now, crashes>>

(* EEXIST, so open and read the lock file.  If it has gone meanwhile the *)
(* loop breaks unlocked and devtab_lock ends in Dprintf(L_FATAL).        *)
OpenLock(p) ==
    /\ pc[p] = "open"
    /\ IF lock = NoLock
         THEN /\ pc' = [pc EXCEPT ![p] = "exited"]
              /\ inc' = [inc EXCEPT ![p] = @ + 1]
              /\ UNCHANGED seen
         ELSE /\ seen' = [seen EXCEPT ![p] = lock]
              /\ pc' = [pc EXCEPT ![p] = "kill"]
              /\ UNCHANGED inc
    /\ UNCHANGED <<want, tbl, mtime, file, fmtime, lock, now, crashes>>

Kill_noesrch(p) ==
    /\ pc[p] = "kill"
    /\ lock' = NoLock
    /\ pc' = [pc EXCEPT ![p] = "link"]
    /\ UNCHANGED <<want, tbl, mtime, seen, inc, file, fmtime, now, crashes>>

(* kill(pid, 0) fails with ESRCH: unlink the lock file, whoever's it is  *)
(* by now, and retry; otherwise sleep(1) and retry.                      *)
Kill(p) ==
    /\ pc[p] = "kill"
    /\ lock' = IF Alive(seen[p]) THEN lock ELSE NoLock
    /\ pc' = [pc EXCEPT ![p] = "link"]
    /\ UNCHANGED <<want, tbl, mtime, seen, inc, file, fmtime, now, crashes>>

(* devtab_read: the in-core table becomes the lines of the file, and   *)
(* devtab_mtime its st_mtime.                                           *)
devtab_read(p) ==
    /\ tbl' = [tbl EXCEPT ![p] = file]
    /\ mtime' = [mtime EXCEPT ![p] = fmtime]

(* devtab_add: the device takes index nrdevs. *)
devtab_add(t, d) == Append(t, d)

(* devtab_unlock: unlink the lock file. *)
Unlock == NoLock

(* devtab_open("a") and fstat; if st_mtime differs from devtab_mtime,    *)
(* devtab_read replaces the in-core table by the file and records the    *)
(* mtime; a device found there ends devtab_index at done.                *)
Stat(p) ==
    /\ pc[p] = "stat"
    /\ IF fmtime # mtime[p]
         THEN /\ devtab_read(p)
              /\ IF want[p] \in ToSet(file)
                   THEN /\ lock' = Unlock
                        /\ pc' = [pc EXCEPT ![p] = "idle"]
                   ELSE /\ pc' = [pc EXCEPT ![p] = "append"]
                        /\ UNCHANGED lock
         ELSE /\ pc' = [pc EXCEPT ![p] = "append"]
              /\ UNCHANGED <<tbl, mtime, lock>>
    /\ UNCHANGED <<want, seen, inc, file, fmtime, now, crashes>>

DevtabAdd_nounlock(p) ==
    /\ pc[p] = "append"
    /\ tbl' = [tbl EXCEPT ![p] = Append(@, want[p])]
    /\ file' = Append(file, want[p])
    /\ fmtime' = now
    /\ pc' = [pc EXCEPT ![p] = "idle"]
    /\ UNCHANGED <<want, mtime, seen, inc, now, crashes, lock>>

DevtabAdd_index(p) ==
    /\ pc[p] = "append"
    /\ tbl' = [tbl EXCEPT ![p] = Append(@, want[p])]
    /\ file' = Append(file, Len(tbl[p]))
    /\ fmtime' = now
    /\ lock' = Unlock
    /\ pc' = [pc EXCEPT ![p] = "idle"]
    /\ UNCHANGED <<want, mtime, seen, inc, now, crashes>>

(* devtab_add and fprintf: the device gets index nrdevs in core and the   *)
(* next line of the file, which sets the file's mtime; devtab_mtime is   *)
(* left as it was.  Then devtab_unlock.                                  *)
DevtabAdd(p) ==
    /\ pc[p] = "append"
    /\ tbl' = [tbl EXCEPT ![p] = devtab_add(@, want[p])]
    /\ file' = Append(file, want[p])
    /\ fmtime' = now
    /\ lock' = Unlock
    /\ pc' = [pc EXCEPT ![p] = "idle"]
    /\ UNCHANGED <<want, mtime, seen, inc, now, crashes>>

(* A fatal signal, at any point: the lock file, if held, stays behind. *)
Crash(p) ==
    /\ pc[p] \notin {"crashed", "exited"}
    /\ crashes < MaxCrash
    /\ pc' = [pc EXCEPT ![p] = "crashed"]
    /\ inc' = [inc EXCEPT ![p] = @ + 1]
    /\ crashes' = crashes + 1
    /\ UNCHANGED <<want, tbl, mtime, seen, file, fmtime, lock, now>>

(* failsafe: a child killed by a signal other than SIGTERM is forked   *)
(* again and starts with an empty in-core table.                       *)
Restart(p) ==
    /\ pc[p] = "crashed"
    /\ inc[p] <= MaxRestarts
    /\ pc' = [pc EXCEPT ![p] = "idle"]
    /\ tbl' = [tbl EXCEPT ![p] = <<>>]
    /\ mtime' = [mtime EXCEPT ![p] = 0]
    /\ UNCHANGED <<want, seen, inc, file, fmtime, lock, now, crashes>>

Tick ==
    /\ now < MaxTime
    /\ now' = now + 1
    /\ UNCHANGED <<pc, want, tbl, mtime, seen, inc, file, fmtime, lock, crashes>>

Step(p) == Link(p) \/ OpenLock(p) \/ Kill(p) \/ Stat(p) \/ DevtabAdd(p)

Next ==
    \/ \E p \in Procs :
          \/ \E d \in Devs : Miss(p, d)
          \/ Step(p)
          \/ Crash(p)
          \/ Restart(p)
    \/ Tick

(* Each process runs devtab_index to its end once called: it is a       *)
(* sequence of system calls and a sleep(1), with nothing to wait on but *)
(* the lock.                                                            *)
Spec == Init /\ [][Next]_vars /\ \A p \in Procs : WF_vars(Step(p))

-----------------------------------------------------------------------------

TypeOK ==
    /\ pc \in [Procs -> PCs]
    /\ want \in [Procs -> Devs \cup {NoDev}]
    /\ tbl \in [Procs -> Seq(Devs)]
    /\ mtime \in [Procs -> 0 .. MaxTime]
    /\ seen \in [Procs -> Pids \cup {NoLock}]
    /\ inc \in [Procs -> 0 .. MaxRestarts + MaxCrash + 1]
    /\ file \in Seq(Devs)
    /\ fmtime \in 0 .. MaxTime
    /\ lock \in Pids \cup {NoLock}
    /\ now \in 1 .. MaxTime
    /\ crashes \in 0 .. MaxCrash

(* The link lock excludes: at most one process is between a successful *)
(* link in devtab_lock and the unlink in devtab_unlock.                 *)
MutualExclusion ==
    Cardinality({p \in Procs : pc[p] \in {"stat", "append"}}) <= 1

(* While no server has been killed, the lock excludes: stale-lock      *)
(* removal, which only a killed holder triggers, is the one way two     *)
(* processes can both hold it.                                          *)
MutualExclusionWhileNoneKilled == crashes = 0 => MutualExclusion

(* Spec 4.B: re-reads never reorder existing indices.  A running process *)
(* only ever extends its in-core table, so the index it gave a device,   *)
(* and put into pseudo inode numbers, keeps naming that device.          *)
ReReadKeepsIndices ==
    [][\A p \in Procs :
          pc[p] \notin {"crashed", "exited"} => IsPrefix(tbl[p], tbl'[p])]_vars

(* devtab_lock never makes a server exit: waiting for the lock ends with *)
(* the lock.                                                            *)
NoFatalExit == \A p \in Procs : pc[p] # "exited"

(* A process that enters devtab_lock eventually returns from            *)
(* devtab_index, or dies.                                               *)
LockServed ==
    \A p \in Procs :
        pc[p] = "link" ~> pc[p] \in {"idle", "crashed", "exited"}
=============================================================================
