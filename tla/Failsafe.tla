------------------------------ MODULE Failsafe ------------------------------
(***************************************************************************)
(* failsafe() of failsafe.c, the supervisor of rpc.nfsd -z and rpc.mountd *)
(* -z, with the servers it forks.  The supervisor forks ncopies servers,  *)
(* records their pids in servers[], sets SIGTERM, SIGHUP, SIGINT and      *)
(* SIGCHLD to SIG_IGN and waits.  A server killed by a signal other than  *)
(* SIGTERM is forked again in its slot; one that exited, or died of       *)
(* SIGTERM, is retired: the slots above it shift down and ncopies drops.  *)
(* More than 2*ncopies forks within one second make it sleep(backoff).    *)
(*                                                                         *)
(* A forked server inherits the supervisor's dispositions and keeps them  *)
(* until nfsd.c/mountd.c install their handlers after their start-up.     *)
(* What wait() sees while SIGCHLD is SIG_IGN depends on the kernel:       *)
(* "zombies" (Linux before 2.6) keeps dead children for wait(); with      *)
(* "autoreap" (POSIX.1-2001, Linux 2.6 on) they vanish, and wait()        *)
(* blocks until no child is left and then fails with ECHILD.              *)
(***************************************************************************)
EXTENDS Naturals, FiniteSets

CONSTANTS
    NCOPIES,     \* ncopies as requested by -n
    MaxDeaths,   \* bound on servers dying by a signal or a fatal exit
    MaxTime,     \* last second the clock reaches by itself
    Kernels      \* the kernels considered, one chosen per behaviour

ASSUME Kernels \subseteq {"zombies", "autoreap"} /\ Kernels # {}

VARIABLES
    kernel,        \* the kernel this behaviour runs on
    sup,           \* where the supervisor is
    servers,       \* servers[i], the pid in slot i, or 0
    ncopies,       \* slots in use
    running,       \* servers counted as running
    last_restart,  \* second of the last burst of forks
    restarts,      \* forks in that second, after the first
    backoff,       \* seconds of the next back-off sleep
    now,           \* time(NULL)
    ignoring,      \* the supervisor has set its signals to SIG_IGN
    st,            \* state of each pid
    inh,           \* SIGTERM disposition each server inherited at fork
    how,           \* how each dead server ended
    nextpid,       \* the pid the next fork returns
    deaths,        \* deaths by a signal or a fatal exit so far
    term,          \* the administrator's SIGTERM to all has been sent
    owed,          \* servers killed by a signal and not yet forked again
    lastsleep      \* length of the last back-off sleep since the clock ticked

vars == <<kernel, sup, servers, ncopies, running, last_restart, restarts,
          backoff, now, ignoring, st, inh, how, nextpid, deaths, term, owed,
          lastsleep>>

Pids == 1 .. NCOPIES + MaxDeaths
Slots == 0 .. NCOPIES - 1
SupStates == {"spawn", "wait", "exited", "forkfail", "fatal", "killed"}
Backoffs == {60 * 2^k : k \in 0 .. 6}

\* Pids the supervisor has not reaped: their slots are still in use.
Unreaped == {p \in Pids : st[p] \in {"init", "serve", "zombie", "gone"}}
\* Servers that have not died.
Alive == {p \in Pids : st[p] \in {"init", "serve"}}

\* A server that dies becomes a zombie for wait(), unless SIGCHLD is
\* ignored on a kernel that then reaps it at once.
Dead == IF kernel = "autoreap" /\ ignoring THEN "gone" ELSE "zombie"

Init ==
    /\ kernel \in Kernels
    /\ sup = "spawn"
    /\ servers = [i \in Slots |-> 0]
    /\ ncopies = NCOPIES
    /\ running = 0
    /\ last_restart = 0
    /\ restarts = 0
    /\ backoff = 60
    /\ now = 1
    /\ ignoring = FALSE
    /\ st = [p \in Pids |-> "none"]
    /\ inh = [p \in Pids |-> "none"]
    /\ how = [p \in Pids |-> "none"]
    /\ nextpid = 1
    /\ deaths = 0
    /\ term = FALSE
    /\ owed = 0
    /\ lastsleep = 0

(* The rate check at the top of the fork loop: a fork in the same second *)
(* as the last burst counts; more than 2*ncopies double the back-off,   *)
(* below an hour, and sleep for it; a new second starts a new burst.    *)
(* time(NULL) is read before the sleep only, so a sleep ends in a later *)
(* second than last_restart.                                            *)
TooQuick == now = last_restart /\ restarts + 1 > 2 * ncopies

RateLimit ==
    /\ restarts' = IF now = last_restart THEN restarts + 1 ELSE 0
    /\ last_restart' = now
    /\ backoff' = CASE TooQuick /\ backoff < 60 * 60 -> 2 * backoff
                    [] now = last_restart           -> backoff
                    [] OTHER                        -> 60
    /\ now' = IF TooQuick THEN now + 1 ELSE now
    /\ lastsleep' = IF TooQuick THEN backoff' ELSE lastsleep

\* The first free slot.
FreeSlot == LET free == {i \in Slots : i < ncopies /\ servers[i] = 0}
            IN  CHOOSE i \in free : \A j \in free : i <= j

(* One pass of the fork loop: rate check, first free slot, fork.  The   *)
(* child starts with the supervisor's dispositions.                     *)
Fork ==
    /\ sup = "spawn"
    /\ running < ncopies
    /\ RateLimit
    /\ servers' = [servers EXCEPT ![FreeSlot] = nextpid]
    /\ running' = running + 1
    /\ st' = [st EXCEPT ![nextpid] = "init"]
    /\ inh' = [inh EXCEPT ![nextpid] = IF ignoring THEN "ignore" ELSE "default"]
    /\ nextpid' = nextpid + 1
    /\ owed' = IF owed > 0 THEN owed - 1 ELSE 0
    /\ UNCHANGED <<kernel, sup, ncopies, ignoring, how, deaths, term>>

(* fork() fails: Dprintf(L_FATAL) ends the supervisor. *)
ForkFail ==
    /\ sup = "spawn"
    /\ running < ncopies
    /\ RateLimit
    /\ sup' = "forkfail"
    /\ UNCHANGED <<kernel, servers, ncopies, running, ignoring, st, inh, how,
                   nextpid, deaths, term, owed>>

(* All slots filled: ignore_signal on SIGTERM, SIGHUP, SIGINT, SIGCHLD, *)
(* then wait().                                                          *)
EnterWait ==
    /\ sup = "spawn"
    /\ running >= ncopies
    /\ ignoring' = TRUE
    /\ sup' = "wait"
    /\ UNCHANGED <<kernel, servers, ncopies, running, last_restart, restarts,
                   backoff, now, st, inh, how, nextpid, deaths, term, owed,
                   lastsleep>>

\* The slot wait()'s pid is found in.
SlotOf(p) == CHOOSE i \in Slots : i < ncopies /\ servers[i] = p

Restartable_swapped(p) == how[p] = "exit"

\* WIFSIGNALED with a signal other than SIGTERM: restart.
Restartable(p) == how[p] = "signal"

(* wait() returns a dead server to be forked again: its slot is cleared *)
(* and the fork loop runs.                                               *)
ReapRestart(p) ==
    /\ sup = "wait"
    /\ st[p] = "zombie"
    /\ Restartable(p)
    /\ st' = [st EXCEPT ![p] = "reaped"]
    /\ servers' = [servers EXCEPT ![SlotOf(p)] = 0]
    /\ running' = running - 1
    /\ sup' = "spawn"
    /\ UNCHANGED <<kernel, ncopies, last_restart, restarts, backoff, now,
                   ignoring, inh, how, nextpid, deaths, term, owed, lastsleep>>

(* wait() returns the last server, and it is not to be restarted:       *)
(* "No more children, exiting.", exit(0).                               *)
ReapLast(p) ==
    /\ sup = "wait"
    /\ st[p] = "zombie"
    /\ ~Restartable(p)
    /\ running = 1
    /\ st' = [st EXCEPT ![p] = "reaped"]
    /\ servers' = [servers EXCEPT ![SlotOf(p)] = 0]
    /\ running' = 0
    /\ sup' = "exited"
    /\ UNCHANGED <<kernel, ncopies, last_restart, restarts, backoff, now,
                   ignoring, inh, how, nextpid, deaths, term, owed, lastsleep>>

Retire_noshift(s, i) == s

\* The slots above slot i move down by one; the last keeps its value.
Retire(s, i) == [j \in Slots |-> IF i <= j /\ j < ncopies - 1 THEN s[j + 1] ELSE s[j]]

ReapRetire_noexit(p) ==
    /\ sup = "wait"
    /\ st[p] = "zombie"
    /\ ~Restartable(p)
    /\ st' = [st EXCEPT ![p] = "reaped"]
    /\ servers' = Retire([servers EXCEPT ![SlotOf(p)] = 0], SlotOf(p))
    /\ running' = running - 1
    /\ ncopies' = ncopies - 1
    /\ sup' = "spawn"
    /\ UNCHANGED <<kernel, last_restart, restarts, backoff, now, ignoring, inh,
                   how, nextpid, deaths, term, owed, lastsleep>>

(* wait() returns a server that is not to be restarted, others run: its *)
(* slot is cleared, the slots above shift down, and ncopies drops so no *)
(* new server is started for it.                                         *)
ReapRetire(p) ==
    /\ sup = "wait"
    /\ st[p] = "zombie"
    /\ ~Restartable(p)
    /\ running > 1
    /\ st' = [st EXCEPT ![p] = "reaped"]
    /\ servers' = Retire([servers EXCEPT ![SlotOf(p)] = 0], SlotOf(p))
    /\ running' = running - 1
    /\ ncopies' = ncopies - 1
    /\ sup' = "spawn"
    /\ UNCHANGED <<kernel, last_restart, restarts, backoff, now, ignoring, inh,
                   how, nextpid, deaths, term, owed, lastsleep>>

(* wait() fails with ECHILD: no child is left to wait for; L_FATAL.     *)
WaitNoChild ==
    /\ sup = "wait"
    /\ \A p \in Pids : st[p] \notin {"init", "serve", "zombie"}
    /\ sup' = "fatal"
    /\ UNCHANGED <<kernel, servers, ncopies, running, last_restart, restarts,
                   backoff, now, ignoring, st, inh, how, nextpid, deaths, term,
                   owed, lastsleep>>

(* A server finishes its start-up and installs its SIGHUP and SIGTERM   *)
(* handlers (nfsd.c main; mountd.c main).                                *)
Ready(p) ==
    /\ st[p] = "init"
    /\ st' = [st EXCEPT ![p] = "serve"]
    /\ UNCHANGED <<kernel, sup, servers, ncopies, running, last_restart,
                   restarts, backoff, now, ignoring, inh, how, nextpid, deaths,
                   term, owed, lastsleep>>

(* A server dies of a signal such as SIGSEGV, or exits by Dprintf(L_FATAL). *)
Die(p, why) ==
    /\ p \in Alive
    /\ deaths < MaxDeaths
    /\ st' = [st EXCEPT ![p] = Dead]
    /\ how' = [how EXCEPT ![p] = why]
    /\ deaths' = deaths + 1
    /\ owed' = IF why = "signal" THEN owed + 1 ELSE owed
    /\ UNCHANGED <<kernel, sup, servers, ncopies, running, last_restart,
                   restarts, backoff, now, ignoring, inh, nextpid, term,
                   lastsleep>>

(* killall -TERM: a server with its handler runs sigterm(), exit(1); one *)
(* still starting dies of SIGTERM, or ignores it if it inherited SIG_IGN; *)
(* the supervisor dies of it before its first ignore_signal.            *)
TermAll ==
    /\ ~term
    /\ term' = TRUE
    /\ LET stops(p) == st[p] = "serve" \/ (st[p] = "init" /\ inh[p] = "default")
       IN  /\ st' = [p \in Pids |-> IF stops(p) THEN Dead ELSE st[p]]
           /\ how' = [p \in Pids |-> CASE st[p] = "serve" -> "exit"
                                       [] stops(p)        -> "sigterm"
                                       [] OTHER           -> how[p]]
    /\ sup' = IF ~ignoring /\ sup = "spawn" THEN "killed" ELSE sup
    /\ UNCHANGED <<kernel, servers, ncopies, running, last_restart, restarts,
                   backoff, now, ignoring, inh, nextpid, deaths, owed,
                   lastsleep>>

Tick ==
    /\ now < MaxTime
    /\ now' = now + 1
    /\ lastsleep' = 0
    /\ UNCHANGED <<kernel, sup, servers, ncopies, running, last_restart,
                   restarts, backoff, ignoring, st, inh, how, nextpid, deaths,
                   term, owed>>

Supervise ==
    \/ Fork
    \/ ForkFail
    \/ EnterWait
    \/ \E p \in Pids : ReapRestart(p) \/ ReapLast(p) \/ ReapRetire(p)
    \/ WaitNoChild

Next ==
    \/ Supervise
    \/ \E p \in Pids : Ready(p) \/ Die(p, "signal") \/ Die(p, "exit")
    \/ TermAll
    \/ Tick

(* The supervisor is a loop of system calls, and a server's start-up    *)
(* runs to its end; deaths, the administrator and the clock are not     *)
(* fair.                                                                 *)
Spec == Init /\ [][Next]_vars /\ WF_vars(Supervise)
                              /\ \A p \in Pids : WF_vars(Ready(p))

-----------------------------------------------------------------------------

TypeOK ==
    /\ kernel \in Kernels
    /\ sup \in SupStates
    /\ servers \in [Slots -> Pids \cup {0}]
    /\ ncopies \in 1 .. NCOPIES
    /\ running \in 0 .. NCOPIES
    /\ last_restart \in Nat /\ restarts \in Nat /\ now \in Nat
    /\ backoff \in Backoffs
    /\ ignoring \in BOOLEAN
    /\ st \in [Pids -> {"none", "init", "serve", "zombie", "gone", "reaped"}]
    /\ inh \in [Pids -> {"none", "default", "ignore"}]
    /\ how \in [Pids -> {"none", "signal", "sigterm", "exit"}]
    /\ nextpid \in 1 .. NCOPIES + MaxDeaths + 1
    /\ deaths \in 0 .. MaxDeaths
    /\ term \in BOOLEAN
    /\ owed \in 0 .. MaxDeaths
    /\ lastsleep \in Backoffs \cup {0}

(* The pid table stays exact through restarts and retirements: the slots *)
(* below ncopies hold each unreaped server once and nothing else, and    *)
(* running counts them, so wait() always finds its child's slot and the  *)
(* fork loop always finds a free one.                                    *)
SlotsMatch ==
    LET used == {i \in Slots : i < ncopies /\ servers[i] # 0}
    IN  /\ {servers[i] : i \in used} = Unreaped
        /\ Cardinality(used) = running
        /\ Cardinality(Unreaped) = running

(* Spec: the supervisor restarts any server that ends abnormally.  A     *)
(* server killed by a signal is eventually forked again, unless fork     *)
(* fails or the supervisor itself was killed.                            *)
ServerReplaced ==
    owed > 0 ~> (owed = 0 \/ sup \in {"forkfail", "killed"})

(* The same, on a kernel that keeps children ignored by SIGCHLD as      *)
(* zombies.                                                              *)
ReplacedOnZombieKernels == kernel = "zombies" => ServerReplaced

(* Spec: SIGTERM ends the servers.  After killall -TERM, the supervisor *)
(* eventually exits.                                                     *)
TermStops ==
    term ~> sup \in {"exited", "forkfail", "fatal", "killed"}

(* Spec: more than 2*ncopies restarts in one second make the supervisor *)
(* back off, doubling up to an hour.  A back-off sleep that follows      *)
(* another with no quiet second between is twice as long, below the cap. *)
BackoffDoubles ==
    [][lastsleep # 0 /\ lastsleep' # 0 /\ now' # now /\ lastsleep < 60 * 60
         => lastsleep' = 2 * lastsleep]_vars
=============================================================================
