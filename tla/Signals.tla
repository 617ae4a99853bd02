------------------------------ MODULE Signals ------------------------------
(***************************************************************************)
(* nfsd's single thread and its two state-changing signal handlers:        *)
(* flush_cache (SIGALRM, fh.c) and reinitialize (SIGHUP, nfsd.c), with the *)
(* dispatcher's _rpcsvcdirty deferral (nfs_dispatch.c).                     *)
(*                                                                         *)
(* install_signal_handler (signals.c) uses an empty sa_mask: a handler     *)
(* blocks only its own signal, so SIGHUP can interrupt flush_cache and     *)
(* SIGALRM can interrupt reinitialize.  stack holds the handler frames     *)
(* running on top of the main loop, innermost last; only the top one       *)
(* runs.  A frame's sig is TRUE when it was entered by delivery (the       *)
(* signal is then blocked) and FALSE when nfs_dispatch called it.          *)
(*                                                                         *)
(* The handle cache is abstracted to the hint auth_fh keeps in each entry  *)
(* (last_clnt/last_mount): no entry, NULL pointers, or the               *)
(* generation of the export tables the pointers were taken from.  gen is   *)
(* bumped when auth_init frees the client and mount lists.  fver is the    *)
(* version of /etc/exports on disk, loaded the version auth_init read.     *)
(***************************************************************************)
EXTENDS Integers, Sequences

CONSTANTS
    Handles,    \* file handles clients use
    MaxHups,    \* bound on SIGHUPs delivered
    MaxVer      \* bound on edits of the exports file

Routines == {"flush_cache", "reinitialize"}
\* The hint of an entry: Absent (no entry), NoHint (NULL pointers), or the
\* generation of the tables they point into.
Absent == -2
NoHint == -1
Hints == {Absent, NoHint} \cup (0..MaxHups)
Frame == [r : Routines, sig : BOOLEAN,
          pc : {"start", "fh_flush", "flushing", "free", "load", "exit"}]

VARIABLES
    mpc, req,           \* main loop: where it is, the handle of the call
    dirty,              \* _rpcsvcdirty
    need_flush, need_reinit,
    fc_busy, ri_busy,   \* the handlers' static inprogress counters
    ex_state,           \* fh.c: TRUE while fh_flush walks the list
    stack,
    cache,              \* hint of each entry
    gen, fver, loaded,
    want,               \* ghost: file version on disk at the last SIGHUP
    hups                \* SIGHUPs delivered so far

vars == <<mpc, req, dirty, need_flush, need_reinit, fc_busy, ri_busy,
          ex_state, stack, cache, gen, fver, loaded, want, hups>>

Top == stack[Len(stack)]
Pop == stack' = SubSeq(stack, 1, Len(stack) - 1)
Goto(p) == stack' = [stack EXCEPT ![Len(stack)].pc = p]
Call(r, s) == stack' = Append(stack, [r |-> r, sig |-> s, pc |-> "start"])

Init ==
    /\ mpc = "idle" /\ req = CHOOSE h \in Handles : TRUE
    /\ dirty = FALSE /\ need_flush = FALSE /\ need_reinit = FALSE
    /\ fc_busy = FALSE /\ ri_busy = FALSE /\ ex_state = FALSE
    /\ stack = <<>>
    /\ cache = [h \in Handles |-> Absent]
    /\ gen = 0 /\ fver = 0 /\ loaded = 0 /\ want = 0 /\ hups = 0

MainVars == <<mpc, req, dirty>>
HandlerVars == <<need_flush, need_reinit, fc_busy, ri_busy, ex_state>>
ExportVars == <<gen, fver, loaded, want, hups>>

-----------------------------------------------------------------------------
(* Main loop, running while no handler frame is on the stack.             *)

\* nfs_dispatch: dirty is set and the handler starts with fh_find.
Dispatch ==
    /\ stack = <<>> /\ mpc = "idle"
    /\ dirty' = TRUE
    /\ \E h \in Handles : req' = h
    /\ mpc' = "find"
    /\ UNCHANGED <<HandlerVars, stack, cache, ExportVars>>

\* auth_fh's fh_find: a hit, a new entry with NULL hints, or NFSERR_STALE.
Find ==
    /\ stack = <<>> /\ mpc = "find"
    /\ \/ /\ cache[req] # Absent
          /\ mpc' = "auth" /\ UNCHANGED cache
       \/ /\ cache[req] = Absent
          /\ cache' = [cache EXCEPT ![req] = NoHint]
          /\ mpc' = "auth"
       \/ /\ mpc' = "reply" /\ UNCHANGED cache
    /\ UNCHANGED <<req, dirty, HandlerVars, stack, ExportVars>>

\* auth_fh: a hint is followed (last_clnt->clnt_addr, last_mount);
\* otherwise auth_clnt/auth_path look the client up in the current tables
\* and the entry's hints are set, unless the client is refused.
AuthFh ==
    /\ stack = <<>> /\ mpc = "auth"
    /\ \/ cache' = [cache EXCEPT ![req] = gen]
       \/ /\ cache[req] = NoHint
          /\ UNCHANGED cache
    /\ mpc' = "reply"
    /\ UNCHANGED <<req, dirty, HandlerVars, stack, ExportVars>>

\* Mutant: done: path that forgets the deferred reinitialize.
Reply_noreinit ==
    /\ stack = <<>> /\ mpc = "reply"
    /\ dirty' = FALSE
    /\ UNCHANGED stack
    /\ mpc' = "flushcheck"
    /\ UNCHANGED <<req, HandlerVars, cache, ExportVars>>

\* Reply sent, arguments freed; done: dirty cleared, then a deferred
\* reinitialize is called.
Reply ==
    /\ stack = <<>> /\ mpc = "reply"
    /\ dirty' = FALSE
    /\ IF need_reinit THEN Call("reinitialize", FALSE) ELSE UNCHANGED stack
    /\ mpc' = "flushcheck"
    /\ UNCHANGED <<req, HandlerVars, cache, ExportVars>>

\* Then a deferred flush_cache, and back to svc_run.
FlushCheck ==
    /\ stack = <<>> /\ mpc = "flushcheck"
    /\ IF need_flush THEN Call("flush_cache", FALSE) ELSE UNCHANGED stack
    /\ mpc' = "idle"
    /\ UNCHANGED <<req, dirty, HandlerVars, cache, ExportVars>>

-----------------------------------------------------------------------------
(* Handler frames.                                                        *)

\* Mutant: handlers installed with SA_NODEFER (own signal not blocked).
Deliver_nodefer(r) ==
    /\ r = "reinitialize" => hups < MaxHups
    /\ Call(r, TRUE)
    /\ want' = IF r = "reinitialize" THEN fver ELSE want
    /\ hups' = IF r = "reinitialize" THEN hups + 1 ELSE hups
    /\ UNCHANGED <<MainVars, HandlerVars, cache, gen, fver, loaded>>

\* Delivery of a signal whose handler is not already running from that
\* signal (the kernel blocks a signal inside its own handler).  A
\* reload is the administrator's request for the file as it is now.
Deliver(r) ==
    /\ ~\E i \in 1..Len(stack) : stack[i].r = r /\ stack[i].sig
    /\ r = "reinitialize" => hups < MaxHups
    /\ Call(r, TRUE)
    /\ want' = IF r = "reinitialize" THEN fver ELSE want
    /\ hups' = IF r = "reinitialize" THEN hups + 1 ELSE hups
    /\ UNCHANGED <<MainVars, HandlerVars, cache, gen, fver, loaded>>

\* Mutant: flush_cache without the _rpcsvcdirty test.
FlushCacheStart_nodirty ==
    /\ stack # <<>> /\ Top.r = "flush_cache" /\ Top.pc = "start"
    /\ \/ /\ fc_busy
          /\ Pop /\ UNCHANGED <<need_flush, fc_busy>>
       \/ /\ ~fc_busy
          /\ fc_busy' = TRUE /\ Goto("fh_flush") /\ UNCHANGED need_flush
    /\ UNCHANGED <<MainVars, need_reinit, ri_busy, ex_state, cache, ExportVars>>

\* flush_cache: defer while dirty; return if already in progress.
FlushCacheStart ==
    /\ stack # <<>> /\ Top.r = "flush_cache" /\ Top.pc = "start"
    /\ \/ /\ dirty
          /\ need_flush' = TRUE /\ Pop /\ UNCHANGED fc_busy
       \/ /\ ~dirty /\ fc_busy
          /\ Pop /\ UNCHANGED <<need_flush, fc_busy>>
       \/ /\ ~dirty /\ ~fc_busy
          /\ fc_busy' = TRUE /\ Goto("fh_flush") /\ UNCHANGED need_flush
    /\ UNCHANGED <<MainVars, need_reinit, ri_busy, ex_state, cache, ExportVars>>

\* reinitialize: defer while dirty; return if already in progress.
ReinitStart ==
    /\ stack # <<>> /\ Top.r = "reinitialize" /\ Top.pc = "start"
    /\ \/ /\ dirty
          /\ need_reinit' = TRUE /\ Pop /\ UNCHANGED ri_busy
       \/ /\ ~dirty /\ ri_busy
          /\ Pop /\ UNCHANGED <<need_reinit, ri_busy>>
       \/ /\ ~dirty /\ ~ri_busy
          /\ ri_busy' = TRUE /\ Goto("fh_flush") /\ UNCHANGED need_reinit
    /\ UNCHANGED <<MainVars, need_flush, fc_busy, ex_state, cache, ExportVars>>

\* Where a frame continues once its fh_flush is over.
AfterFlush(r) == IF r = "flush_cache" THEN "exit" ELSE "free"

\* fh_flush(force): does nothing while another fh_flush holds ex_state.
FhFlushBegin ==
    /\ stack # <<>> /\ Top.pc = "fh_flush"
    /\ IF ex_state
       THEN Goto(AfterFlush(Top.r)) /\ UNCHANGED ex_state
       ELSE Goto("flushing") /\ ex_state' = TRUE
    /\ UNCHANGED <<MainVars, need_flush, need_reinit, fc_busy, ri_busy, cache,
                   ExportVars>>

\* The walk: reinitialize's fh_flush(1) deletes every entry; flush_cache's
\* fh_flush(0) deletes those past the limit or unused for DISCARD_INTERVAL,
\* which depends on the clock: any of them.
FhFlushEnd ==
    /\ stack # <<>> /\ Top.pc = "flushing"
    /\ \E del \in SUBSET {h \in Handles : cache[h] # Absent} :
          /\ Top.r = "reinitialize" => del = {h \in Handles : cache[h] # Absent}
          /\ cache' = [h \in Handles |-> IF h \in del THEN Absent ELSE cache[h]]
    /\ ex_state' = FALSE
    /\ Goto(AfterFlush(Top.r))
    /\ UNCHANGED <<MainVars, need_flush, need_reinit, fc_busy, ri_busy, ExportVars>>

\* flush_cache's end: inprogress = 0, need_flush = 0, alarm re-armed.
FlushCacheExit ==
    /\ stack # <<>> /\ Top.r = "flush_cache" /\ Top.pc = "exit"
    /\ fc_busy' = FALSE /\ need_flush' = FALSE
    /\ Pop
    /\ UNCHANGED <<MainVars, need_reinit, ri_busy, ex_state, cache, ExportVars>>

\* auth_init: free_exports and auth_init_lists free the client and mount
\* structures the hints point to.
AuthInitFree ==
    /\ stack # <<>> /\ Top.r = "reinitialize" /\ Top.pc = "free"
    /\ gen' = gen + 1
    /\ Goto("load")
    /\ UNCHANGED <<MainVars, HandlerVars, cache, fver, loaded, want, hups>>

\* auth_init reads the exports file and builds new lists.
AuthInitLoad ==
    /\ stack # <<>> /\ Top.r = "reinitialize" /\ Top.pc = "load"
    /\ loaded' = fver
    /\ Goto("exit")
    /\ UNCHANGED <<MainVars, HandlerVars, cache, gen, fver, want, hups>>

\* reinitialize's end: inprogress = 0, need_reinit = 0.
ReinitExit ==
    /\ stack # <<>> /\ Top.r = "reinitialize" /\ Top.pc = "exit"
    /\ ri_busy' = FALSE /\ need_reinit' = FALSE
    /\ Pop
    /\ UNCHANGED <<MainVars, need_flush, fc_busy, ex_state, cache, ExportVars>>

\* The administrator edits /etc/exports.
Edit ==
    /\ fver < MaxVer
    /\ fver' = fver + 1
    /\ UNCHANGED <<MainVars, HandlerVars, stack, cache, gen, loaded, want, hups>>

-----------------------------------------------------------------------------
\* What the process itself executes, as opposed to what its environment
\* (clients, the kernel's signals, the administrator) does.
Progress ==
    \/ Find \/ AuthFh \/ Reply \/ FlushCheck
    \/ FlushCacheStart \/ ReinitStart \/ FhFlushBegin \/ FhFlushEnd
    \/ FlushCacheExit \/ AuthInitFree \/ AuthInitLoad \/ ReinitExit

Next ==
    \/ Dispatch \/ Progress \/ Edit
    \/ \E r \in Routines : Deliver(r)

Spec == Init /\ [][Next]_vars /\ WF_vars(Progress)

-----------------------------------------------------------------------------
TypeOK ==
    /\ mpc \in {"idle", "find", "auth", "reply", "flushcheck"}
    /\ req \in Handles
    /\ {dirty, need_flush, need_reinit, fc_busy, ri_busy, ex_state} \subseteq BOOLEAN
    /\ stack \in Seq(Frame) /\ Len(stack) <= 3
    /\ cache \in [Handles -> Hints]
    /\ gen \in 0..hups /\ hups \in 0..MaxHups
    /\ {fver, loaded, want} \subseteq 0..MaxVer

(* Spec 4.K: signal handlers that would mutate shared state defer while    *)
(* dirty is set -- no step of flush_cache or reinitialize changes the      *)
(* handle cache or the export tables in the middle of a call, whatever     *)
(* nesting of SIGALRM and SIGHUP interrupted it.                           *)
HandlersDeferWhileDirty ==
    [][dirty /\ stack # <<>> => UNCHANGED <<cache, gen, loaded>>]_vars

\* SIGALRM comes every FLUSH_INTERVAL (5 s) or BUSY_RETRY_INTERVAL (2 s)
\* and SIGHUP from an administrator: a handler never runs continuously.
\* Liveness is claimed of behaviours in which deliveries stop for a while,
\* here: eventually stop.
SignalsCease == <>[][\A r \in Routines : ~Deliver(r)]_vars

(* Spec 4.K step 7: a reload or flush deferred by a call is serviced      *)
(* after it: nfs_dispatch's done: path runs reinitialize and flush_cache. *)
DeferredServed ==
    SignalsCease => /\ need_reinit ~> ~need_reinit
                    /\ need_flush ~> ~need_flush

(* Spec 4.L: "a revoked export takes effect on the very next call".  When *)
(* auth_fh follows an entry's last_clnt/last_mount hint, the hint points *)
(* into the export tables auth_init built last, not into freed ones.      *)
NoStaleHint == mpc = "auth" => cache[req] \in {NoHint, gen}

(* Spec 5: SIGHUP requests a reload of the exports file.  Once the server *)
(* is idle with no handler running or deferred, the tables in use were   *)
(* read from the file as it was at the last SIGHUP, or later.             *)
ReloadApplied ==
    (stack = <<>> /\ mpc = "idle" /\ ~need_reinit) => loaded >= want

=============================================================================
