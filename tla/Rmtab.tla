------------------------------- MODULE Rmtab -------------------------------
(***************************************************************************)
(* The remote-mount log of rmtab.c as kept by rpc.mountd (mountd.c).      *)
(* MNT, UMNT, UMNTALL and DUMP each call rmtab_file('r'), which rereads   *)
(* /etc/rmtab into the sorted in-core list rmtablist when its mtime       *)
(* differs from old_st_mtime, then change the list and rewrite the whole *)
(* file with rmtab_file('w').  Host names and paths are strings over a    *)
(* few characters, so that the file is text and its parser is modelled   *)
(* character by character as the code reads it.  Besides mountd, an      *)
(* administrator may edit the file, and mountd may be killed at any      *)
(* point and restarted.                                                   *)
(***************************************************************************)
EXTENDS Naturals, Sequences, SequencesExt, TLC

CONSTANTS
    Hosts,      \* host names returned by gethostbyaddr, as strings
    Args,       \* paths a client names in MNT and UMNT
    Realpath(_), \* realpath(3) of an existing path: no symlinks, no trailing '/'
    Ord,        \* character codes, for strcmp
    LINE_MAX,   \* the bytes of a line rmtab_file keeps (255)
    MaxTime,    \* last second of the clock
    MaxCrash,   \* bound on kills of mountd between calls
    MaxWriteCrash, \* bound on kills inside rmtab_file('w')
    MaxEdits    \* bound on edits of the file by an administrator

VARIABLES
    pc,         \* "idle", "write" (list changed, file not yet) or "down"
    list,       \* rmtablist: sequence of <<host, directory>>
    file,       \* the bytes of /etc/rmtab
    exists,     \* whether /etc/rmtab exists
    fmtime,     \* its st_mtime
    old,        \* old_st_mtime
    now,        \* time(NULL)
    mounts,     \* the <<host, argument>> pairs clients hold mounted
    pend,       \* mounts once the call in progress replies
    crashes,    \* kills between calls so far
    wcrashes,   \* kills inside rmtab_file('w') so far
    edits       \* administrator edits so far

vars == <<pc, list, file, exists, fmtime, old, now, mounts, pend, crashes, wcrashes, edits>>

Colon == ":"
NL == "\n"
EOFC == "EOF"       \* fgetc's EOF stored as (char) EOF, code 255

(* strcmp over unsigned characters. *)
RECURSIVE StrCmp(_, _)
StrCmp(s, t) ==
    IF s = <<>> /\ t = <<>> THEN 0
    ELSE IF s = <<>> THEN -1
    ELSE IF t = <<>> THEN 1
    ELSE IF Ord[Head(s)] < Ord[Head(t)] THEN -1
    ELSE IF Ord[Head(s)] > Ord[Head(t)] THEN 1
    ELSE StrCmp(Tail(s), Tail(t))

RECURSIVE rmtab_insert_hostonly(_, _)
rmtab_insert_hostonly(l, e) ==
    IF l = <<>> THEN <<<<e>>, TRUE>>
    ELSE LET p0 == StrCmp(Head(l)[1], e[1])
             p1 == StrCmp(Head(l)[2], e[2])
         IN  IF p0 > 0 THEN <<<<e>> \o l, TRUE>>
             ELSE IF p0 = 0 /\ p1 = 0 THEN <<l, FALSE>>
             ELSE LET r == rmtab_insert_hostonly(Tail(l), e)
                  IN  <<<<Head(l)>> \o r[1], r[2]>>

(* rmtab_insert: walk the list to the first entry greater than the new *)
(* one; an equal entry on the way means nothing is inserted.  The      *)
(* result is the new list and whether it changed.                      *)
RECURSIVE rmtab_insert(_, _)
rmtab_insert(l, e) ==
    IF l = <<>> THEN <<<<e>>, TRUE>>
    ELSE LET p0 == StrCmp(Head(l)[1], e[1])
             p1 == StrCmp(Head(l)[2], e[2])
         IN  IF p0 > 0 \/ (p0 = 0 /\ p1 > 0) THEN <<<<e>> \o l, TRUE>>
             ELSE IF p0 = 0 /\ p1 = 0 THEN <<l, FALSE>>
             ELSE LET r == rmtab_insert(Tail(l), e)
                  IN  <<<<Head(l)>> \o r[1], r[2]>>

RECURSIVE MDel_swapped(_, _)
MDel_swapped(l, h) ==
    IF l = <<>> THEN l
    ELSE LET p0 == StrCmp(Head(l)[1], h)
         IN  IF p0 = 0 THEN MDel_swapped(Tail(l), h)
             ELSE IF p0 > 0 THEN <<Head(l)>> \o MDel_swapped(Tail(l), h)
             ELSE l

(* rmtab_mdel_client's loop: drop the entries of host h, step over     *)
(* smaller hosts, stop at the first greater one.                       *)
RECURSIVE MDel(_, _)
MDel(l, h) ==
    IF l = <<>> THEN l
    ELSE LET p0 == StrCmp(Head(l)[1], h)
         IN  IF p0 = 0 THEN MDel(Tail(l), h)
             ELSE IF p0 < 0 THEN <<Head(l)>> \o MDel(Tail(l), h)
             ELSE l

(* rmtab_del_client's loop: unlink the first entry equal to e. *)
rmtab_del(l, e) == RemoveFirst(l, e)

(* rmtab_file('w'): one "host:directory\n" per entry. *)
Format(l) ==
    FlattenSeq([i \in 1 .. Len(l) |-> l[i][1] \o <<Colon>> \o l[i][2] \o <<NL>>])

(* The lines rmtab_file('r') reads: the text up to each newline; a last *)
(* line without one ends with the EOF character the loop stores, and    *)
(* the pass after the last newline reads that character alone.          *)
RECURSIVE Lines(_)
Lines(f) ==
    LET n == SelectInSeq(f, LAMBDA c : c = NL)
    IN  IF n = 0 THEN <<f \o <<EOFC>>>>
        ELSE <<SubSeq(f, 1, n - 1)>> \o Lines(SubSeq(f, n + 1, Len(f)))

(* The buffer keeps LINE_MAX bytes; the rest of a longer line is skipped. *)
Buffer(line) == SubSeq(line, 1, IF Len(line) < LINE_MAX THEN Len(line) ELSE LINE_MAX)

(* Every ':' ends the host string and starts the path anew: the host is *)
(* the text before the first colon, the path the text after the last.   *)
(* A line with no colon or an empty host or path is skipped.            *)
ParseLine(l, buf) ==
    LET first == SelectInSeq(buf, LAMBDA c : c = Colon)
        last  == SelectLastInSeq(buf, LAMBDA c : c = Colon)
        host  == SubSeq(buf, 1, first - 1)
        path  == SubSeq(buf, last + 1, Len(buf))
    IN  IF first # 0 /\ host # <<>> /\ path # <<>>
          THEN rmtab_insert(l, <<host, path>>)[1]
          ELSE l

RECURSIVE ReadLines(_, _)
ReadLines(l, ls) ==
    IF ls = <<>> THEN l ELSE ReadLines(ParseLine(l, Buffer(Head(ls))), Tail(ls))

(* rmtab_file('r'): create a missing file and keep the list; reread an   *)
(* existing one into an empty list when its mtime is not old_st_mtime.  *)
rmtab_file_r ==
    IF ~exists
      THEN [list |-> list, old |-> now, exists |-> TRUE, fmtime |-> now]
    ELSE IF old = fmtime
      THEN [list |-> list, old |-> old, exists |-> TRUE, fmtime |-> fmtime]
    ELSE [list |-> ReadLines(<<>>, Lines(file)), old |-> fmtime,
          exists |-> TRUE, fmtime |-> fmtime]

Init ==
    /\ pc = "idle"
    /\ list = <<>>
    /\ file = <<>>
    /\ exists = FALSE
    /\ fmtime = 0
    /\ old = 0
    /\ now = 1
    /\ mounts = {}
    /\ pend = {}
    /\ crashes = 0
    /\ wcrashes = 0
    /\ edits = 0

(* The read at the start of every rmtab routine, then the new list; the *)
(* file is rewritten in the next step only if the list changed.  The     *)
(* call replies, and the client holds (or drops) its mount m, after      *)
(* that.                                                                *)
Update(r, l, changed, m) ==
    /\ list' = l
    /\ old' = r.old
    /\ exists' = r.exists
    /\ fmtime' = r.fmtime
    /\ pc' = IF changed THEN "write" ELSE "idle"
    /\ IF changed THEN pend' = m /\ UNCHANGED mounts
                   ELSE mounts' = m /\ UNCHANGED pend

(* The path MNT checks and records: an empty argument becomes "/", and  *)
(* realpath resolves the rest.                                          *)
MntPath(a) == Realpath(IF a = <<>> THEN <<"/">> ELSE a)

(* mountproc_mnt_1_svc once the export checks pass: rmtab_add_client of *)
(* the resolved path, whatever fh_create returned.                       *)
Mnt(h, a) ==
    /\ pc = "idle"
    /\ LET r == rmtab_file_r
           ins == rmtab_insert(r.list, <<h, MntPath(a)>>)
       IN  Update(r, ins[1], ins[2], mounts \cup {<<h, a>>})
    /\ UNCHANGED <<file, now, crashes, wcrashes, edits>>

(* mountproc_umnt_1_svc: rmtab_del_client removes the entry equal to the *)
(* client's argument as sent, not resolved.                               *)
Umnt(h, a) ==
    /\ pc = "idle"
    /\ LET r == rmtab_file_r
       IN  Update(r, rmtab_del(r.list, <<h, a>>), <<h, a>> \in ToSet(r.list),
                  mounts \ {<<h, a>>})
    /\ UNCHANGED <<file, now, crashes, wcrashes, edits>>

(* mountproc_umntall_1_svc: rmtab_mdel_client. *)
Umntall(h) ==
    /\ pc = "idle"
    /\ LET r == rmtab_file_r
       IN  Update(r, MDel(r.list, h), MDel(r.list, h) # r.list,
                  {m \in mounts : m[1] # h})
    /\ UNCHANGED <<file, now, crashes, wcrashes, edits>>

(* mountproc_dump_1_svc: rmtab_lst_client returns the reread list. *)
Dump ==
    /\ pc = "idle"
    /\ Update(rmtab_file_r, rmtab_file_r.list, FALSE, mounts)
    /\ UNCHANGED <<file, now, crashes, wcrashes, edits>>

(* rmtab_file('w'): truncate, print the list, and take the new mtime as *)
(* old_st_mtime.                                                        *)
WriteFile ==
    /\ pc = "write"
    /\ file' = Format(list)
    /\ fmtime' = now
    /\ old' = now
    /\ pc' = "idle"
    /\ mounts' = pend
    /\ UNCHANGED <<list, exists, now, pend, crashes, wcrashes, edits>>

(* mountd is killed between two calls. *)
Crash ==
    /\ pc = "idle"
    /\ crashes < MaxCrash
    /\ pc' = "down"
    /\ crashes' = crashes + 1
    /\ UNCHANGED <<list, file, exists, fmtime, old, now, mounts, pend, wcrashes, edits>>

(* mountd is killed inside rmtab_file('w'), before it replies: the file *)
(* holds any prefix of the new text, stdio having flushed part of it.   *)
CrashInWrite ==
    /\ pc = "write"
    /\ wcrashes < MaxWriteCrash
    /\ \E f \in Prefixes(Format(list)) :
          /\ file' = f
          /\ fmtime' = now
    /\ pc' = "down"
    /\ wcrashes' = wcrashes + 1
    /\ UNCHANGED <<list, exists, old, now, mounts, pend, crashes, edits>>

(* A new mountd starts with an empty list and old_st_mtime 0. *)
Restart ==
    /\ pc = "down"
    /\ pc' = "idle"
    /\ list' = <<>>
    /\ old' = 0
    /\ UNCHANGED <<file, exists, fmtime, now, mounts, pend, crashes, wcrashes, edits>>

(* An administrator deletes one line of the file, ending that record. *)
Edit ==
    /\ exists
    /\ edits < MaxEdits
    /\ LET ls == SubSeq(Lines(file), 1, Len(Lines(file)) - 1)
       IN  \E i \in 1 .. Len(ls) :
              LET host == SubSeq(ls[i], 1, SelectInSeq(ls[i], LAMBDA c : c = Colon) - 1)
                  path == SubSeq(ls[i], SelectInSeq(ls[i], LAMBDA c : c = Colon) + 1, Len(ls[i]))
              IN  /\ file' = FlattenSeq([j \in 1 .. Len(RemoveAt(ls, i)) |->
                                            RemoveAt(ls, i)[j] \o <<NL>>])
                  /\ mounts' = {m \in mounts : <<m[1], MntPath(m[2])>> # <<host, path>>}
    /\ fmtime' = now
    /\ edits' = edits + 1
    /\ UNCHANGED <<pc, list, exists, old, now, pend, crashes, wcrashes>>

Tick ==
    /\ now < MaxTime
    /\ now' = now + 1
    /\ UNCHANGED <<pc, list, file, exists, fmtime, old, mounts, pend, crashes, wcrashes, edits>>

Next ==
    \/ \E h \in Hosts, a \in Args : Mnt(h, a) \/ Umnt(h, a)
    \/ \E h \in Hosts : Umntall(h)
    \/ Dump \/ WriteFile \/ Crash \/ CrashInWrite \/ Restart \/ Edit \/ Tick

Spec == Init /\ [][Next]_vars

-----------------------------------------------------------------------------

Entries == Hosts \X Args

\* The records the mounts held should leave in the log.
Records == {<<m[1], MntPath(m[2])>> : m \in mounts}

TypeOK ==
    /\ pc \in {"idle", "write", "down"}
    /\ list \in Seq(Seq(DOMAIN Ord) \X Seq(DOMAIN Ord))
    /\ file \in Seq(DOMAIN Ord)
    /\ exists \in BOOLEAN
    /\ fmtime \in 0 .. MaxTime /\ old \in 0 .. MaxTime /\ now \in 1 .. MaxTime
    /\ mounts \subseteq Entries
    /\ pend \subseteq Entries
    /\ crashes \in 0 .. MaxCrash /\ wcrashes \in 0 .. MaxWriteCrash
    /\ edits \in 0 .. MaxEdits

(* Spec 4.J: the log is sorted by (host, path) without duplicates;     *)
(* rmtab_mdel_client's early stop relies on it.                        *)
Before(a, b) ==
    \/ StrCmp(a[1], b[1]) < 0
    \/ StrCmp(a[1], b[1]) = 0 /\ StrCmp(a[2], b[2]) < 0

ListSorted == IsSorted(list, Before)

(* Spec 4.J: at a request boundary, what DUMP would return (the list    *)
(* after rmtab_file('r')) is exactly the records of the mounts held:    *)
(* mounted and not since unmounted, by UMNT or UMNTALL, or removed by   *)
(* an editor.  MNT records the resolved path, UMNT removes the argument *)
(* as the client sends it.                                              *)
DumpIsMounts == pc = "idle" => ToSet(rmtab_file_r.list) = Records

(* DumpIsMounts for every history in which nobody edited the file and  *)
(* mountd was never killed in the middle of rewriting it: kills between *)
(* calls, restarts and rereads keep DUMP equal to the mounts.          *)
DumpIsMountsUnlessTorn == edits = 0 /\ wcrashes = 0 => DumpIsMounts


(* Spec 4.J: a line longer than 255 bytes is skipped, so every entry    *)
(* DUMP returns is one a client mounted.                                *)
NoPhantomEntries == pc = "idle" => ToSet(rmtab_file_r.list) \subseteq Records
=============================================================================
