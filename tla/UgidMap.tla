------------------------------ MODULE UgidMap ------------------------------
(***************************************************************************)
(* The uid/gid translation of ugid_map.c, as auth_user (luid, lgid),       *)
(* setattr (luid, lgid) and getattr (ruid, rgid) call it for one export.   *)
(* Each nfs_client owns one ugid_map of four tables (MAP_UID_R2L,          *)
(* MAP_UID_L2R, MAP_GID_R2L, MAP_GID_L2R) from an id to {id, expire}.      *)
(* auth_init fills the map of a client named in /etc/exports with the      *)
(* export's squash_uids/squash_gids ranges and map_static lines.  A host   *)
(* that only matches a wildcard, netgroup or netmask entry gets a client   *)
(* created at its first request by auth_unknown_clientbyaddr, which copies *)
(* the export's options but not its map.  Under map_daemon a miss asks the *)
(* client's ugidd through a small cache of RPC handles (ugid_get_client),  *)
(* stores the answer for UGID_EXPIRE seconds and the reverse pair too.     *)
(* rlookup passes names between the server's passwd and group files and   *)
(* the client's, which ugidd.c's NAME_UID, GROUP_GID, UID_NAME and         *)
(* GID_GROUP procedures read.                                             *)
(* The radix trie of ugid_get_entry is a function from id to entry.        *)
(***************************************************************************)
EXTENDS Integers, Sequences, FiniteSets

CONSTANTS
    Hosts,        \* client hosts sending requests
    Exact,        \* hosts the export names exactly; the others match a pattern
    Ids,          \* the uids and gids requests and files carry (0 among them);
                  \* (uid_t) -2, the AUTH_UID_NOBODY below, is one more
    NONE,         \* AUTH_UID_NONE, (uid_t) -1
    NOBODY,       \* AUTH_UID_NOBODY, (uid_t) -2: what squash records hold
    Anon,         \* mp->o.nobody_uid/gid: anonuid, by default the uid of "nobody"
    ANY,          \* INADDR_ANY: a free slot of the ugidd handle cache
    Modes,        \* the export's uidmap: some of "identity", "static", "daemon"
    SquashUids,   \* squash_uids= ranges
    SquashGids,   \* squash_gids= ranges
    StaticLines,  \* map_static file lines <<kind, from, to>>, to = NOBODY for "-"
    RootSquash, AllSquash,
    SrvPasswd,    \* the server's passwd and group files: a function from
    SrvGroup,     \*   the ids that have an entry to their names
    CltPasswd,    \* each client's passwd and group files, as its ugidd
    CltGroup,     \*   reads them: [Hosts -> id |-> name]
    UGID_EXPIRE,  \* lifetime of a dynamic entry (300 s)
    MAXCACHE,     \* slots of the ugidd handle cache (32)
    EXPCACHE,     \* how long a failed ugidd stays blocked (900 s)
    MaxTime,      \* last second of nfs_dispatch_time
    MaxReload,    \* bound on SIGHUP reloads
    MaxCalls,     \* bound on translations
    Orders        \* option orders of the export line: map_static= before or after squash_*=

How == {"UID_R2L", "UID_L2R", "GID_R2L", "GID_L2R"}
MAP_REVERSE(how) ==
    CASE how = "UID_R2L" -> "UID_L2R" [] how = "UID_L2R" -> "UID_R2L"
      [] how = "GID_R2L" -> "GID_L2R" [] how = "GID_L2R" -> "GID_R2L"

VARIABLES
    mode,     \* the export's uidmap, fixed by /etc/exports
    order,    \* which of map_static= and squash_uids=/squash_gids= the line gives first
    umap,     \* each host's client map: [Hosts -> [How -> [IdVals -> entry]]]
    slots,    \* the ugidd handle cache[MAXCACHE]
    oob,      \* a handle was written to cache[-1]
    now,      \* nfs_dispatch_time
    reloads,
    calls,    \* translations so far
    last      \* ghost: the last translation, [op, host, arg, res]

vars == <<mode, order, umap, slots, oob, now, reloads, calls, last>>

IdVals == Ids \cup {NOBODY}
Vals == IdVals \cup {NONE, Anon}
Entry == [id : Vals, expire : 0 .. MaxTime + UGID_EXPIRE]
Slot == [addr : Hosts \cup {ANY}, valid : BOOLEAN, age : 0 .. MaxTime, lru : 0 .. MaxTime]
NoEntry == [id |-> NONE, expire |-> 0]
FreeSlot == [addr |-> ANY, valid |-> FALSE, age |-> 0, lru |-> 0]
NoOp == [op |-> "none", host |-> ANY, arg |-> NONE, res |-> NONE]
SomeSquash == SquashUids \cup SquashGids # {}

(* ugid_map_static: an entry that never expires. *)
ugid_map_static(m, how, from, to) == [m EXCEPT ![how][from] = [id |-> to, expire |-> 0]]

(* ugid_map_uid / ugid_map_gid: the pair in both directions. *)
ugid_map_pair(m, kind, from, to) ==
    IF kind = "u"
      THEN ugid_map_static(ugid_map_static(m, "UID_R2L", from, to), "UID_L2R", to, from)
      ELSE ugid_map_static(ugid_map_static(m, "GID_R2L", from, to), "GID_L2R", to, from)

(* ugid_squash_uids / ugid_squash_gids: remote ids to AUTH_UID_NOBODY. *)
ugid_squash(m, how, S) ==
    [m EXCEPT ![how] = [i \in IdVals |-> IF i \in S THEN [id |-> NOBODY, expire |-> 0] ELSE @[i]]]

(* parse_static_uidmap, line by line, then parse_squash. *)
RECURSIVE ApplyLines(_, _)
ApplyLines(m, ls) ==
    IF ls = <<>> THEN m
    ELSE LET l == Head(ls)
             m1 == IF l[3] = NOBODY
                     THEN ugid_squash(m, IF l[1] = "u" THEN "UID_R2L" ELSE "GID_R2L", {l[2]})
                     ELSE ugid_map_pair(m, l[1], l[2], l[3])
         IN  ApplyLines(m1, Tail(ls))

EmptyMap == [how \in How |-> [i \in IdVals |-> NoEntry]]

(* parse_opts applies the options in the order the line gives them      *)
(* (auth_init.c:296-309): the static map file and the squash ranges      *)
(* write the same table, and the later one wins for an id in both.       *)
ConfigMap(md, o) ==
    LET Static(m) == IF md = "static" THEN ApplyLines(m, StaticLines) ELSE m
        Squash(m) == ugid_squash(ugid_squash(m, "UID_R2L", SquashUids), "GID_R2L", SquashGids)
    IN  IF o = "squash_first" THEN Static(Squash(EmptyMap)) ELSE Squash(Static(EmptyMap))

(* auth_init: a client named in the exports file gets the configured map; *)
(* the client auth_unknown_clientbyaddr makes for a pattern match starts  *)
(* with none, which ugid_get_map allocates empty.                         *)
InitMaps(md, o) == [h \in Hosts |-> IF h \in Exact THEN ConfigMap(md, o) ELSE EmptyMap]

Init ==
    /\ mode \in Modes
    /\ order \in Orders
    /\ umap = InitMaps(mode, order)
    /\ slots = [i \in 1 .. MAXCACHE |-> FreeSlot]
    /\ oob = FALSE
    /\ now = 1
    /\ reloads = 0
    /\ calls = 0
    /\ last = NoOp

(* ugid_map_dynamic: an entry that expires UGID_EXPIRE seconds from now. *)
ugid_map_dynamic_late(m, how, from, to) ==
    [m EXCEPT ![how][from] = [id |-> to, expire |-> now + UGID_EXPIRE + 1]]

ugid_map_dynamic(m, how, from, to) ==
    [m EXCEPT ![how][from] = [id |-> to, expire |-> now + UGID_EXPIRE]]

(* ugid_get_entry: an entry whose expiry has passed reads as NONE. *)
ugid_get_entry(m, how, id) ==
    LET e == m[how][id]
    IN  IF e.expire # 0 /\ e.expire < now THEN [e EXCEPT !.id = NONE] ELSE e

-----------------------------------------------------------------------------
Scan_nostop(s, h) ==
    LET before == 1 .. MAXCACHE
        free   == {i \in before : ~s[i].valid}
        older  == {i \in before : s[i].valid /\ s[i].lru < now
                                  /\ \A j \in before : s[j].valid => s[i].lru <= s[j].lru}
    IN  [i      |-> MAXCACHE + 1,
         empty  |-> IF free = {} THEN -1 ELSE CHOOSE i \in free : \A j \in free : j <= i,
         oldest |-> IF older = {} THEN -1 ELSE CHOOSE i \in older : \A j \in older : i <= j]

(* ugid_get_client's scan: the first slot of the host stops it; before it, *)
(* the last handle-less slot is "empty" and the first least recently used *)
(* slot older than now is "oldest".                                       *)
Scan(s, h) ==
    LET hit    == {i \in 1 .. MAXCACHE : s[i].addr = h}
        stop   == IF hit = {} THEN MAXCACHE + 1 ELSE CHOOSE i \in hit : \A j \in hit : i <= j
        before == 1 .. stop - 1
        free   == {i \in before : ~s[i].valid}
        older  == {i \in before : s[i].valid /\ s[i].lru < now
                                  /\ \A j \in before : s[j].valid => s[i].lru <= s[j].lru}
    IN  [i      |-> stop,
         empty  |-> IF free = {} THEN -1 ELSE CHOOSE i \in free : \A j \in free : j <= i,
         oldest |-> IF older = {} THEN -1 ELSE CHOOSE i \in older : \A j \in older : i <= j]

(* clntudp_create into slot j: ok is whether it succeeded and the server *)
(* sits on a privileged port.                                            *)
Create(s, j, h, ok) ==
    [s EXCEPT ![j] = [addr |-> h, valid |-> ok, age |-> now, lru |-> now]]

(* ugid_get_client: the cached handle, NULL while a failed one is blocked, *)
(* or a new one in an empty slot, evicting the oldest if none is empty.   *)
(* With every slot used this second there is no oldest, and the code     *)
(* calls clnt_destroy on cache[-1] and writes it: undefined behaviour,   *)
(* recorded in oob; the new handle is used but is in no slot.            *)
ugid_get_client(s, h, ok) ==
    LET sc == Scan(s, h)
    IN  IF sc.i <= MAXCACHE
          THEN IF ~s[sc.i].valid
                 THEN IF now - s[sc.i].age <= EXPCACHE
                        THEN [slots |-> s, clnt |-> FALSE, oob |-> FALSE]
                        ELSE [slots |-> Create(s, sc.i, h, ok), clnt |-> ok, oob |-> FALSE]
                 ELSE [slots |-> [s EXCEPT ![sc.i].lru = now], clnt |-> TRUE, oob |-> FALSE]
        ELSE IF sc.empty # -1
          THEN [slots |-> Create(s, sc.empty, h, ok), clnt |-> ok, oob |-> FALSE]
        ELSE IF sc.oldest # -1
          THEN [slots |-> Create(s, sc.oldest, h, ok), clnt |-> ok, oob |-> FALSE]
        ELSE [slots |-> s, clnt |-> ok, oob |-> TRUE]

(* ugid_kill_client: drop the host's handle and block it from its last use. *)
ugid_kill_client(s, h) ==
    [i \in 1 .. MAXCACHE |->
        IF s[i].addr = h /\ s[i].valid
          THEN [s[i] EXCEPT !.valid = FALSE, !.age = s[i].lru] ELSE s[i]]

-----------------------------------------------------------------------------
(* ugidd_lookup's outcomes: answered, an RPC error it treats as lasting *)
(* (the handle is killed), or one it retries and gives up on.          *)
RpcOutcomes == {"ok", "kill", "transient"}

L2R == {"UID_L2R", "GID_L2R"}
SrvDb(how) == IF how \in {"UID_R2L", "UID_L2R"} THEN SrvPasswd ELSE SrvGroup
CltDb(h, how) == IF how \in {"UID_R2L", "UID_L2R"} THEN CltPasswd[h] ELSE CltGroup[h]

(* getpwnam / getgrnam: the id of an entry with that name, or NULL. *)
ByName(db, n) ==
    IF \E i \in DOMAIN db : db[i] = n THEN CHOOSE i \in DOMAIN db : db[i] = n ELSE NONE

(* ugidd's NAME_UID and GROUP_GID: the client's id for the name, and   *)
(* NOBODY, (uid_t) -2, when the client has no such user or group.      *)
name_uid_1_svc(h, how, n) ==
    LET i == ByName(CltDb(h, how), n) IN IF i = NONE THEN NOBODY ELSE i

(* ugidd's UID_NAME and GID_GROUP: the client's name for the id, or "". *)
uid_name_1_svc(h, how, i) ==
    IF i \in DOMAIN CltDb(h, how) THEN CltDb(h, how)[i] ELSE ""

(* rlookup asks ugidd only after getpwuid/getgrgid found a local-to-    *)
(* remote id; a remote-to-local lookup always asks.                    *)
Asks(how, id) == how \notin L2R \/ id \in DOMAIN SrvDb(how)

(* rlookup under map_daemon, for host h's ugidd.  Local to remote: the *)
(* server's name for the id, sent to NAME_UID/GROUP_GID.  Remote to     *)
(* local: the client's name from UID_NAME/GID_GROUP, looked up with     *)
(* getpwnam/getgrnam.  NONE when the local id has no name, the handle   *)
(* is missing, the call failed or the name is unknown here.             *)
rlookup(h, how, id, clnt, rpc) ==
    LET db == SrvDb(how)
        ok == clnt /\ rpc = "ok"
    IN  IF how \in L2R
          THEN IF Asks(how, id) /\ ok THEN name_uid_1_svc(h, how, db[id]) ELSE NONE
          ELSE IF ok THEN ByName(db, uid_name_1_svc(h, how, id)) ELSE NONE

ugid_find_swapped(md, h, how, id, anonid, rpc, ok) ==
    LET m == umap[h]
        e == ugid_get_entry(m, how, id)
    IN
    CASE md = "static" ->
            [res |-> IF e.id \in {NONE, NOBODY} THEN anonid ELSE e.id,
             map |-> m, slots |-> slots, oob |-> oob]
      [] md = "identity" ->
            [res |-> CASE e.id = NONE -> id [] e.id = NOBODY -> anonid [] OTHER -> e.id,
             map |-> m, slots |-> slots, oob |-> oob]
      [] OTHER ->
            IF e.id # NONE
              THEN [res |-> e.id, map |-> m, slots |-> slots, oob |-> oob]
              ELSE LET g  == IF Asks(how, id) THEN ugid_get_client(slots, h, ok)
                                   ELSE [slots |-> slots, clnt |-> FALSE, oob |-> FALSE]
                       r  == rlookup(h, how, id, g.clnt, rpc)
                       s2 == IF g.clnt /\ rpc = "kill" THEN ugid_kill_client(g.slots, h) ELSE g.slots
                       m1 == ugid_map_dynamic(m, how, id, IF r = NONE THEN anonid ELSE r)
                       m2 == IF r = NONE THEN m1
                             ELSE ugid_map_dynamic(m1, MAP_REVERSE(how), id, r)
                   IN  [res |-> m1[how][id].id, map |-> m2, slots |-> s2, oob |-> oob \/ g.oob]

(* ugid_find for export mode md.  rpc is how the ugidd call of rlookup    *)
(* went ("ok", "kill" for an error ugidd_lookup treats as lasting,        *)
(* "transient" for one it does not), ok whether a new handle could be     *)
(* made.  The result: the id, the host's new map, the cache, oob.         *)
ugid_find(md, h, how, id, anonid, rpc, ok) ==
    LET m == umap[h]
        e == ugid_get_entry(m, how, id)
    IN
    CASE md = "static" ->
            [res |-> IF e.id \in {NONE, NOBODY} THEN anonid ELSE e.id,
             map |-> m, slots |-> slots, oob |-> oob]
      [] md = "identity" ->
            [res |-> CASE e.id = NONE -> id [] e.id = NOBODY -> anonid [] OTHER -> e.id,
             map |-> m, slots |-> slots, oob |-> oob]
      [] OTHER ->
            IF e.id # NONE
              THEN [res |-> e.id, map |-> m, slots |-> slots, oob |-> oob]
              ELSE LET g  == IF Asks(how, id) THEN ugid_get_client(slots, h, ok)
                                   ELSE [slots |-> slots, clnt |-> FALSE, oob |-> FALSE]
                       r  == rlookup(h, how, id, g.clnt, rpc)
                       s2 == IF g.clnt /\ rpc = "kill" THEN ugid_kill_client(g.slots, h) ELSE g.slots
                       m1 == ugid_map_dynamic(m, how, id, IF r = NONE THEN anonid ELSE r)
                       m2 == IF r = NONE THEN m1
                             ELSE ugid_map_dynamic(m1, MAP_REVERSE(how), r, id)
                   IN  [res |-> m1[how][id].id, map |-> m2, slots |-> s2, oob |-> oob \/ g.oob]


(* Install a translation's side effects and record it. *)
Done(h, op, arg, f, res) ==
    /\ calls < MaxCalls
    /\ calls' = calls + 1
    /\ umap' = [umap EXCEPT ![h] = f.map]
    /\ slots' = f.slots
    /\ oob' = f.oob
    /\ last' = [op |-> op, host |-> h, arg |-> arg, res |-> res]
    /\ UNCHANGED <<mode, order, now, reloads>>

Luid_nosquash(h, u) ==
    \E rpc \in RpcOutcomes, ok \in BOOLEAN :
        LET f   == IF mode # "identity" THEN ugid_find(mode, h, "UID_R2L", u, Anon, rpc, ok)
                   ELSE [res |-> u, map |-> umap[h], slots |-> slots, oob |-> oob]
            res == IF (f.res = 0 /\ RootSquash) \/ AllSquash THEN Anon ELSE f.res
        IN  Done(h, "luid", u, f, res)

(* luid: translate unless the export is identity-mapped without squash  *)
(* ranges; then squash a resulting 0 under root_squash, or everything.   *)
Luid(h, u) ==
    \E rpc \in RpcOutcomes, ok \in BOOLEAN :
        LET look == mode # "identity" \/ SomeSquash
            f    == IF look THEN ugid_find(mode, h, "UID_R2L", u, Anon, rpc, ok)
                    ELSE [res |-> u, map |-> umap[h], slots |-> slots, oob |-> oob]
            res  == IF (f.res = 0 /\ RootSquash) \/ AllSquash THEN Anon ELSE f.res
        IN  Done(h, "luid", u, f, res)

(* lgid: the same, but root_squash tests the gid the client sent. *)
Lgid(h, g) ==
    \E rpc \in RpcOutcomes, ok \in BOOLEAN :
        LET look == mode # "identity" \/ SomeSquash
            f    == IF look THEN ugid_find(mode, h, "GID_R2L", g, Anon, rpc, ok)
                    ELSE [res |-> g, map |-> umap[h], slots |-> slots, oob |-> oob]
            res  == IF (g = 0 /\ RootSquash) \/ AllSquash THEN Anon ELSE f.res
        IN  Done(h, "lgid", g, f, res)

(* ruid / rgid (getattr): identity passes through; otherwise translate *)
(* with AUTH_UID_NOBODY for a miss.                                    *)
Rid(h, how, op, i) ==
    \E rpc \in RpcOutcomes, ok \in BOOLEAN :
        LET f == IF mode = "identity"
                   THEN [res |-> i, map |-> umap[h], slots |-> slots, oob |-> oob]
                   ELSE ugid_find(mode, h, how, i, NOBODY, rpc, ok)
        IN  Done(h, op, i, f, f.res)

(* SIGHUP: auth_init frees every client with ugid_free_map, which also   *)
(* empties the ugidd handle cache, and reads the exports again.          *)
Reload ==
    /\ reloads < MaxReload
    /\ reloads' = reloads + 1
    /\ umap' = InitMaps(mode, order)
    /\ slots' = [i \in 1 .. MAXCACHE |-> FreeSlot]
    /\ UNCHANGED <<mode, order, oob, now, calls, last>>

Tick ==
    /\ now < MaxTime
    /\ now' = now + 1
    /\ UNCHANGED <<mode, order, umap, slots, oob, reloads, calls, last>>

Next ==
    \/ \E h \in Hosts, i \in IdVals :
          \/ Luid(h, i) \/ Lgid(h, i)
          \/ Rid(h, "UID_L2R", "ruid", i) \/ Rid(h, "GID_L2R", "rgid", i)
    \/ Reload \/ Tick

Spec == Init /\ [][Next]_vars

-----------------------------------------------------------------------------

TypeOK ==
    /\ mode \in Modes /\ order \in Orders
    /\ umap \in [Hosts -> [How -> [IdVals -> Entry]]]
    /\ slots \in [1 .. MAXCACHE -> Slot]
    /\ oob \in BOOLEAN
    /\ now \in 1 .. MaxTime
    /\ reloads \in 0 .. MaxReload
    /\ calls \in 0 .. MaxCalls
    /\ last.op \in {"none", "luid", "lgid", "ruid", "rgid"}

SquashedBy(op) == IF op = "luid" THEN SquashUids ELSE SquashGids

(* Spec 4.H and auth_init.c:120-123: an id in the export's squash_uids or *)
(* squash_gids ranges is translated by luid or lgid to the export's       *)
(* anonymous id, whichever client the request came from and whatever    *)
(* lookups, reverse entries, expiries and reloads happened before.      *)
SquashHonoured ==
    last.op \in {"luid", "lgid"} /\ last.arg \in SquashedBy(last.op) => last.res = Anon

(* The same, for hosts the export names exactly and the static and     *)
(* identity maps: the squash records auth_init wrote are what luid and  *)
(* lgid read, through every reload.                                      *)
SquashHonouredNamed == last.host \in Exact /\ mode # "daemon" => SquashHonoured

(* The translation a mapping gives, as names: luid/lgid give a server id *)
(* for a client id, ruid/rgid the reverse.                             *)
Agrees(op, h, arg, res) ==
    LET how == CASE op = "luid" -> "UID_R2L" [] op = "lgid" -> "GID_R2L"
                 [] op = "ruid" -> "UID_L2R" [] OTHER -> "GID_L2R"
        srv == IF op \in {"luid", "lgid"} THEN res ELSE arg
        clt == IF op \in {"luid", "lgid"} THEN arg ELSE res
    IN  /\ srv \in DOMAIN SrvDb(how) /\ clt \in DOMAIN CltDb(h, how)
        /\ SrvDb(how)[srv] = CltDb(h, how)[clt]

(* map_daemon translates by name: a real id luid, lgid, ruid or rgid     *)
(* returns under a daemon map, from ugidd's answers or from the reverse  *)
(* entries ugid_find stores after them, has the same passwd or group     *)
(* name on the server as its counterpart has on the client.  Squashed    *)
(* ids and the anonymous and NOBODY answers are left out.                *)
DaemonMapsByName ==
    /\ mode = "daemon"
    /\ last.op # "none"
    /\ last.res \in Ids
    /\ ~(last.op \in {"luid", "lgid"} /\ last.arg \in SquashedBy(last.op))
    => Agrees(last.op, last.host, last.arg, last.res)

(* ugid_get_client creates a handle only after scanning the whole cache *)
(* for the host, so no host ever has two slots.                         *)
NoDuplicateSlots ==
    \A i, j \in 1 .. MAXCACHE : i # j /\ slots[i].addr = slots[j].addr => slots[i].addr = ANY

(* ugid_get_client always finds a slot for a new handle. *)
SlotInBounds == ~oob
=============================================================================
