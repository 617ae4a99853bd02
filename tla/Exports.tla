------------------------------ MODULE Exports ------------------------------
(***************************************************************************)
(* The export database of auth.c and auth_init.c.  auth_init reads        *)
(* /etc/exports line by line; each client entry of a line gets an         *)
(* nfs_client (get_client) in one of the buckets: literal names that       *)
(* resolve (known_clients, hashed by address), names that do not           *)
(* (unknown_clients), wildcard patterns (sorted by descending length),     *)
(* addr/mask pairs, and the anonymous client.  auth_add_mount inserts the  *)
(* line's path into the client's mount list, kept in descending strcmp     *)
(* order.  Then the netmask, wildcard and anonymous lists are copied into  *)
(* the known clients and their lists sorted for parent links.  A request   *)
(* from an address finds its client through the lookup cache, the address  *)
(* hash, or auth_unknown_clientbyaddr, which builds a client from every    *)
(* pattern that matches; auth_path picks the first mount that is a prefix  *)
(* of the request.  SIGHUP rebuilds the database from the file, which the  *)
(* administrator may have edited.                                          *)
(*                                                                         *)
(* Paths and host names are sequences of characters, since strcmp order,   *)
(* prefix tests and hostmatch are what is checked.  Netgroups (innetgr),   *)
(* the promiscuous default client and the secure-port test are left out.  *)
(***************************************************************************)
EXTENDS Integers, Sequences, SequencesExt, FiniteSets, Bitwise

CONSTANTS
    Addrs,        \* client addresses
    IP,           \* IP[a]: the address as a number, for the netmask test
    Names,        \* host names (model values)
    Patterns,     \* wildcard patterns of the exports file
    Masks,        \* addr/mask client entries of the exports file
    Net, NetMask, \* their address and mask
    Text,         \* Text[x]: the characters of a name or pattern
    Rev,          \* Rev[a]: the verified name of a (auth_reverse_lookup), or NoName
    NoName,
    AnonClient,   \* the anonymous client (an empty client field)
    NoClient,     \* NULL
    NoPath,       \* a NULL parent
    NoAddr,       \* an unused cache slot
    Opts,         \* option sets a line may give
    Code,         \* character codes, for strcmp
    LowerCase,    \* tolower on the characters of names
    Files,        \* the exports files the administrator may install
    ReqPaths,     \* paths clients ask for
    IPCACHEMAX,   \* slots of cached_clients
    ANONMAX,      \* nr_anonymous_clients limit (1000 in the code)
    MaxReload,    \* bound on SIGHUPs
    MaxReq        \* bound on requests

Keys == Names \cup Patterns \cup Masks \cup {AnonClient} \cup Addrs

Entry == [path : Seq(DOMAIN Code), len : Nat, o : Opts, parent : Seq(DOMAIN Code) \cup {NoPath}]
NoMount == [path |-> NoPath, len |-> 0, o |-> NoPath, parent |-> NoPath]

VARIABLES
    file,     \* the current /etc/exports
    loaded,   \* the file auth_init last read
    cl,       \* cl[k]: the mount list of client k, or NoClient
    known,    \* known_clients
    unknown,  \* unknown_clients
    wild,     \* wildcard_clients, in list order
    masks,    \* netmask_clients, in list order
    hash,     \* hashtable: the client an address hashes to
    cache,    \* cached_clients: IPCACHEMAX slots [addr, clnt]
    next,     \* cached_next
    nanon,    \* nr_anonymous_clients
    last,     \* the last request since the last load (address, path, client, mount)
    reloads, reqs

vars == <<file, loaded, cl, known, unknown, wild, masks, hash, cache, next, nanon, last, reloads, reqs>>

(* strcmp: the sign of the first difference, a shorter string first. *)
RECURSIVE StrCmp(_, _)
StrCmp(s, t) ==
    IF s = <<>> \/ t = <<>> THEN Len(s) - Len(t)
    ELSE IF Head(s) # Head(t) THEN Code[Head(s)] - Code[Head(t)]
    ELSE StrCmp(Tail(s), Tail(t))

(* mp->length: strlen with trailing '/' stripped, so "/" has length 0. *)
RECURSIVE Length(_)
Length(p) == IF p # <<>> /\ p[Len(p)] = "/" THEN Length(Front(p)) ELSE Len(p)

(* strncmp(a, b, n) = 0 with both at least n long, then a[n] is '/'. *)
PrefixAt(p, n) == SubSeq(p, 1, n)
Under(p, up) == Len(p) > up.len /\ PrefixAt(p, up.len) = PrefixAt(up.path, up.len) /\ p[up.len + 1] = "/"

(* A mutant: the list kept ascending, the comparison the wrong way round. *)
auth_add_mount_asc(lst, p, o, override) ==
    LET i == SelectInSeq(lst, LAMBDA e : StrCmp(e.path, p) >= 0)
    IN  IF i # 0 /\ lst[i].path = p
        THEN IF override THEN [lst EXCEPT ![i].o = o] ELSE lst
        ELSE InsertAt(lst, IF i = 0 THEN Len(lst) + 1 ELSE i,
                      [path |-> p, len |-> Length(p), o |-> o, parent |-> NoPath])

(* auth_add_mount: the first entry not greater than path; an equal one  *)
(* is kept (override: its options are replaced), else a new entry goes  *)
(* before it.                                                           *)
auth_add_mount(lst, p, o, override) ==
    LET i == SelectInSeq(lst, LAMBDA e : StrCmp(e.path, p) <= 0)
    IN  IF i # 0 /\ lst[i].path = p
        THEN IF override THEN [lst EXCEPT ![i].o = o] ELSE lst
        ELSE InsertAt(lst, IF i = 0 THEN Len(lst) + 1 ELSE i,
                      [path |-> p, len |-> Length(p), o |-> o, parent |-> NoPath])

(* auth_add_mountlist with override 0: a path the client has keeps its  *)
(* options; a new one is copied with the source's options.              *)
auth_add_mountlist(dst, src) ==
    FoldLeft(LAMBDA acc, e : auth_add_mount(acc, e.path, e.o, FALSE), dst, src)

(* A mutant: the test that the prefix ends at a '/' dropped. *)
auth_sort_mountlist_any(lst) ==
    [i \in 1..Len(lst) |->
        LET j == SelectInSubSeq(lst, i + 1, Len(lst),
                   LAMBDA up : Len(lst[i].path) > up.len /\ PrefixAt(lst[i].path, up.len) = PrefixAt(up.path, up.len))
        IN  [lst[i] EXCEPT !.parent = IF j = 0 THEN NoPath ELSE lst[j].path]]

(* auth_sort_mountlist: each entry's parent is the first later entry    *)
(* that is a prefix of it ending at a '/'.                              *)
auth_sort_mountlist(lst) ==
    [i \in 1..Len(lst) |->
        LET j == SelectInSubSeq(lst, i + 1, Len(lst), LAMBDA up : Under(lst[i].path, up))
        IN  [lst[i] EXCEPT !.parent = IF j = 0 THEN NoPath ELSE lst[j].path]]

(* auth_match_mount: the first entry that is a prefix of path ending at *)
(* a '/' or at the end.                                                 *)
Matches(q, e) == Len(q) >= e.len /\ PrefixAt(q, e.len) = PrefixAt(e.path, e.len)
                 /\ (Len(q) = e.len \/ q[e.len + 1] = "/")
auth_match_mount(lst, q) ==
    LET i == SelectInSeq(lst, LAMBDA e : Matches(q, e))
    IN  IF i = 0 THEN NoMount ELSE lst[i]

(* hostmatch: '*' skips to the next '.', '?' takes one character other  *)
(* than '.', others compare exactly, and case-blind once a '.' or '*'   *)
(* has been seen in the pattern; the match ends when either string does.*)
SkipToDot(h) == LET i == SelectInSeq(h, LAMBDA c : c = ".") IN IF i = 0 THEN <<>> ELSE SubSeq(h, i, Len(h))
RECURSIVE HostMatch(_, _, _)
HostMatch(h, p, seen) ==
    IF h = <<>> \/ p = <<>> THEN h = p
    ELSE CASE Head(p) = "*" -> HostMatch(SkipToDot(h), Tail(p), TRUE)
           [] Head(p) = "?" -> Head(h) # "." /\ HostMatch(Tail(h), Tail(p), seen)
           [] OTHER -> /\ IF seen THEN LowerCase[Head(h)] = LowerCase[Head(p)] ELSE Head(h) = Head(p)
                       /\ HostMatch(Tail(h), Tail(p), seen \/ Head(p) = ".")
hostmatch(n, w) == HostMatch(Text[n], Text[w], FALSE)

(* The addresses gethostbyname gives for a name. *)
Fwd(n) == {a \in Addrs : Rev[a] = n}

(* The netmask test of auth_check_all_netmasks and auth_unknown_clientbyaddr. *)
Covers(m, a) == ((IP[a] ^^ Net[m]) & NetMask[m]) = 0

-----------------------------------------------------------------------------
(* The database as one record, so that auth_init and the lookups can be    *)
(* written as folds over the file's lines and the pattern lists.           *)
St == [cl |-> cl, known |-> known, unknown |-> unknown, wild |-> wild,
       masks |-> masks, hash |-> hash, nanon |-> nanon]

HashAll(h, as, k) == [a \in Addrs |-> IF a \in as THEN k ELSE h[a]]

(* auth_create_client for a pattern: after every pattern at least as long. *)
WildInsert(ws, w) ==
    LET i == SelectInSeq(ws, LAMBDA x : Len(Text[w]) > Len(Text[x]))
    IN  InsertAt(ws, IF i = 0 THEN Len(ws) + 1 ELSE i, w)

(* get_client: auth_get_client finds the entry by name in its bucket, else *)
(* auth_create_client makes one; a literal name that does not resolve now  *)
(* (down) goes to unknown_clients.                                         *)
get_client(s, k, down) ==
    IF s.cl[k] # NoClient THEN s
    ELSE LET s1 == [s EXCEPT !.cl[k] = <<>>]
         IN  CASE k \in Patterns -> [s1 EXCEPT !.wild = WildInsert(@, k)]
               [] k \in Masks    -> [s1 EXCEPT !.masks = <<k>> \o @]
               [] k \in Names /\ k \notin down /\ Fwd(k) # {} ->
                                    [s1 EXCEPT !.known = @ \cup {k}, !.hash = HashAll(@, Fwd(k), k)]
               [] k \in Names    -> [s1 EXCEPT !.unknown = @ \cup {k}]
               [] OTHER          -> s1

(* One client entry of an exports line: get_client, then auth_add_mount  *)
(* with override, the line's options replacing the defaults.             *)
ParseEntry(s, l, down) ==
    LET s1 == get_client(s, l.who, down)
    IN  [s1 EXCEPT !.cl[l.who] = auth_add_mount(@, l.path, l.o, TRUE)]

(* auth_check_all_netmasks: every hashed client whose address a netmask  *)
(* covers gets that netmask's mounts, netmask by netmask.                *)
CheckNetmasks(s) ==
    FoldLeft(LAMBDA t, m :
               LET hit == {t.hash[a] : a \in {b \in Addrs : t.hash[b] # NoClient /\ Covers(m, b)}}
               IN  [t EXCEPT !.cl = [k \in Keys |-> IF k \in hit THEN auth_add_mountlist(@[k], @[m]) ELSE @[k]]],
             s, s.masks)

(* auth_check_wildcards: the mounts of every matching pattern in list    *)
(* order, then the anonymous client's.                                   *)
Wildcards(s, k) ==
    LET w == FoldLeft(LAMBDA acc, x : IF hostmatch(k, x) THEN auth_add_mountlist(acc, s.cl[x]) ELSE acc,
                      s.cl[k], s.wild)
    IN  IF s.cl[AnonClient] # NoClient THEN auth_add_mountlist(w, s.cl[AnonClient]) ELSE w
CheckWildcards(s) ==
    [s EXCEPT !.cl = [k \in Keys |-> IF k \in s.known \cup s.unknown THEN Wildcards(s, k) ELSE @[k]]]

(* auth_sort_all_mountlists: the known clients only. *)
SortAll(s) ==
    [s EXCEPT !.cl = [k \in Keys |-> IF k \in s.known THEN auth_sort_mountlist(@[k]) ELSE @[k]]]

(* auth_init: auth_init_lists frees every bucket but netmask_clients and *)
(* empties the hash; the lines are parsed in order; then the netmask and *)
(* wildcard lists are copied and the known clients sorted.               *)
auth_init(s, f, down) ==
    LET s0 == [s EXCEPT !.cl = [k \in Keys |-> IF k \in Masks THEN @[k] ELSE NoClient],
                        !.known = {}, !.unknown = {}, !.wild = <<>>,
                        !.hash = [a \in Addrs |-> NoClient]]
    IN  SortAll(CheckWildcards(CheckNetmasks(
            FoldLeft(LAMBDA t, l : ParseEntry(t, l, down), s0, f))))

(* auth_create_client at request time, for the host's name (hp) or, when *)
(* it has none, its dotted address: a known client hashed by the host's  *)
(* addresses, or by the one address.                                     *)
CreateClient(s, hk, hp, a) ==
    [s EXCEPT !.cl[hk] = <<>>, !.known = @ \cup {hk},
              !.hash = IF hp # NoName THEN HashAll(@, Fwd(hp), hk) ELSE [@ EXCEPT ![a] = hk]]

(* One matching pattern: the client is made on the first match, then the *)
(* pattern's mounts are added to it.                                     *)
Contribute(r, src, hk, hp, a) ==
    LET s == IF r.made THEN r.s ELSE CreateClient(r.s, hk, hp, a)
    IN  [s |-> [s EXCEPT !.cl[hk] = auth_add_mountlist(@, s.cl[src])], made |-> TRUE]

(* auth_unknown_clientbyaddr: the reverse lookup (only when an unknown   *)
(* name or a pattern could use it), a previously unresolved name, every  *)
(* matching wildcard, every covering netmask, then the anonymous client: *)
(* returned shared when nothing else matched, its hash entries dropped   *)
(* after ANONMAX of them, or added to the new client, which is sorted.   *)
auth_unknown_clientbyaddr(s, a) ==
    LET hp == IF s.unknown # {} \/ s.wild # <<>> THEN Rev[a] ELSE NoName
        hk == IF hp # NoName THEN hp ELSE a
        r1 == IF hp # NoName /\ hp \in s.unknown
              THEN [s |-> [s EXCEPT !.unknown = @ \ {hp}, !.known = @ \cup {hp},
                                    !.hash = HashAll(@, Fwd(hp), hp)], made |-> TRUE]
              ELSE [s |-> s, made |-> FALSE]
        r2 == IF hp = NoName THEN r1
              ELSE FoldLeft(LAMBDA r, w : IF hostmatch(hp, w) THEN Contribute(r, w, hk, hp, a) ELSE r,
                            r1, s.wild)
        r3 == FoldLeft(LAMBDA r, m : IF Covers(m, a) THEN Contribute(r, m, hk, hp, a) ELSE r,
                       r2, s.masks)
        t  == r3.s
    IN  CASE t.cl[AnonClient] # NoClient /\ ~r3.made ->
               LET n   == t.nanon + 1
                   h   == IF n > ANONMAX THEN [b \in Addrs |-> IF t.hash[b] = AnonClient THEN NoClient ELSE t.hash[b]]
                          ELSE t.hash
               IN  [s |-> [t EXCEPT !.nanon = IF n > ANONMAX THEN 0 ELSE n, !.hash = [h EXCEPT ![a] = AnonClient]],
                    c |-> AnonClient]
          [] r3.made ->
               LET u == IF t.cl[AnonClient] # NoClient
                        THEN [t EXCEPT !.cl[hk] = auth_add_mountlist(@, t.cl[AnonClient])] ELSE t
               IN  [s |-> [u EXCEPT !.cl[hk] = auth_sort_mountlist(@)], c |-> hk]
          [] OTHER -> [s |-> t, c |-> NoClient]

(* auth_clientbyaddr without the cache: the hash, else the unknown path. *)
Lookup(s, a) ==
    IF s.hash[a] # NoClient THEN [s |-> s, c |-> s.hash[a]] ELSE auth_unknown_clientbyaddr(s, a)

Set(s) == /\ cl' = s.cl /\ known' = s.known /\ unknown' = s.unknown /\ wild' = s.wild
          /\ masks' = s.masks /\ hash' = s.hash /\ nanon' = s.nanon

-----------------------------------------------------------------------------
EmptyCache == [i \in 1..IPCACHEMAX |-> [addr |-> NoAddr, clnt |-> NoClient]]
NoReq == [addr |-> NoAddr, path |-> NoPath, c |-> NoClient, m |-> NoMount]
Served(lst, c, a, q) == [addr |-> a, path |-> q, c |-> c, m |-> IF c = NoClient THEN NoMount ELSE auth_match_mount(lst[c], q)]

(* Start-up: nfsd's main calls auth_init on the installed file; a literal *)
(* name may fail to resolve then.                                        *)
Init ==
    /\ file \in Files /\ loaded = file
    /\ \E down \in SUBSET Names :
         \E s \in {auth_init([cl |-> [k \in Keys |-> NoClient], known |-> {}, unknown |-> {},
                              wild |-> <<>>, masks |-> <<>>, hash |-> [a \in Addrs |-> NoClient],
                              nanon |-> 0], file, down)} :
            /\ cl = s.cl /\ known = s.known /\ unknown = s.unknown /\ wild = s.wild
            /\ masks = s.masks /\ hash = s.hash /\ nanon = s.nanon
    /\ cache = EmptyCache /\ next = 0
    /\ last = NoReq /\ reloads = 0 /\ reqs = 0

(* A request whose address is in cached_clients: the cached client, a    *)
(* NULL one included, and auth_path on its list.                         *)
CachedRequest(a, q) ==
    /\ reqs < MaxReq
    /\ \E i \in 1..IPCACHEMAX :
         /\ cache[i].addr = a
         /\ last' = Served(cl, cache[i].clnt, a, q)
    /\ reqs' = reqs + 1
    /\ UNCHANGED <<file, loaded, cl, known, unknown, wild, masks, hash, cache, next, nanon, reloads>>

(* Mutant: the round-robin index wraps one slot too late. *)
Request_mod(a, q) ==
    /\ reqs < MaxReq
    /\ \A i \in 1..IPCACHEMAX : cache[i].addr # a
    /\ \E r \in {Lookup(St, a)} :
         /\ Set(r.s)
         /\ cache' = [cache EXCEPT ![next + 1] = [addr |-> a, clnt |-> r.c]]
         /\ next' = (next + 1) % (IPCACHEMAX + 1)
         /\ last' = Served(r.s.cl, r.c, a, q)
    /\ reqs' = reqs + 1
    /\ UNCHANGED <<file, loaded, reloads>>

(* auth_clientbyaddr on a miss: the hash or auth_unknown_clientbyaddr,   *)
(* the result (NULL too) stored in the next slot round-robin; then       *)
(* auth_path.                                                            *)
Request(a, q) ==
    /\ reqs < MaxReq
    /\ \A i \in 1..IPCACHEMAX : cache[i].addr # a
    /\ \E r \in {Lookup(St, a)} :
         /\ Set(r.s)
         /\ cache' = [cache EXCEPT ![next + 1] = [addr |-> a, clnt |-> r.c]]
         /\ next' = (next + 1) % IPCACHEMAX
         /\ last' = Served(r.s.cl, r.c, a, q)
    /\ reqs' = reqs + 1
    /\ UNCHANGED <<file, loaded, reloads>>

(* The administrator installs another exports file. *)
Edit(f) ==
    /\ f # file
    /\ file' = f
    /\ UNCHANGED <<loaded, cl, known, unknown, wild, masks, hash, cache, next, nanon, last, reloads, reqs>>

(* SIGHUP: reinitialize calls auth_init(NULL), which rereads the file;   *)
(* auth_init_lists also empties cached_clients.                          *)
Reload ==
    /\ reloads < MaxReload
    /\ \E down \in SUBSET Names : Set(auth_init(St, file, down))
    /\ loaded' = file
    /\ cache' = EmptyCache /\ next' = 0
    /\ reloads' = reloads + 1
    /\ last' = NoReq
    /\ UNCHANGED <<file, reqs>>

Next ==
    \/ \E a \in Addrs, q \in ReqPaths : CachedRequest(a, q) \/ Request(a, q)
    \/ \E f \in Files : Edit(f)
    \/ Reload

Spec == Init /\ [][Next]_vars
-----------------------------------------------------------------------------
TypeOK ==
    /\ file \in Files /\ loaded \in Files
    /\ cl \in [Keys -> Seq(Entry) \cup {NoClient}]
    /\ known \subseteq Keys /\ unknown \subseteq Names
    /\ wild \in Seq(Patterns) /\ masks \in Seq(Masks)
    /\ hash \in [Addrs -> Keys \cup {NoClient}]
    /\ cache \in [1..IPCACHEMAX -> [addr : Addrs \cup {NoAddr}, clnt : Keys \cup {NoClient}]]
    /\ next \in 0..IPCACHEMAX - 1 /\ nanon \in 0..ANONMAX
    /\ reloads \in 0..MaxReload /\ reqs \in 0..MaxReq

(* The nearest export above an entry: the longest other entry of the list *)
(* that is a prefix of it ending at a '/'.                                *)
NearestAbove(lst, i) ==
    LET up == {j \in 1..Len(lst) : j # i /\ Under(lst[i].path, lst[j])}
    IN  IF up = {} THEN NoPath
        ELSE lst[CHOOSE j \in up : \A k \in up : lst[k].len <= lst[j].len].path
ParentsRight(lst) == \A i \in 1..Len(lst) : lst[i].parent = NearestAbove(lst, i)

(* auth_match_mount "relies on the mount list being sorted from largest  *)
(* to smallest w.r.t strcmp": for every client list, however it was      *)
(* assembled from exports lines, netmasks, wildcards and the anonymous   *)
(* client, the first match is the most specific export of the path.      *)
MostSpecificMatch ==
    \A k \in Keys : cl[k] # NoClient =>
        \A q \in ReqPaths :
            \A e \in Range(cl[k]) : Matches(q, e) => e.len <= auth_match_mount(cl[k], q).len
                                                     /\ auth_match_mount(cl[k], q) # NoMount

(* auth_sort_mountlist, run on every known client after auth_init and on *)
(* every client auth_unknown_clientbyaddr builds, links each mount to     *)
(* the nearest export above it (readdir hides ".." of a mount without).   *)
KnownParents == \A k \in known : ParentsRight(cl[k])

(* The client a request is served from has its parent links right; the   *)
(* anonymous client, shared by hosts nothing else matches, is never      *)
(* sorted.                                                               *)
ServedParents == last.c # NoClient => ParentsRight(cl[last.c])

(* Which exports file lines grant an address: its verified name, a       *)
(* pattern matching that name, a netmask covering it, or anonymous.       *)
Grants(w, a) ==
    CASE w \in Names    -> Rev[a] = w
      [] w \in Patterns -> Rev[a] # NoName /\ hostmatch(Rev[a], w)
      [] w \in Masks    -> Covers(w, a)
      [] OTHER          -> TRUE

(* Every mount a request is served from is granted to that address by a  *)
(* line of the exports file the last auth_init read, with that line's    *)
(* options (spec 4.L: a revoked export takes effect on the next call     *)
(* after SIGHUP).                                                        *)
GrantedByFile ==
    last.m # NoMount =>
        \E l \in Range(loaded) : l.path = last.m.path /\ l.o = last.m.o /\ Grants(l.who, last.addr)

(* Spec 4.F's order: a literal name before a wildcard, a wildcard before *)
(* a netmask, a netmask before the anonymous client.                     *)
Rank(w) == CASE w \in Names -> 0 [] w \in Patterns -> 1 [] w \in Masks -> 2 [] OTHER -> 3
WildcardBeforeNetmask ==
    LET ls == {l \in Range(loaded) : last.m # NoMount /\ l.path = last.m.path /\ Grants(l.who, last.addr)}
    IN  ls # {} => \E l \in ls : l.o = last.m.o /\ \A l2 \in ls : Rank(l.who) <= Rank(l2.who)
=============================================================================
