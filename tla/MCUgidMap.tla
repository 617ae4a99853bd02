----------------------------- MODULE MCUgidMap -----------------------------
EXTENDS UgidMap, TLC

\* map_static lines: remote uid 0 and gid 0 to local 1.
MCStaticLines == << <<"u", 0, 1>>, <<"g", 0, 1>> >>

\* The server's passwd file, which has no bob; its group file uses the
\* same names.  Every name the server has, each client has too.
MCSrvPasswd == (0 :> "root") @@ (1 :> "alice") @@ (NOBODY :> "nobody")

\* A host the export names shares the server's numbering; the other host
\* numbers alice and bob the other way round.
MCCltPasswd ==
    [h \in Hosts |-> IF h \in Exact
                     THEN (0 :> "root") @@ (1 :> "alice") @@ (2 :> "bob") @@ (NOBODY :> "nobody")
                     ELSE (0 :> "root") @@ (1 :> "bob") @@ (2 :> "alice") @@ (NOBODY :> "nobody")]

\* Clients without alice: their ugidd answers NAME_UID("alice") with NOBODY.
MCCltPasswdNoAlice ==
    [h \in Hosts |-> (0 :> "root") @@ (2 :> "bob") @@ (NOBODY :> "nobody")]

MCModes == {"identity", "static", "daemon"}

MCOrders == {"static_first", "squash_first"}

\* A further static line for remote uid 1, which squash_uids also names.
MCStaticLinesOverlap == << <<"u", 0, 1>>, <<"g", 0, 1>>, <<"u", 1, 2>> >>
=============================================================================
