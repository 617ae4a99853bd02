----------------------------- MODULE MCExports -----------------------------
(* Three addresses: a1 and a2 are the two addresses of host "h.X", a1 in  *)
(* the netmask 1/1 (odd addresses); a3 has no name and no netmask.  Paths *)
(* "/", "/a", "/a/a" and "/a-a" ('-' sorts before '/', so "/a-a" lies     *)
(* between "/a/a" and "/a" in strcmp order without being under "/a").    *)
EXTENDS Exports, TLC

CONSTANTS a1, a2, a3, n1, w1, m1, o1, o2, o3, o4

R  == <<"/">>
A  == <<"/", "a">>
AA == <<"/", "a", "/", "a">>
AD == <<"/", "a", "-", "a">>

MCCode == ("/" :> 47) @@ ("a" :> 97) @@ ("-" :> 45)
MCLower == ("h" :> "h") @@ ("." :> ".") @@ ("x" :> "x") @@ ("X" :> "x") @@ ("*" :> "*")
MCText == (n1 :> <<"h", ".", "X">>) @@ (w1 :> <<"*", ".", "x">>)
MCIP == (a1 :> 1) @@ (a2 :> 2) @@ (a3 :> 0)
MCRev == (a1 :> n1) @@ (a2 :> n1) @@ (a3 :> NoName)
\* a2 without a name: the host has one address.
MCRevSingle == (a1 :> n1) @@ (a2 :> NoName) @@ (a3 :> NoName)
MCNet == (m1 :> 1)
MCNetMask == (m1 :> 1)

L(p, w, o) == [path |-> p, who |-> w, o |-> o]
\* /a to h.X, /a/a and /a-a to *.x, /a/a to 1/1, / to everyone.
F1 == << L(A, n1, o1), L(AA, w1, o2), L(AD, w1, o2), L(AA, m1, o3), L(R, AnonClient, o4) >>
\* The netmask line dropped, /a/a to everyone as well.
F2 == << L(A, n1, o1), L(AD, w1, o2), L(R, AnonClient, o4), L(AA, AnonClient, o4) >>
\* No literal name: h.X's client is made at its first request.
F3 == << L(A, w1, o2), L(AA, m1, o3) >>
MCFiles == {F1, F2}
MCFiles3 == {F3}
MCReqPaths == {AA, AD}
============================================================================
