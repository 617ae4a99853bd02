----------------------------- MODULE MCFhPaths -----------------------------
(* A small exported tree for FhPaths: "/" read-write, "/a" read-only. *)
EXTENDS FhPaths

NameOrderDef == <<"a", "b">>
ExportsDef == {<<>>, <<"a">>}
\* Clients mount the two exports and the file below "/a".
MountPathsDef == {<<>>, <<"a">>, <<"a", "a">>}
ReadOnlyDef == {<<"a">>}
NameLenDef == [n \in {"a", "b"} |-> 1]
HashDef == [i \in 1 .. 5 |-> IF i % 2 = 1 THEN 0 ELSE 1]
InitFsDef ==
    [kind |-> [i \in 1 .. 5 |-> CASE i \in {1, 2} -> "dir"
                                  [] i = 3 -> "file"
                                  [] OTHER -> "free"],
     ent  |-> [i \in 1 .. 5 |-> [n \in {"a", "b"} |->
                                   CASE i = 1 /\ n = "a" -> 2
                                     [] i = 2 /\ n = "a" -> 3
                                     [] OTHER -> 0]]]
\* For the MNT race: "/a" and "/b" each hold a file "a"; the two
\* directories hash differently.
RaceFsDef ==
    [kind |-> [i \in 1 .. 5 |-> CASE i \in {1, 2, 4} -> "dir" [] OTHER -> "file"],
     ent  |-> [i \in 1 .. 5 |-> [n \in {"a", "b"} |->
                                   CASE i = 1 /\ n = "a" -> 2
                                     [] i = 1 /\ n = "b" -> 4
                                     [] i = 2 /\ n = "a" -> 3
                                     [] i = 4 /\ n = "a" -> 5
                                     [] OTHER -> 0]]]
RaceHashDef == [i \in 1 .. 5 |-> IF i = 4 THEN 0 ELSE 1]
RaceMountPathsDef == {<<>>, <<"a", "a">>}
RaceExportsDef == {<<>>}
=============================================================================
