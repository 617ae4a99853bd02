------------------------------ MODULE MCRmtab ------------------------------
(* Host names and paths over the characters '/', ':', 'a' and 'b', with  *)
(* their ASCII codes; a line is kept up to MCLineMax bytes.              *)
EXTENDS Rmtab

MCOrd == ("/" :> 47) @@ (":" :> 58) @@ ("a" :> 97) @@ ("b" :> 98) @@
         ("\n" :> 10) @@ ("EOF" :> 255)

\* "a" sorts before its extension "ab" by strcmp.
MCHosts == {<<"a">>, <<"b">>, <<"a", "b">>}

MCFewHosts == {<<"a">>, <<"b">>}

\* Paths without a colon, each of whose lines fits in the buffer.
MCDirs == {<<"/">>, <<"/", "a">>}

\* A path with a colon in it.
MCColonDirs == {<<"/">>, <<"/", ":">>}

\* A line "a:/a/b" of six bytes, longer than the buffer of five.
MCLongDirs == {<<"/">>, <<"/", "a", "/", "b">>}
\* realpath of an existing directory: a trailing '/' is dropped.
MCRealpath(p) == IF Len(p) > 1 /\ Last(p) = "/" THEN Front(p) ELSE p

\* Arguments as a client may type them: empty, and with a trailing '/'.
MCRawDirs == {<<>>, <<"/", "a">>, <<"/", "a", "/">>}

\* At most one kill of mountd in a behaviour, between calls or inside the
\* rewrite: a restart rereads the file either way.
MCOneKill == crashes + wcrashes <= 1
=============================================================================
