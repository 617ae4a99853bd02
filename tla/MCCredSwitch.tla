---------------------------- MODULE MCCredSwitch ----------------------------
(* Model-checking instance of CredSwitch: two client uids and gids (root  *)
(* and one user), NGRPS = 2, a root_squash export and an all_squash one.  *)
EXTENDS CredSwitch

MCUids == {0, 1}
MCGids == {0, 1}
MCGidLists == {<<>>, <<1>>, <<0, 1>>}
MCInitGroups == <<0>>

=============================================================================
