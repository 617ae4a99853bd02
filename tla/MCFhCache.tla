----------------------------- MODULE MCFhCache ------------------------------
(* Model-checking instance of FhCache (constants in MCFhCache*.cfg): three *)
(* handles, one of them a special file; FH_CACHE_LIMIT = 1, so eviction   *)
(* and the limit + 1 entry happen; FOPEN_MAX = 2 gives FD_CACHE_LIMIT = 1,*)
(* so every open has to close the descriptor-LRU tail; descriptors 0..2   *)
(* with 0 held by the RPC socket.                                          *)
EXTENDS FhCache
=============================================================================
