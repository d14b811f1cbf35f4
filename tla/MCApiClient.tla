---------------------------- MODULE MCApiClient ----------------------------
(***************************************************************************)
(* Small instances of ApiClient for TLC.                                   *)
(***************************************************************************)
EXTENDS ApiClient

TheWorlds == {{"logout"}, {"slow", "reload"}, {"redis", "logout"}, {"network", "reload"},
              {"limit", "redis", "restart"}, {"roles", "reload"}}
=============================================================================
