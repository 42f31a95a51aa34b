-------------------------- MODULE MC_RulePublisher --------------------------
(***************************************************************************)
(* Two false positives change one watch list: the first adds a row, if it  *)
(* is not there already, the second modifies another.  Beside them a rule  *)
(* is drafted.                                                             *)
(***************************************************************************)
EXTENDS RulePublisher

CONSTANTS zone, limit, wide, narrow, exceptions, rule, kql, absent, add, tighten, draft

MCRequests == {add, tighten, draft}

MCLists ==
  {list \in UNION {[keys -> {wide, narrow}] : keys \in SUBSET {zone, limit}} :
     zone \in DOMAIN list => list[zone] = wide}

Row(action, key, value) ==
  [kind |-> "watchlist", path |-> exceptions, right_key |-> TRUE,
   action |-> action, key |-> key, value |-> value]

MCChange ==
  [r \in MCRequests |->
     CASE r = add     -> Row("add", zone, wide)
       [] r = tighten -> Row("modify", limit, narrow)
       [] OTHER       -> [kind |-> "content", path |-> rule, text |-> kql]]
=============================================================================
