------------------------------ MODULE MCApiServer ------------------------------
(***************************************************************************)
(* A small instance of ApiServer for TLC.                                  *)
(***************************************************************************)
EXTENDS ApiServerInv

Set(l, e) == [k \in {"limit", "expiry"} |-> IF k = "limit" THEN l ELSE e]
Env(set, dotenv, text, good) ==
  [process |-> set, file |-> dotenv, logLevel |-> text, others |-> good]
NoFile == Set(<<>>, <<>>)

\* The defaults; a limit of nothing; one from the second line of .env, which the
\* first one hides; limits and expiries that overflow, to below nothing, to nothing
\* and to something else; settings Load refuses.  One of them logs warnings only.
MCEnvironments ==
  {Env(Set(Unset, Unset), NoFile, "info", TRUE),
   Env(Set(Unset, BlankText), NoFile, "info", TRUE),
   Env(Set(Unset, Unset), Set(<<BlankText, 0>>, <<9>>), "verbose", TRUE),
   Env(Set(5, 2), Set(<<1>>, <<>>), "warning", TRUE),
   Env(Set(1, 8), NoFile, "info", TRUE),
   Env(Set(1, 5), NoFile, "info", TRUE),
   Env(Set(Unset, NotANumber), NoFile, "info", TRUE),
   Env(Set(Unset, Unset), NoFile, "info", FALSE)}

\* The probe, a login, and a request RequireAuth stops.
MCRequests == {[path |-> "health", token |-> FALSE], [path |-> "login", token |-> FALSE],
               [path |-> "users", token |-> FALSE]}
=============================================================================
