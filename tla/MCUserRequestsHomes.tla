-------------------------- MODULE MCUserRequestsHomes --------------------------
(***************************************************************************)
(* The instances of MCUserRequests for UserRequestsHomes.                  *)
(***************************************************************************)
EXTENDS UserRequestsHomes, MCUserRequests
=============================================================================
