---------------------------- MODULE MCOAuthServer ----------------------------
(* An instance of OAuthServer for TLC: one client that may
   ask for a scope and one that may not. *)
EXTENDS OAuthServer, TLC

CONSTANTS app, cli, read

MCallowed_scopes == app :> {read} @@ cli :> {}
HandlerSymmetry == Permutations(Handlers)
=============================================================================
