-------------------------- MODULE MCBrowserSession --------------------------
(* Two accounts, one token of an administrator and one of a user. *)
EXTENDS BrowserSession

CONSTANTS t1, t2, alice, bob

MCOwner == t1 :> alice @@ t2 :> bob
=============================================================================
