-------------------------- MODULE MCWorldSessions ---------------------------
(***************************************************************************)
(* The instances.  The queue: four realm connections on three accounts,    *)
(* two of them of one account, and no logins.  The login: two connections  *)
(* of one account, the first of which may make two keys.  A single         *)
(* connection is enough for the two runs that find a violation.            *)
(***************************************************************************)
EXTENDS WorldSessions, TLC

CONSTANTS s1, s2, s3, s4, a1, a2, a3

QueueAccounts == (s1 :> a1) @@ (s2 :> a1) @@ (s3 :> a2) @@ (s4 :> a3)
QueueKeys     == [s \in {s1, s2, s3, s4} |-> 0]

LoginAccounts == (s1 :> a1) @@ (s2 :> a1)
LoginKeys     == (s1 :> 2) @@ (s2 :> 0)

SingleAccount == s1 :> a1
SingleKeys    == s1 :> 2
=============================================================================
