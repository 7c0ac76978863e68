----------------------------- MODULE MCDevServer -----------------------------
(* One user's processes for TLC: a session, a launcher, an owner, a stop. *)
EXTENDS DevServer, TLC

CONSTANTS s1, w1, d1, k1

OneOfEach == s1 :> {"session"} @@ w1 :> {"launcher"} @@ d1 :> Owners @@ k1 :> {"service_stop"}
=============================================================================
