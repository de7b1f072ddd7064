---------------------------- MODULE MCWebhooks ----------------------------
EXTENDS Webhooks

(* One event is sent to an account and signed with its secret, the other    *)
(* without a header and signed with the sandbox secret.                     *)
MCRoute == [e \in Events |-> IF e = "e1" THEN [to |-> "shop", key |-> "shop"]
                                        ELSE [to |-> NoOwner, key |-> Sandbox]]
=============================================================================
