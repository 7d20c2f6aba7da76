-------------------------- MODULE MCMessagingCalls --------------------------
(* Instances of MessagingCalls for TLC. *)
EXTENDS MCMessaging, MessagingCalls
=============================================================================
