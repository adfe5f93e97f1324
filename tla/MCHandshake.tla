---------------------------- MODULE MCHandshake ----------------------------
(* Handshake with interchangeable plans, chats and turns.                  *)
EXTENDS Handshake, TLC

Symmetric == Permutations(Plans) \union Permutations(Keys) \union Permutations(Clients)
=============================================================================
