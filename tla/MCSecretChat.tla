---------------------------- MODULE MCSecretChat ----------------------------
(* Instances of SecretChat between two clients; bounds are given as pairs, *)
(* alice's first.  alice created the chat.                                 *)
EXTENDS SecretChat, TLC
CONSTANTS alice, bob
Both(a, b) == alice :> a @@ bob :> b
None == Both(0, 0)
OneOfAlice == Both(1, 0)
One == Both(1, 1)
Two == Both(2, 2)
TwoAndOne == Both(2, 1)
ThreeAndOne == Both(3, 1)
(* Cuts the search down to the states before any answer of the server has  *)
(* been seen.                                                              *)
Unanswered == \A p \in Peers : delivered[p] = {}
=============================================================================
