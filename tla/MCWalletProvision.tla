------------------------- MODULE MCWalletProvision --------------------------
(***************************************************************************)
(* The instances of MCWalletStore, with logins: u1 owns wA, u2 wB, u3 wC.  *)
(***************************************************************************)
EXTENDS MCWalletStore, WalletProvision

MCOwns == (u1 :> wA) @@ (u2 :> wB) @@ (u3 :> wC)
=============================================================================
