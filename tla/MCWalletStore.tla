--------------------------- MODULE MCWalletStore ----------------------------
(***************************************************************************)
(* Small instances of WalletStore.  Three wallets, each with its owner,    *)
(* and two keys.  References 1 and 2 are upper-case spellings of wA's      *)
(* and wB's uuids: they sort before the canonical spellings 3, 4 and 5, as *)
(* 'A'..'F' sort before 'a'..'f'.  6 is a uuid nobody has, 7 is no uuid.   *)
(***************************************************************************)
EXTENDS WalletAudit, TLC

CONSTANTS wA, wB, wC, u1, u2, u3, k1, k2, m1, m2, gone

MCRefs == 1..7
MCWallets == {wA, wB, wC}
MCUsers == {u1, u2, u3}
MCKeys == {k1, k2}
MCMintKeys == {m1, m2}
MCMissing == {gone}
MCRefRow == <<wA, wB, wA, wB, wC, gone, BadRef>>
MCCanon == (wA :> 3) @@ (wB :> 4) @@ (wC :> 5)

T(u, f, t, a, k) == [op |-> "transfer", user |-> u, from |-> f, to |-> t, amt |-> a, key |-> k]
M(w, a, k) == [op |-> "mint", wallet |-> w, amt |-> a, key |-> k]

Funds(a, b, c) == (wA :> a) @@ (wB :> b) @@ (wC :> c)
Funded == Funds(2, 2, 0)
NoReqs == {}

\* One key, sent again and again, once with another amount; the same key text
\* from another user, whose spelling of wB makes the locks cross.
StormReqs == { T(u1, 3, 4, 2, k1), T(u1, 3, 4, 1, k1), T(u2, 3, 2, 1, k1) }
StormMints == { M(3, 1, m1) }

\* Transfers that cross (wA, wB), a ring over the three wallets that drains
\* them, credits and mints that reach and pass the end of bigint, and requests
\* that are wrong, one of them with the key of a right one; one mint key for two
\* wallets.
CrowdReqs == { T(u1, 3, 4, 2, k1), T(u1, 3, 4, 3, k2), T(u2, 4, 3, 2, k1),
               T(u2, 4, 5, 1, k2), T(u3, 5, 3, 1, k2), T(u1, 3, 6, 2, k1),
               T(u2, 4, 7, 1, k2), T(u2, 4, 4, 1, k2), T(u1, 1, 3, 1, k2) }
CrowdMints == { M(3, 1, m1), M(4, 1, m1), M(6, 1, m2), M(7, 1, m1) }

\* Upper-case spellings next to canonical ones: a retry that spells the target
\* differently, and another user who spells the source differently.
SpellingReqs == { T(u1, 3, 4, 1, k1), T(u1, 3, 2, 1, k1), T(u2, 2, 3, 1, k1) }
SpellingMints == { M(1, 1, m1) }

CallSymmetry == Permutations(Calls)
=============================================================================
