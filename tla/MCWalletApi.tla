---------------------------- MODULE MCWalletApi -----------------------------
(***************************************************************************)
(* Small instances of WalletApi: two users with wallets, a token nobody    *)
(* has used yet, and the admin token.                                      *)
(***************************************************************************)
EXTENDS WalletApi, TLC

CONSTANTS tA, tB, tN, wA, wB, k1, k2, kLong

MCUsers == { [id |-> tA, token |-> tA], [id |-> tB, token |-> tB] }
MCWallets == { [id |-> wA, owner |-> tA], [id |-> wB, owner |-> tB] }
MCSeed == [w \in Calls \cup {wA, wB} |-> IF w = wA THEN 2 ELSE 0]

Ask(route, token, parses, from, to, amt, key) ==
    [route |-> route, token |-> token, parses |-> parses, from |-> from,
     to |-> to, amt |-> amt, key |-> key]
Transfer(token, from, to, amt, key) == Ask("transfer", token, TRUE, from, to, amt, key)
Mint(token, to, amt, key) == Ask("mint", token, TRUE, NoWallet, to, amt, key)
Wallet(token) == Ask("wallets", token, TRUE, NoWallet, NoWallet, 0, NoKey)

\* Retries, a second body, a wallet of somebody else, more than there is, more
\* than fits, and requests that are wrong; mints, one of them too much.  A key
\* that is too long for a transfer serves a mint.
MoneyRequests ==
    { Transfer(tA, wA, wB, 1, k1), Transfer(tA, wA, wB, 2, k1),
      Transfer(tB, wA, wB, 1, k1), Transfer(tB, wB, wA, 1, k1),
      Transfer(tA, wA, wA, 1, k2), Transfer(NoToken, wA, wB, 1, k2),
      Transfer(tA, wA, wB, 1, kLong), Ask("transfer", tA, FALSE, wA, wB, 1, k2),
      Mint(AdminToken, wA, 1, kLong), Mint(AdminToken, wB, 3, k2), Mint(tA, wA, 1, k1),
      Mint(AdminToken, wA, 0, k1), Ask("mint", AdminToken, FALSE, NoWallet, wA, 1, k1) }
    \cup { Ask("getTransfer", tB, TRUE, NoWallet, c, 0, NoKey) : c \in Calls }

\* A new user's first calls, on several replicas, and transfers that name the
\* new wallet before or after it exists, on its owner's order or another's.
FirstRequests ==
    { Wallet(tN), Wallet(tA) }
    \cup { Transfer(tA, wA, c, 1, k1) : c \in Calls }
    \cup { Transfer(t, c, wA, 1, k1) : t \in {tN, tA}, c \in Calls }
    \cup { Mint(AdminToken, c, 1, k1) : c \in Calls }
    \cup { Ask("getWallet", tN, TRUE, NoWallet, c, 0, NoKey) : c \in Calls }

CallSymmetry == Permutations(Calls)
=============================================================================
