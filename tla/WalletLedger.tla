---------------------------- MODULE WalletLedger ----------------------------
(***************************************************************************)
(* What the store promises, with no transaction, lock, retry or failure in *)
(* sight: every transfer and every mint happens in one indivisible step on *)
(* the committed tables of schema.sql.                                     *)
(*                                                                         *)
(* An order is what a transfer request means: who asks, under which        *)
(* idempotency key, from which wallet to which, and how much.  An order    *)
(* is settled at most once per (user, key), by moving the whole amount or, *)
(* only when the source wallet is short at that very moment, by recording  *)
(* a decline.  WalletStore is shown to implement this specification.       *)
(***************************************************************************)
EXTENDS Integers

CONSTANTS Wallets,   \* the rows of the wallets table
          Ids,       \* identities handed to transfer and mint rows
          Orders,    \* [user, key, from, to, amt, fp]: instructions that may arrive
          Grants,    \* [key, wallet, amt]: mints that may arrive
          Seed,      \* wallet |-> paise it was funded with before the first step
          MaxInt     \* largest value of a bigint column

VARIABLES balance,   \* wallets.balance_paise
          transfers, \* rows of transfers
          ledger,    \* rows of ledger_entries
          mints      \* rows of mints

ledgerVars == <<balance, transfers, ledger, mints>>

SeedMints == { [id |-> w, key |-> w, wallet |-> w, amt |-> Seed[w]] :
                 w \in { v \in Wallets : Seed[v] > 0 } }

Init == /\ balance = Seed
        /\ transfers = {}
        /\ ledger = {}
        /\ mints = SeedMints

TransferRow(i, o, status) ==
    [id |-> i, user |-> o.user, key |-> o.key, from |-> o.from, to |-> o.to,
     amt |-> o.amt, status |-> status, fp |-> o.fp]

LedgerRows(t) ==
    { [transfer |-> t.id, wallet |-> t.from, delta |-> 0 - t.amt],
      [transfer |-> t.id, wallet |-> t.to, delta |-> t.amt] }

Moved(b, t) == [b EXCEPT ![t.from] = @ - t.amt, ![t.to] = @ + t.amt]

KeyIsFree(o) == \A t \in transfers : ~(t.user = o.user /\ t.key = o.key)

\* The order succeeds: debit, credit, two ledger rows and the outcome at once.
Succeed(i, o) ==
    /\ KeyIsFree(o)
    /\ o.from # o.to
    /\ balance[o.from] >= o.amt
    /\ balance[o.to] + o.amt <= MaxInt
    /\ LET t == TransferRow(i, o, "succeeded")
       IN  /\ balance' = Moved(balance, t)
           /\ transfers' = transfers \cup {t}
           /\ ledger' = ledger \cup LedgerRows(t)
    /\ UNCHANGED mints

\* The order is declined, which is possible only while the source is short.
Decline(i, o) ==
    /\ KeyIsFree(o)
    /\ o.from # o.to
    /\ balance[o.from] < o.amt
    /\ transfers' = transfers \cup {TransferRow(i, o, "declined")}
    /\ UNCHANGED <<balance, ledger, mints>>

\* Money enters from outside, once per mint key.
Grant(i, g) ==
    /\ \A m \in mints : m.key # g.key
    /\ balance[g.wallet] + g.amt <= MaxInt
    /\ balance' = [balance EXCEPT ![g.wallet] = @ + g.amt]
    /\ mints' = mints \cup {[id |-> i, key |-> g.key, wallet |-> g.wallet, amt |-> g.amt]}
    /\ UNCHANGED <<transfers, ledger>>

Next == \E i \in Ids :
          \/ \E o \in Orders : Succeed(i, o) \/ Decline(i, o)
          \/ \E g \in Grants : Grant(i, g)

Spec == Init /\ [][Next]_ledgerVars
=============================================================================
