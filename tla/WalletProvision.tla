-------------------------- MODULE WalletProvision ---------------------------
(***************************************************************************)
(* Logins beside the transfers and mints of WalletStore: POST /wallets is  *)
(* authenticate's UpsertUser followed by GetOrCreateWallet, each a single  *)
(* autocommit statement on a connection of the same pool.                  *)
(*                                                                         *)
(* ON CONFLICT DO UPDATE SET assigns a key column, so both lock the row    *)
(* they find FOR UPDATE and wait for every transaction that has it locked  *)
(* FOR KEY SHARE, which the foreign keys of an open transfer do: for the   *)
(* requester's row of users and for both rows of wallets.  Meanwhile they  *)
(* occupy a connection.                                                    *)
(***************************************************************************)
EXTENDS WalletStore

CONSTANTS Logins,   \* users who send POST /wallets once more
          Owns      \* user |-> wallet

ASSUME LoginAssumption == Logins \subseteq Users /\ Owns \in [Users -> Wallets]

VARIABLES login,   \* where each login is
          lent     \* connections the logins have

allVars == <<vars, login, lent>>

ProvisionInit ==
    /\ Init
    /\ login = [p \in Logins |-> "idle"]
    /\ lent = 0

\* Transactions and logins share the pool.
PoolFree == Cardinality({ c \in Calls : pc[c] \in InTx }) + lent < MaxConns

\* A call needs a connection to begin and to replay, and only there.
CallStep(c) ==
    /\ pc[c] \in {"begin", "replay"} => PoolFree
    /\ Step(c)
    /\ UNCHANGED <<login, lent>>
Outside(c) == (Arrive(c) \/ Fault(c)) /\ UNCHANGED <<login, lent>>

LoginArrives(p) ==
    /\ login[p] = "idle"
    /\ login' = [login EXCEPT ![p] = "user"]
    /\ UNCHANGED <<vars, lent>>

Connect(p) ==
    /\ login[p] \in {"user", "wallet"}
    /\ PoolFree
    /\ login' = [login EXCEPT ![p] = IF @ = "user" THEN "upsertUser" ELSE "getOrCreate"]
    /\ lent' = lent + 1
    /\ UNCHANGED vars

\* Faulty variant of HandBack: QueryRow without Scan keeps the connection.
HandBackNever == UNCHANGED lent

\* Scan returns the connection to the pool.
HandBack == lent' = lent - 1

\* UpsertUser, on a row that exists.
UpsertUser(p) ==
    /\ login[p] = "upsertUser"
    /\ \A c \in Calls : \A t \in wTransfer[c] : t.user # p
    /\ login' = [login EXCEPT ![p] = "wallet"]
    /\ HandBack
    /\ UNCHANGED vars

\* GetOrCreateWallet, likewise.
GetOrCreateWallet(p) ==
    /\ login[p] = "getOrCreate"
    /\ CanLock(p, Owns[p], "Update")
    /\ login' = [login EXCEPT ![p] = "done"]
    /\ HandBack
    /\ UNCHANGED vars

LoginStep(p) == Connect(p) \/ UpsertUser(p) \/ GetOrCreateWallet(p)

AllDone ==
    /\ \A c \in Calls : pc[c] = "done"
    /\ \A p \in Logins : login[p] = "done"
    /\ UNCHANGED allVars

ProvisionNext ==
    \/ \E c \in Calls : Outside(c) \/ CallStep(c)
    \/ \E p \in Logins : LoginArrives(p) \/ LoginStep(p)
    \/ AllDone

ProvisionSpec == ProvisionInit /\ [][ProvisionNext]_allVars

\* A call or login in progress is served by its goroutine and by Postgres;
\* nothing obliges a client to send one, or a connection to break.
ProvisionFairSpec ==
    /\ ProvisionSpec
    /\ \A c \in Calls : WF_allVars(CallStep(c))
    /\ \A p \in Logins : WF_allVars(LoginStep(p))

\* Logins that occupy connections while they wait for transfers, and transfers
\* that wait for a connection or for each other, do not block one another: every
\* login and every call is answered, however small the pool and whatever waits on
\* whatever.  (An answer is final, so this says the same as ~> for each of them.)
EveryoneReturns ==
    <>[](/\ \A c \in Calls : pc[c] \in {"idle", "done"}
         /\ \A p \in Logins : login[p] \in {"idle", "done"})
=============================================================================
