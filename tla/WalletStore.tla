---------------------------- MODULE WalletStore -----------------------------
(***************************************************************************)
(* Package internal/store: Transfer and Mint run statement by statement,   *)
(* each inside one READ COMMITTED transaction driven by inTx, against the  *)
(* tables, unique indexes, CHECKs and row locks of schema.sql.             *)
(*                                                                         *)
(* A call is one invocation of Transfer or Mint, on any replica.  A client *)
(* retry is another call with the same request.  Calls interleave at every *)
(* statement; a statement that would wait on a row lock or on a unique     *)
(* index entry of an open transaction is simply not enabled.               *)
(*                                                                         *)
(* A wallet reference is the text a client sent.  Postgres resolves it to  *)
(* a uuid (RefRow), and one uuid has several spellings, but Go compares,   *)
(* hashes and looks references up as text.  References are numbers, in the *)
(* byte order of the texts they stand for; Canon is the spelling Postgres  *)
(* prints.                                                                 *)
(***************************************************************************)
EXTENDS Integers, FiniteSets

CONSTANTS
    Calls,          \* invocations of Transfer and Mint
    Users, Keys,    \* requesters and the idempotency keys they choose
    MintKeys,       \* idempotency keys of mints
    Wallets,        \* rows of the wallets table
    Missing,        \* well-formed uuids that name no row
    BadRef,         \* what a reference that is no uuid resolves to
    Refs,           \* wallet references, in byte order
    RefRow,         \* reference |-> the uuid it denotes
    Canon,          \* wallet |-> its canonical reference
    TransferReqs,   \* transfer requests that may arrive
    MintReqs,       \* mint requests that may arrive
    Seed,           \* wallet |-> paise minted into it beforehand
    MaxInt,         \* largest value of a bigint column
    MaxTxAttempts,  \* maxTxAttempts of inTx
    MaxConns,       \* connections of the pgx pool
    MaxFaults       \* bound: how many connection losses a behaviour has

Amounts == 1..MaxInt

ASSUME RefAssumption ==
    /\ Refs \subseteq Nat
    /\ BadRef \notin Wallets \cup Missing
    /\ Wallets \cap Missing = {}
    /\ Wallets \cap Calls = {}
    /\ RefRow \in [Refs -> Wallets \cup Missing \cup {BadRef}]
    /\ Canon \in [Wallets -> Refs]
    /\ \A w \in Wallets : RefRow[Canon[w]] = w

ASSUME RequestAssumption ==
    /\ TransferReqs \subseteq [op : {"transfer"}, user : Users, from : Refs,
                               to : Refs, amt : Amounts, key : Keys]
    /\ MintReqs \subseteq [op : {"mint"}, wallet : Refs, amt : Amounts, key : MintKeys]
    /\ MintKeys \cap Wallets = {}

ASSUME BoundAssumption ==
    /\ MaxInt \in Nat
    /\ Seed \in [Wallets -> 0..MaxInt]
    /\ MaxTxAttempts \in Nat \ {0}
    /\ MaxConns \in Nat \ {0}
    /\ MaxFaults \in Nat

VARIABLES
    \* committed tables
    balance, transfers, ledger, mints,
    \* open transactions: newest row versions, row locks, inserted rows
    live, locks, wTransfer, wLedger, wMint,
    \* the calls: control, request, attempt, `balances` map of Transfer, answer
    pc, req, attempt, read, ret,
    faults

tables == <<balance, transfers, ledger, mints>>
txVars == <<live, locks, wTransfer, wLedger, wMint, read>>
vars == <<balance, transfers, ledger, mints, live, locks, wTransfer, wLedger,
          wMint, pc, req, attempt, read, ret, faults>>

-----------------------------------------------------------------------------
(* Rows, requests and answers.                                             *)

\* Faulty variant of Fingerprint: the amount is left out of the hash.
FingerprintNoAmount(r) == <<r.from, r.to>>

\* SHA-256 of "v1|from|to|amount", taken over the texts of the references.
Fingerprint(r) == <<r.from, r.to, r.amt>>

\* Two requests mean the same when they name the same rows and amount.
Meaning(r) == <<RefRow[r.from], RefRow[r.to], r.amt>>

\* A row of transfers, and the status it is inserted with.
Row(c, r, status) ==
    [id |-> c, user |-> r.user, key |-> r.key, from |-> RefRow[r.from],
     to |-> RefRow[r.to], amt |-> r.amt, status |-> status,
     fp |-> Fingerprint(r)]
NewRow(c, r) == Row(c, r, "pending")

NewMint(c, r) == [id |-> c, key |-> r.key, wallet |-> RefRow[r.wallet], amt |-> r.amt]

WithStatus(rows, s) == { [t EXCEPT !.status = s] : t \in rows }

\* Faulty variant of Entries: the signs of debit and credit are swapped.
EntriesSwapped(c, r) ==
    { [transfer |-> c, wallet |-> RefRow[r.from], delta |-> r.amt],
      [transfer |-> c, wallet |-> RefRow[r.to], delta |-> 0 - r.amt] }

Entries(c, r) ==
    { [transfer |-> c, wallet |-> RefRow[r.from], delta |-> 0 - r.amt],
      [transfer |-> c, wallet |-> RefRow[r.to], delta |-> r.amt] }

NoAnswer == [kind |-> "none", rows |-> {}, refs |-> {}]
NoRequest == [op |-> "none"]
NoBalances == [ref \in Refs |-> 0]

SeedMints == { [id |-> w, key |-> w, wallet |-> w, amt |-> Seed[w]] :
                 w \in { v \in Wallets : Seed[v] > 0 } }

\* Transfer: the order in which the two references are locked, by their text.
Lo(r) == IF r.from > r.to THEN r.to ELSE r.from
Hi(r) == IF r.from > r.to THEN r.from ELSE r.to

-----------------------------------------------------------------------------
(* Postgres, as far as the store relies on it.                             *)

Conflicts == { <<"KeyShare", "Update">>, <<"Update", "KeyShare">>,
               <<"NoKeyUpdate", "NoKeyUpdate">>,
               <<"NoKeyUpdate", "Update">>, <<"Update", "NoKeyUpdate">>,
               <<"Update", "Update">> }

\* The calls whose row locks keep c from locking row w in this mode.
Holders(c, w, mode) ==
    { d \in Calls \ {c} : \E m \in {"KeyShare", "NoKeyUpdate", "Update"} :
                              <<w, m, d>> \in locks /\ <<m, mode>> \in Conflicts }

CanLock(c, w, mode) == Holders(c, w, mode) = {}

\* The row version a statement of c works on: its own update or the committed one.
Wrote(c, w) == <<w, "NoKeyUpdate", c>> \in locks
Visible(c, w) == IF Wrote(c, w) THEN live[w] ELSE balance[w]

\* Faulty variants of the unique index: a loser does not wait for the open
\* transaction that has its key; an open transaction's key is not seen at all.
KeyTakenEager(r) ==
    \/ \E t \in transfers : t.user = r.user /\ t.key = r.key
    \/ \E d \in Calls : \E t \in wTransfer[d] : t.user = r.user /\ t.key = r.key
NoKeyHolders(c, r) == {}
\* Faulty variant of MintHolders: likewise.
NoMintHolders(c, r) == {}

\* Committed and open entries of transfers_idem_key and of mints_idem_key.
KeyTaken(r) == \E t \in transfers : t.user = r.user /\ t.key = r.key
KeyHolders(c, r) ==
    { d \in Calls \ {c} : \E t \in wTransfer[d] : t.user = r.user /\ t.key = r.key }
MintTaken(r) == \E m \in mints : m.key = r.key
MintHolders(c, r) == { d \in Calls \ {c} : \E m \in wMint[d] : m.key = r.key }

InTx == {"claim", "lockLo", "lockHi", "decide", "credit", "post",
         "mint", "fund", "commit"}

\* A pool connection is held exactly while a transaction is open.
ConnFree == Cardinality({ c \in Calls : pc[c] \in InTx }) < MaxConns

\* Locks and uncommitted rows of c disappear; its updated rows revert.
EndTx(c) ==
    /\ locks' = { l \in locks : l[3] # c }
    /\ wTransfer' = [wTransfer EXCEPT ![c] = {}]
    /\ wLedger' = [wLedger EXCEPT ![c] = {}]
    /\ wMint' = [wMint EXCEPT ![c] = {}]
    /\ read' = [read EXCEPT ![c] = NoBalances]

Rollback(c) ==
    /\ EndTx(c)
    /\ live' = [w \in Wallets |-> IF Wrote(c, w) THEN balance[w] ELSE live[w]]
    /\ UNCHANGED tables

\* Everything the transaction wrote becomes visible in one step.
Install(c) ==
    /\ EndTx(c)
    /\ balance' = [w \in Wallets |-> Visible(c, w)]
    /\ transfers' = transfers \cup wTransfer[c]
    /\ ledger' = ledger \cup wLedger[c]
    /\ mints' = mints \cup wMint[c]
    /\ UNCHANGED live

-----------------------------------------------------------------------------
(* inTx and the answers of a call.                                         *)

Goto(c, label) == pc' = [pc EXCEPT ![c] = label] /\ UNCHANGED ret

\* The call returns: what it reports, the transfer row behind it, and how the
\* document names the two wallets.
Answer(c, kind, rows, refs) ==
    /\ pc' = [pc EXCEPT ![c] = "done"]
    /\ ret' = [ret EXCEPT ![c] = [kind |-> kind, rows |-> rows, refs |-> refs]]

Refuse(c, kind) == Answer(c, kind, {}, {})

\* fn returned an error that is not transient: roll back and hand it on.
Fail(c, kind) == Rollback(c) /\ Refuse(c, kind) /\ UNCHANGED <<req, attempt, faults>>

\* A new call.  Transfer refuses equal references before it opens anything.
StartTransfer(c, r) ==
    /\ pc[c] = "idle"
    /\ req' = [req EXCEPT ![c] = r]
    /\ \/ r.from = r.to /\ Refuse(c, "sameWallet")
       \/ r.from # r.to /\ Goto(c, "begin")
    /\ UNCHANGED <<tables, txVars, attempt, faults>>

StartMint(c, r) ==
    /\ pc[c] = "idle"
    /\ req' = [req EXCEPT ![c] = r]
    /\ Goto(c, "begin")
    /\ UNCHANGED <<tables, txVars, attempt, faults>>

\* Faulty variant of Begin: every retry starts counting afresh.
BeginUncounted(c) ==
    /\ pc[c] = "begin"
    /\ ConnFree
    /\ attempt' = [attempt EXCEPT ![c] = 1]
    /\ Goto(c, IF req[c].op = "mint" THEN "mint" ELSE "claim")
    /\ UNCHANGED <<tables, txVars, req, faults>>

\* BeginTx: a connection of the pool is acquired and the transaction opened.
Begin(c) ==
    /\ pc[c] = "begin"
    /\ ConnFree
    /\ attempt' = [attempt EXCEPT ![c] = @ + 1]
    /\ Goto(c, IF req[c].op = "mint" THEN "mint" ELSE "claim")
    /\ UNCHANGED <<tables, txVars, req, faults>>

\* COMMIT succeeds and the caller hears of it.  A transfer is reported with
\* the references of the request.
Commit(c) ==
    /\ pc[c] = "commit"
    /\ Install(c)
    /\ IF req[c].op = "mint"
       THEN Answer(c, IF wMint[c] = {} THEN "mintReplay" ELSE "minted", {}, {})
       ELSE Answer(c, "ok", wTransfer[c], {<<req[c].from, req[c].to>>})
    /\ UNCHANGED <<req, attempt, faults>>

\* COMMIT takes effect but the reply is lost: the caller gets an error.
CommitReplyLost(c) ==
    /\ pc[c] = "commit"
    /\ faults < MaxFaults
    /\ faults' = faults + 1
    /\ Install(c)
    /\ Refuse(c, "connLost")
    /\ UNCHANGED <<req, attempt>>

\* The connection, the request context or the process goes away mid-call:
\* Postgres rolls the open transaction back and nobody retries inside inTx.
ConnLost(c) ==
    /\ pc[c] \in InTx \cup {"begin", "replay"}
    /\ faults < MaxFaults
    /\ faults' = faults + 1
    /\ Rollback(c)
    /\ Refuse(c, "connLost")
    /\ UNCHANGED <<req, attempt>>

-----------------------------------------------------------------------------
(* Transfer, inside the transaction.                                       *)

\* INSERT INTO transfers: the key is claimed, then the foreign keys take
\* FOR KEY SHARE on both wallets.
Claim(c) ==
    LET r == req[c]
        pair == {RefRow[r.from], RefRow[r.to]}
    IN  /\ pc[c] = "claim"
        /\ BadRef \notin pair
        /\ RefRow[r.from] # RefRow[r.to]
        /\ ~KeyTaken(r)
        /\ KeyHolders(c, r) = {}
        /\ pair \subseteq Wallets
        /\ \A w \in pair : CanLock(c, w, "KeyShare")
        /\ wTransfer' = [wTransfer EXCEPT ![c] = {NewRow(c, r)}]
        /\ locks' = locks \cup { <<w, "KeyShare", c>> : w \in pair }
        /\ Goto(c, "lockLo")
        /\ UNCHANGED <<tables, live, wLedger, wMint, read, req, attempt, faults>>

\* 22P02, or 23503 once the key turned out to be free: no such wallet.
ClaimNoWallet(c) ==
    LET r == req[c]
        pair == {RefRow[r.from], RefRow[r.to]}
    IN  /\ pc[c] = "claim"
        /\ \/ BadRef \in pair
           \/ /\ RefRow[r.from] # RefRow[r.to]
              /\ ~KeyTaken(r)
              /\ KeyHolders(c, r) = {}
              /\ pair \cap Missing # {}
        /\ Fail(c, "walletNotFound")

\* transfers_no_self: two spellings of one uuid.
ClaimSelf(c) ==
    LET r == req[c]
    IN  /\ pc[c] = "claim"
        /\ RefRow[r.from] # BadRef
        /\ RefRow[r.from] = RefRow[r.to]
        /\ Fail(c, "checkViolation")

\* 23505 on transfers_idem_key: somebody else's row is committed.  The
\* transaction is rolled back and the replay path runs outside of it.
ClaimLost(c) ==
    LET r == req[c]
        pair == {RefRow[r.from], RefRow[r.to]}
    IN  /\ pc[c] = "claim"
        /\ BadRef \notin pair
        /\ RefRow[r.from] # RefRow[r.to]
        /\ KeyTaken(r)
        /\ Rollback(c)
        /\ Goto(c, "replay")
        /\ UNCHANGED <<req, attempt, faults>>

\* Faulty variant of RowLock: SELECT ... FOR UPDATE.
ForUpdate == "Update"

\* The lock strength of the two SELECTs that precede the decision.
RowLock == "NoKeyUpdate"

\* Faulty variant of LockRow: both balances are read with the first lock.
LockRowReadsAhead(c, w) ==
    /\ CanLock(c, w, RowLock)
    /\ locks' = locks \cup {<<w, RowLock, c>>}
    /\ read' = [read EXCEPT ![c] =
                  IF w = RefRow[Hi(req[c])] THEN @
                  ELSE [ref \in Refs |->
                          IF \E v \in {RefRow[req[c].from], RefRow[req[c].to]} : ref = Canon[v]
                          THEN Visible(c, RefRow[ref]) ELSE 0]]
    /\ UNCHANGED <<tables, live, wTransfer, wLedger, wMint, req, attempt, faults>>

\* SELECT ... FOR NO KEY UPDATE; the balance read is stored under the id
\* Postgres printed, the canonical spelling.
LockRow(c, w) ==
    /\ CanLock(c, w, RowLock)
    /\ locks' = locks \cup {<<w, RowLock, c>>}
    /\ read' = [read EXCEPT ![c] = [@ EXCEPT ![Canon[w]] = Visible(c, w)]]
    /\ UNCHANGED <<tables, live, wTransfer, wLedger, wMint, req, attempt, faults>>

LockLo(c) ==
    /\ pc[c] = "lockLo"
    /\ LockRow(c, RefRow[Lo(req[c])])
    /\ Goto(c, "lockHi")

LockHi(c) ==
    /\ pc[c] = "lockHi"
    /\ LockRow(c, RefRow[Hi(req[c])])
    /\ Goto(c, "decide")

\* balances[req.FromWalletID]: zero when the map has no entry under that text.
Short(c) == read[c][req[c].from] < req[c].amt

Decline(c) ==
    /\ pc[c] = "decide"
    /\ Short(c)
    /\ wTransfer' = [wTransfer EXCEPT ![c] = WithStatus(@, "declined")]
    /\ Goto(c, "commit")
    /\ UNCHANGED <<tables, live, locks, wLedger, wMint, read, req, attempt, faults>>

\* UPDATE wallets: takes the row lock itself and works on the newest version.
Update(c, w, value) ==
    /\ locks' = locks \cup {<<w, "NoKeyUpdate", c>>}
    /\ live' = [live EXCEPT ![w] = value]

\* Faulty variant of Debit: the balance is checked neither in Go nor in SQL.
DebitUnchecked(c) ==
    LET w == RefRow[req[c].from]
    IN  /\ pc[c] = "decide"
        /\ CanLock(c, w, "NoKeyUpdate")
        /\ Update(c, w, Visible(c, w) - req[c].amt)
        /\ Goto(c, "credit")
        /\ UNCHANGED <<tables, wTransfer, wLedger, wMint, read, req, attempt, faults>>

\* The conditional debit; zero affected rows abort the transaction.
Debit(c) ==
    LET w == RefRow[req[c].from]
    IN  /\ pc[c] = "decide"
        /\ ~Short(c)
        /\ CanLock(c, w, "NoKeyUpdate")
        /\ IF Visible(c, w) >= req[c].amt
           THEN /\ Update(c, w, Visible(c, w) - req[c].amt)
                /\ Goto(c, "credit")
                /\ UNCHANGED <<tables, wTransfer, wLedger, wMint, read, req, attempt, faults>>
           ELSE Fail(c, "debitLost")

\* Faulty variant of Credit: the sum is clamped instead of refused.
CreditClamped(c) ==
    LET w == RefRow[req[c].to]
        sum == Visible(c, w) + req[c].amt
    IN  /\ pc[c] = "credit"
        /\ CanLock(c, w, "NoKeyUpdate")
        /\ Update(c, w, IF sum > MaxInt THEN MaxInt ELSE sum)
        /\ Goto(c, "post")
        /\ UNCHANGED <<tables, wTransfer, wLedger, wMint, read, req, attempt, faults>>

\* The credit; a sum outside bigint aborts the transaction.
Credit(c) ==
    LET w == RefRow[req[c].to]
    IN  /\ pc[c] = "credit"
        /\ CanLock(c, w, "NoKeyUpdate")
        /\ \/ /\ Visible(c, w) + req[c].amt <= MaxInt
              /\ Update(c, w, Visible(c, w) + req[c].amt)
              /\ Goto(c, "post")
              /\ UNCHANGED <<tables, wTransfer, wLedger, wMint, read, req, attempt, faults>>
           \/ /\ Visible(c, w) + req[c].amt > MaxInt
              /\ Fail(c, "outOfRange")

\* Faulty variants of Post: the ledger rows are written on a connection of
\* their own; the status of a paid transfer is recorded as declined.
PostOutsideTx(c) ==
    /\ pc[c] = "post"
    /\ ledger' = ledger \cup Entries(c, req[c])
    /\ wTransfer' = [wTransfer EXCEPT ![c] = WithStatus(@, "succeeded")]
    /\ Goto(c, "commit")
    /\ UNCHANGED <<balance, transfers, mints, live, locks, wLedger, wMint, read,
                   req, attempt, faults>>
PostDeclined(c) ==
    /\ pc[c] = "post"
    /\ wLedger' = [wLedger EXCEPT ![c] = Entries(c, req[c])]
    /\ wTransfer' = [wTransfer EXCEPT ![c] = WithStatus(@, "declined")]
    /\ Goto(c, "commit")
    /\ UNCHANGED <<tables, live, locks, wMint, read, req, attempt, faults>>

\* The two ledger rows and the terminal status.
Post(c) ==
    /\ pc[c] = "post"
    /\ wLedger' = [wLedger EXCEPT ![c] = Entries(c, req[c])]
    /\ wTransfer' = [wTransfer EXCEPT ![c] = WithStatus(@, "succeeded")]
    /\ Goto(c, "commit")
    /\ UNCHANGED <<tables, live, locks, wMint, read, req, attempt, faults>>

\* Faulty variant of Printed: the two columns are scanned in the wrong order.
PrintedSwapped(rows) == { <<Canon[t.to], Canon[t.from]>> : t \in rows }

\* transferByKey on a fresh connection, then the fingerprint comparison.  The
\* wallets of a stored row come back as Postgres prints them.
Printed(rows) == { <<Canon[t.from], Canon[t.to]>> : t \in rows }
Stored(r) == { t \in transfers : t.user = r.user /\ t.key = r.key }

Replay(c) ==
    LET found == Stored(req[c])
    IN  /\ pc[c] = "replay"
        /\ ConnFree
        /\ IF found = {}
           THEN Refuse(c, "transferNotFound")
           ELSE IF \A t \in found : t.fp = Fingerprint(req[c])
                THEN Answer(c, "replay", found, Printed(found))
                ELSE Refuse(c, "conflict")
        /\ UNCHANGED <<tables, txVars, req, attempt, faults>>

-----------------------------------------------------------------------------
(* Mint, inside the transaction.                                           *)

\* Faulty variant of MintInsert: the INSERT runs on s.pool instead of the
\* savepoint, so that it commits by itself.
MintInsertOutsideTx(c) ==
    LET r == req[c]
    IN  /\ pc[c] = "mint"
        /\ RefRow[r.wallet] \in Wallets
        /\ ~MintTaken(r)
        /\ CanLock(c, RefRow[r.wallet], "KeyShare")
        /\ mints' = mints \cup {NewMint(c, r)}
        /\ Goto(c, "fund")
        /\ UNCHANGED <<balance, transfers, ledger, txVars, req, attempt, faults>>

\* INSERT INTO mints behind a savepoint, with its foreign key lock.
MintInsert(c) ==
    LET r == req[c]
        w == RefRow[r.wallet]
    IN  /\ pc[c] = "mint"
        /\ w \in Wallets
        /\ ~MintTaken(r)
        /\ MintHolders(c, r) = {}
        /\ CanLock(c, w, "KeyShare")
        /\ wMint' = [wMint EXCEPT ![c] = {NewMint(c, r)}]
        /\ locks' = locks \cup {<<w, "KeyShare", c>>}
        /\ Goto(c, "fund")
        /\ UNCHANGED <<tables, live, wTransfer, wLedger, read, req, attempt, faults>>

\* 23505: the savepoint is rolled back and the transaction commits empty.
MintLost(c) ==
    /\ pc[c] = "mint"
    /\ RefRow[req[c].wallet] \in Wallets
    /\ MintTaken(req[c])
    /\ Goto(c, "commit")
    /\ UNCHANGED <<tables, txVars, req, attempt, faults>>

\* 22P02; 23503; or 23505 followed by a SELECT that finds no wallet.
MintNoWallet(c) ==
    LET r == req[c]
    IN  /\ pc[c] = "mint"
        /\ \/ RefRow[r.wallet] = BadRef
           \/ RefRow[r.wallet] \in Missing /\ MintHolders(c, r) = {}
        /\ Fail(c, "walletNotFound")

Fund(c) ==
    LET w == RefRow[req[c].wallet]
    IN  /\ pc[c] = "fund"
        /\ CanLock(c, w, "NoKeyUpdate")
        /\ \/ /\ Visible(c, w) + req[c].amt <= MaxInt
              /\ Update(c, w, Visible(c, w) + req[c].amt)
              /\ Goto(c, "commit")
              /\ UNCHANGED <<tables, wTransfer, wLedger, wMint, read, req, attempt, faults>>
           \/ /\ Visible(c, w) + req[c].amt > MaxInt
              /\ Fail(c, "outOfRange")

-----------------------------------------------------------------------------
(* Deadlock detection and the retry of inTx.                               *)

\* The calls whose locks or open index entries c is waiting for.
WaitsFor(c) ==
    LET r == req[c]
    IN  CASE pc[c] = "claim" /\ ~KeyTaken(r) -> KeyHolders(c, r)
          [] pc[c] = "lockLo" -> Holders(c, RefRow[Lo(r)], RowLock)
          [] pc[c] = "lockHi" -> Holders(c, RefRow[Hi(r)], RowLock)
          [] pc[c] = "decide" /\ ~Short(c) -> Holders(c, RefRow[r.from], "NoKeyUpdate")
          [] pc[c] = "credit" -> Holders(c, RefRow[r.to], "NoKeyUpdate")
          [] pc[c] = "mint" /\ ~MintTaken(r) -> MintHolders(c, r)
          [] pc[c] = "fund" -> Holders(c, RefRow[r.wallet], "NoKeyUpdate")
          [] OTHER -> {}

\* c closes a cycle of the waits-for graph.
Deadlocked(c) ==
    \E n \in 1..Cardinality(Calls) : \E p \in [1..n -> Calls] :
        /\ p[1] = c
        /\ \A i \in 1..n : p[(i % n) + 1] \in WaitsFor(p[i])

\* 40P01: the victim is rolled back and retried while attempts remain.
DeadlockVictim(c) ==
    /\ pc[c] \in InTx
    /\ Deadlocked(c)
    /\ Rollback(c)
    /\ \/ attempt[c] < MaxTxAttempts /\ Goto(c, "begin")
       \/ attempt[c] >= MaxTxAttempts /\ Refuse(c, "attempts")
    /\ UNCHANGED <<req, attempt, faults>>

-----------------------------------------------------------------------------

Init ==
    /\ balance = Seed
    /\ transfers = {}
    /\ ledger = {}
    /\ mints = SeedMints
    /\ live = Seed
    /\ locks = {}
    /\ wTransfer = [c \in Calls |-> {}]
    /\ wLedger = [c \in Calls |-> {}]
    /\ wMint = [c \in Calls |-> {}]
    /\ pc = [c \in Calls |-> "idle"]
    /\ req = [c \in Calls |-> NoRequest]
    /\ attempt = [c \in Calls |-> 0]
    /\ read = [c \in Calls |-> NoBalances]
    /\ ret = [c \in Calls |-> NoAnswer]
    /\ faults = 0

Arrive(c) ==
    \/ \E r \in TransferReqs : StartTransfer(c, r)
    \/ \E r \in MintReqs : StartMint(c, r)

\* What a call in progress does by itself.
Step(c) ==
    \/ Begin(c) \/ Commit(c)
    \/ Claim(c) \/ ClaimNoWallet(c) \/ ClaimSelf(c) \/ ClaimLost(c)
    \/ LockLo(c) \/ LockHi(c) \/ Decline(c) \/ Debit(c) \/ Credit(c) \/ Post(c)
    \/ Replay(c)
    \/ MintInsert(c) \/ MintLost(c) \/ MintNoWallet(c) \/ Fund(c)
    \/ DeadlockVictim(c)

Fault(c) == ConnLost(c) \/ CommitReplyLost(c)

\* Every call has been answered: nothing is left to do.
Quiescent == (\A c \in Calls : pc[c] = "done") /\ UNCHANGED vars

Next == (\E c \in Calls : Arrive(c) \/ Step(c) \/ Fault(c)) \/ Quiescent

Spec == Init /\ [][Next]_vars

-----------------------------------------------------------------------------
(* Properties.                                                             *)

Statuses == {"pending", "succeeded", "declined"}
Kinds == {"none", "ok", "replay", "conflict", "sameWallet", "walletNotFound",
          "transferNotFound", "checkViolation", "debitLost", "outOfRange",
          "attempts", "connLost", "minted", "mintReplay"}
Labels == InTx \cup {"idle", "begin", "replay", "done"}
TransferRows ==
    [id : Calls, user : Users, key : Keys, from : Wallets, to : Wallets,
     amt : Amounts, status : Statuses, fp : Refs \X Refs \X Amounts]
LedgerRows == [transfer : Calls, wallet : Wallets, delta : Int]
MintRows == [id : Calls \cup Wallets, key : MintKeys \cup Wallets,
             wallet : Wallets, amt : Amounts]
Modes == {"KeyShare", "NoKeyUpdate", "Update"}

\* Every variable keeps its type; in particular no committed or uncommitted
\* version of wallets.balance_paise ever leaves 0..MaxInt.  Below, the lock and
\* the conditional debit see to it, and the CHECK wallets_balance_nonneg never
\* has to; above, Postgres refuses the credit or the mint that would pass the
\* end of bigint (Credit, Fund), and the transaction is rolled back.
TypeOK ==
    /\ balance \in [Wallets -> 0..MaxInt]
    /\ transfers \subseteq TransferRows
    /\ ledger \subseteq LedgerRows
    /\ mints \subseteq MintRows
    /\ live \in [Wallets -> 0..MaxInt]
    /\ locks \subseteq Wallets \X Modes \X Calls
    /\ wTransfer \in [Calls -> SUBSET TransferRows]
    /\ wLedger \in [Calls -> SUBSET LedgerRows]
    /\ wMint \in [Calls -> SUBSET MintRows]
    /\ pc \in [Calls -> Labels]
    /\ req \in [Calls -> TransferReqs \cup MintReqs \cup {NoRequest}]
    /\ attempt \in [Calls -> Nat]
    /\ read \in [Calls -> [Refs -> 0..MaxInt]]
    /\ ret \in [Calls -> [kind : Kinds, rows : SUBSET TransferRows,
                         refs : SUBSET (Refs \X Refs)]]
    /\ faults \in Nat

\* Two transfers that cross each other, with or without mints in between, never
\* wait for one another in a circle: sorted FOR NO KEY UPDATE locks taken after
\* the foreign-key locks of the INSERT (transfer.go, steps 2 and 3).
NoDeadlock == \A c \in Calls : ~Deadlocked(c)

\* errDebitLost, "which should be impossible": a decision taken on the balance
\* read by SELECT ... FOR NO KEY UPDATE is still right when the debit runs.
DebitNeverLost == \A c \in Calls : ret[c].kind # "debitLost"

\* A call that lost the race for its key finds the winner's row committed and
\* already terminal when it reads it on a fresh connection (transferByKey).
ReplayIsDecided ==
    /\ \A c \in Calls : pc[c] = "replay" =>
          \E t \in Stored(req[c]) : t.status # "pending"
    /\ \A c \in Calls : ret[c].kind # "transferNotFound"

Accepted(c) == ret[c].kind \in {"ok", "replay"}
SameKey(c, d) == req[c].user = req[d].user /\ req[c].key = req[d].key

\* A repeated idempotency key applies once: one row per (user, key), one call
\* that reports having done the work, and the same document for every caller,
\* over retries, lost commit replies and concurrent duplicates.
ExactlyOnce ==
    /\ \A t, u \in transfers : t.user = u.user /\ t.key = u.key => t = u
    /\ \A c, d \in Calls : Accepted(c) /\ Accepted(d) /\ SameKey(c, d) =>
          /\ ret[c].rows = ret[d].rows
          /\ ret[c].kind = "ok" /\ ret[d].kind = "ok" => c = d

\* A mint key puts money in once, whatever wallet or amount its later uses name.
\* The caller told "applied" is the one whose row is in mints; a caller told
\* "replay" has added nothing, and somebody's row for the key is there.
MintOnce ==
    /\ \A m, n \in mints : m.key = n.key => m = n
    /\ \A c \in Calls :
          /\ ret[c].kind = "minted" => NewMint(c, req[c]) \in mints
          /\ ret[c].kind = "mintReplay" =>
                MintTaken(req[c]) /\ \A m \in mints : m.id # c

\* A document handed to a caller is a committed, terminal row for the request
\* the caller made.
AnswerIsCommitted ==
    \A c \in Calls : Accepted(c) =>
        /\ ret[c].rows # {}
        /\ ret[c].rows \subseteq transfers
        /\ \A t \in ret[c].rows :
              /\ t.status # "pending"
              /\ t.user = req[c].user /\ t.key = req[c].key
              /\ <<t.from, t.to, t.amt>> = Meaning(req[c])

\* A call answered with an error other than a lost connection has left nothing
\* behind: no transfer row (its key can be used again), no ledger row, no mint.
Refused(c) == ret[c].kind \in {"conflict", "sameWallet", "walletNotFound",
                               "checkViolation", "outOfRange", "attempts"}
RefusalLeavesNoTrace ==
    \A c \in Calls : Refused(c) =>
        /\ \A t \in transfers : t.id # c
        /\ \A e \in ledger : e.transfer # c
        /\ \A m \in mints : m.id # c

\* Double entry: a succeeded transfer has exactly its two ledger rows, a
\* declined one none, and no ledger row is without its transfer.
LedgerMatchesTransfers ==
    /\ \A t \in transfers :
          { e \in ledger : e.transfer = t.id } =
              IF t.status = "succeeded"
              THEN { [transfer |-> t.id, wallet |-> t.from, delta |-> 0 - t.amt],
                     [transfer |-> t.id, wallet |-> t.to, delta |-> t.amt] }
              ELSE {}
    /\ \A e \in ledger : \E t \in transfers : t.id = e.transfer

\* A transfer is committed as declined for insufficient funds only if the
\* source wallet really holds less than the amount when the decline commits.
DeclineJustified ==
    [][\A t \in transfers' \ transfers :
           t.status = "declined" => balance[t.from] < t.amt]_vars

\* 409 is answered only to a request that means something else than the one
\* the key was used for.
ConflictIsReal ==
    \A c \in Calls : ret[c].kind = "conflict" =>
        \A t \in Stored(req[c]) : <<t.from, t.to, t.amt>> # Meaning(req[c])

\* "The retry of a decline must return the identical document", and so must the
\* retry of a success, wallet ids included: as long as clients write wallet ids the
\* way Postgres prints them.
IdenticalDocument ==
    \A c, d \in Calls : Accepted(c) /\ Accepted(d) /\ SameKey(c, d) =>
        ret[c].rows = ret[d].rows /\ ret[c].refs = ret[d].refs

-----------------------------------------------------------------------------
(* What the store implements.                                              *)

\* The requests whose references resolve to two different wallets, and what
\* they order; the mints that name a wallet.
OrderOf(r) == [user |-> r.user, key |-> r.key, from |-> RefRow[r.from],
               to |-> RefRow[r.to], amt |-> r.amt, fp |-> Fingerprint(r)]
Orders == { OrderOf(r) : r \in { q \in TransferReqs :
              RefRow[q.from] \in Wallets /\ RefRow[q.to] \in Wallets } }
Grants == { [key |-> r.key, wallet |-> RefRow[r.wallet], amt |-> r.amt] :
              r \in { q \in MintReqs : RefRow[q.wallet] \in Wallets } }

Ledger == INSTANCE WalletLedger WITH Ids <- Calls

\* The committed tables of the store behave as the atomic ledger: statements,
\* locks, retries and failures are invisible from outside.
ImplementsLedger == Ledger!Spec
=============================================================================
