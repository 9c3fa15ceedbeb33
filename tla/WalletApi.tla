----------------------------- MODULE WalletApi ------------------------------
(***************************************************************************)
(* Package internal/api, the money routes: observe, authenticate,          *)
(* requireAdmin and the handlers, with the provisioning statements of the  *)
(* store (UpsertUser, GetOrCreateWallet) and the counters of obs.Metrics.  *)
(*                                                                         *)
(* The store's Transfer and Mint are the atomic steps of WalletLedger,     *)
(* which WalletStore is shown to implement.  Everything around them is a   *)
(* step of its own: what a handler checked may have changed by the time it *)
(* calls the store, and what the store did may never be reported.          *)
(*                                                                         *)
(* A call is one HTTP request.  A line that is logged may panic (LogRing). *)
(* Rows get the identity of the call that inserts them.                    *)
(***************************************************************************)
EXTENDS Integers, FiniteSetsExt

CONSTANTS Calls,       \* HTTP requests
          Requests,    \* what they may ask for
          NoToken,     \* no usable Authorization header
          AdminToken,
          NoKey, NoWallet,  \* fields left empty
          LongKeys,    \* idempotency keys of more than 255 bytes
          SeedUsers,   \* rows of users, wallets and paise that exist beforehand
          SeedWallets,
          Seed,        \* wallet id |-> paise minted into it
          MaxInt,      \* largest bigint
          MaxFaults,   \* bound: database errors in a behaviour
          MaxPanics    \* bound: log lines that panic

WalletIds == Calls \cup { w.id : w \in SeedWallets }

ASSUME ApiAssumption ==
    /\ IsFiniteSet(Calls)
    /\ MaxInt \in Nat
    /\ Seed \in [WalletIds -> 0..MaxInt]
    /\ \A c \in Calls : Seed[c] = 0
    /\ \A w \in SeedWallets : w.id \notin Calls /\ \E u \in SeedUsers : u.id = w.owner
    /\ \A u, v \in SeedUsers : u.token = v.token => u = v
    /\ \A w, x \in SeedWallets : w.owner = x.owner => w = x
    /\ \A r \in Requests :
          /\ r.route \in {"wallets", "transfer", "mint", "getWallet", "getTransfer"}
          /\ r.amt \in Int

VARIABLES users, wallets, balance, transfers, ledger, mints,  \* the tables
          open,           \* rows inserted by a statement that has not committed
          pc, req,        \* the calls
          user,           \* the user a call is authenticated as
          result,         \* what the store returned to the handler
          status,         \* the status code written, 0 before
          counter,        \* obs.Metrics, domain counters
          http, inFlight, \* obs.Metrics, http_requests_total and the gauge
          faults, panics

money == <<balance, transfers, ledger, mints>>
db == <<users, wallets, balance, transfers, ledger, mints, open>>
rest == <<req, user, http, inFlight>>
vars == <<users, wallets, balance, transfers, ledger, mints, open, pc, req, user,
          result, status, counter, http, inFlight, faults, panics>>

Orders == {}
Grants == {}
L == INSTANCE WalletLedger WITH Wallets <- WalletIds, Ids <- Calls

Nothing == [kind |-> "none", rows |-> {}]
Outcomes == {"succeeded", "declined", "replay", "conflict", "invalid",
             "created", "reused", "paiseMoved", "paiseMinted"}
Codes == {200, 201, 400, 401, 403, 404, 409, 422, 500}

Init ==
    /\ users = SeedUsers
    /\ wallets = SeedWallets
    /\ L!Init
    /\ open = [c \in Calls |-> {}]
    /\ pc = [c \in Calls |-> "idle"]
    /\ req = [c \in Calls |-> [route |-> "none"]]
    /\ user = [c \in Calls |-> NoToken]
    /\ result = [c \in Calls |-> Nothing]
    /\ status = [c \in Calls |-> 0]
    /\ counter = [o \in Outcomes |-> 0]
    /\ http = [s \in Codes |-> 0]
    /\ inFlight = 0
    /\ faults = 0
    /\ panics = 0

-----------------------------------------------------------------------------
(* Leaving a handler.                                                      *)

Goto(c, label) == pc' = [pc EXCEPT ![c] = label] /\ UNCHANGED <<status, panics>>
Write(c, code) == /\ pc' = [pc EXCEPT ![c] = "observe"]
                  /\ status' = [status EXCEPT ![c] = code]

Respond(c, code) == Write(c, code) /\ UNCHANGED panics

\* A log line panics.  observe recovers and writes 500 if nothing was written.
LogPanic(c) ==
    /\ panics < MaxPanics
    /\ panics' = panics + 1
    /\ pc' = [pc EXCEPT ![c] = "recover"]
    /\ status' = [status EXCEPT ![c] = 500]

LogThenRespond(c, code) == Respond(c, code) \/ LogPanic(c)
LogThenGoto(c, label) == Goto(c, label) \/ LogPanic(c)

Count(o) == counter' = [counter EXCEPT ![o] = @ + 1]
NoCount == UNCHANGED counter

\* rejectTransferStatus
RejectTransfer(c, code) == Count("invalid") /\ LogThenRespond(c, code)

-----------------------------------------------------------------------------
(* observe: around every handler.                                          *)

Arrive(c) ==
    /\ pc[c] = "idle"
    /\ \E r \in Requests : req' = [req EXCEPT ![c] = r]
    /\ inFlight' = inFlight + 1
    /\ Goto(c, "gate")
    /\ UNCHANGED <<db, user, result, counter, http, faults>>

\* Faulty variant of CountStatus: a server error is not counted.
CountNo500(s) == http' = IF s = 500 THEN http ELSE [http EXCEPT ![s] = @ + 1]

CountStatus(s) == http' = [http EXCEPT ![s] = @ + 1]

\* The deferred function counts the request by its status and logs it; a panic
\* of that last line is net/http's affair.
Observed(c) ==
    /\ pc[c] = "observe"
    /\ CountStatus(status[c])
    /\ inFlight' = inFlight - 1
    /\ Goto(c, "done")
    /\ UNCHANGED <<db, req, user, result, counter, faults>>

\* The recovered panic is logged, by the deferred function itself: should that
\* line panic too, only the deferred Dec still runs and net/http closes the
\* connection.
Recovered(c) ==
    /\ pc[c] = "recover"
    /\ \/ Goto(c, "observe") /\ UNCHANGED inFlight
       \/ /\ panics < MaxPanics
          /\ panics' = panics + 1
          /\ inFlight' = inFlight - 1
          /\ pc' = [pc EXCEPT ![c] = "aborted"]
          /\ UNCHANGED status
    /\ UNCHANGED <<db, req, user, result, counter, http, faults>>

-----------------------------------------------------------------------------
(* authenticate and requireAdmin.                                          *)

Gate(c) ==
    LET r == req[c]
    IN  /\ pc[c] = "gate"
        /\ \/ r.route = "mint" /\ r.token # AdminToken /\ Respond(c, 403)
           \/ r.route = "mint" /\ r.token = AdminToken /\ Goto(c, "mint")
           \/ r.route # "mint" /\ r.token = NoToken /\ Respond(c, 401)
           \/ r.route # "mint" /\ r.token # NoToken /\ Goto(c, "upsert")
        /\ UNCHANGED <<db, rest, result, counter, faults>>

\* Faulty variant of Taken: other statements' uncommitted entries are not seen.
TakenBlind(c, field, value) == FALSE

\* A unique index entry that an open statement of somebody else holds.
Taken(c, field, value) ==
    \E d \in Calls \ {c} : \E row \in open[d] :
        field \in DOMAIN row /\ row[field] = value

\* UpsertUser and GetOrCreateWallet: one INSERT ... ON CONFLICT DO UPDATE each.
\* It inserts if the index has no entry, waits for an open one, and otherwise
\* returns the committed row.
InsertUser(c) ==
    /\ pc[c] = "upsert"
    /\ \A u \in users : u.token # req[c].token
    /\ ~Taken(c, "token", req[c].token)
    /\ open' = [open EXCEPT ![c] = {[id |-> c, token |-> req[c].token]}]
    /\ Goto(c, "userCommit")
    /\ UNCHANGED <<users, wallets, money, rest, result, counter, faults>>

CommitUser(c) ==
    /\ pc[c] = "userCommit"
    /\ users' = users \cup open[c]
    /\ open' = [open EXCEPT ![c] = {}]
    /\ user' = [user EXCEPT ![c] = c]
    /\ Goto(c, req[c].route)
    /\ UNCHANGED <<wallets, money, req, http, inFlight, result, counter, faults>>

FoundUser(c) ==
    /\ pc[c] = "upsert"
    /\ \E u \in users : u.token = req[c].token /\ user' = [user EXCEPT ![c] = u.id]
    /\ Goto(c, req[c].route)
    /\ UNCHANGED <<db, req, http, inFlight, result, counter, faults>>

-----------------------------------------------------------------------------
(* POST /wallets                                                           *)

Return(c, kind, rows) == result' = [result EXCEPT ![c] = [kind |-> kind, rows |-> rows]]

InsertWallet(c) ==
    /\ pc[c] = "wallets"
    /\ \A w \in wallets : w.owner # user[c]
    /\ ~Taken(c, "owner", user[c])
    /\ open' = [open EXCEPT ![c] = {[id |-> c, owner |-> user[c]]}]
    /\ Goto(c, "walletCommit")
    /\ UNCHANGED <<users, wallets, money, rest, result, counter, faults>>

CommitWallet(c) ==
    /\ pc[c] = "walletCommit"
    /\ wallets' = wallets \cup open[c]
    /\ open' = [open EXCEPT ![c] = {}]
    /\ Return(c, "created", open[c])
    /\ Goto(c, "reportWallet")
    /\ UNCHANGED <<users, money, rest, counter, faults>>

FoundWallet(c) ==
    /\ pc[c] = "wallets"
    /\ \E w \in wallets : w.owner = user[c] /\ Return(c, "reused", {w})
    /\ Goto(c, "reportWallet")
    /\ UNCHANGED <<db, rest, counter, faults>>

\* Faulty variant of WalletOutcome: what was found is counted as created.
AlwaysCreated(inserted) == "created"

WalletOutcome(inserted) == IF inserted THEN "created" ELSE "reused"

ReportWallet(c) ==
    /\ pc[c] = "reportWallet"
    /\ Count(WalletOutcome(result[c].kind = "created"))
    /\ LogThenRespond(c, IF result[c].kind = "created" THEN 201 ELSE 200)
    /\ UNCHANGED <<db, rest, result, faults>>

-----------------------------------------------------------------------------
(* POST /transfers                                                         *)

\* The switch of handleCreateTransfer; a missing amount counts as zero.
Valid(r) == /\ r.key # NoKey /\ r.key \notin LongKeys
            /\ r.from # NoWallet /\ r.to # NoWallet /\ r.from # r.to
            /\ r.amt > 0

Validate(c) ==
    LET r == req[c]
    IN  /\ pc[c] = "transfer"
        /\ \/ ~r.parses /\ Count("invalid") /\ Respond(c, 400)
           \/ r.parses /\ ~Valid(r) /\ RejectTransfer(c, 422)
           \/ r.parses /\ Valid(r) /\ NoCount /\ Goto(c, "from")
        /\ UNCHANGED <<db, rest, result, faults>>

\* GetWallet
WalletRow(id) == { w \in wallets : w.id = id }

\* Faulty variant of MayDebit: nobody asks whose wallet it is.
AnyoneMayDebit(c, w) == TRUE

MayDebit(c, w) == w.owner = user[c]

PrecheckFrom(c) ==
    LET found == WalletRow(req[c].from)
    IN  /\ pc[c] = "from"
        /\ \/ found = {} /\ RejectTransfer(c, 404)
           \/ (\E w \in found : ~MayDebit(c, w)) /\ RejectTransfer(c, 403)
           \/ (\E w \in found : MayDebit(c, w)) /\ NoCount /\ Goto(c, "to")
        /\ UNCHANGED <<db, rest, result, faults>>

PrecheckTo(c) ==
    LET found == WalletRow(req[c].to)
    IN  /\ pc[c] = "to"
        /\ \/ found = {} /\ RejectTransfer(c, 404)
           \/ found # {} /\ NoCount /\ LogThenGoto(c, "store")
        /\ UNCHANGED <<db, rest, result, faults>>

\* What the request orders, with the fingerprint the store computes.
Order(c) ==
    LET r == req[c]
    IN  [user |-> user[c], key |-> r.key, from |-> r.from, to |-> r.to,
         amt |-> r.amt, fp |-> <<r.from, r.to, r.amt>>]
KeyRow(o) == { t \in transfers : t.user = o.user /\ t.key = o.key }
NewRows == transfers' \ transfers

Moves(c) == L!Succeed(c, Order(c)) \/ L!Decline(c, Order(c))
StatusOf(rows) == (CHOOSE t \in rows : TRUE).status

\* store.Transfer moves the money, or records that there was not enough.
TransferFresh(c) ==
    /\ pc[c] = "store"
    /\ Moves(c)
    /\ Return(c, StatusOf(NewRows), NewRows)
    /\ Goto(c, "report")
    /\ UNCHANGED <<users, wallets, open, rest, counter, faults>>

\* Faulty variant of SameRequest: any reuse of a key is a replay.
AnyRequest(t, o) == TRUE

SameRequest(t, o) == t.fp = o.fp

\* The key has been used: the stored outcome, if it was for the same request.
TransferAgain(c) ==
    LET found == KeyRow(Order(c))
    IN  /\ pc[c] = "store"
        /\ found # {}
        /\ IF \A t \in found : SameRequest(t, Order(c))
           THEN Return(c, "replay", found)
           ELSE Return(c, "conflict", {})
        /\ Goto(c, "report")
        /\ UNCHANGED <<db, rest, counter, faults>>

\* store.Transfer fails: the credit does not fit in a bigint.
TransferOverflows(c) ==
    LET o == Order(c)
    IN  /\ pc[c] = "store"
        /\ KeyRow(o) = {}
        /\ balance[o.from] >= o.amt
        /\ balance[o.to] + o.amt > MaxInt
        /\ LogThenRespond(c, 500)
        /\ UNCHANGED <<db, rest, result, counter, faults>>

\* store.Transfer fails although it has committed: the reply was lost.
TransferReplyLost(c) ==
    /\ pc[c] = "store"
    /\ faults < MaxFaults
    /\ faults' = faults + 1
    /\ Moves(c)
    /\ Return(c, "error", NewRows)
    /\ LogThenRespond(c, 500)
    /\ UNCHANGED <<users, wallets, open, rest, counter>>

\* Faulty variants: a decline is answered with 422; a replay is counted by the
\* status of the stored row.
DeclineIs422(kind) == CASE kind = "conflict" -> 409 [] kind = "declined" -> 422 [] OTHER -> 201
StoredOutcome(res) == IF res.kind = "replay" THEN StatusOf(res.rows) ELSE res.kind

TransferStatus(kind) == IF kind = "conflict" THEN 409 ELSE 201
TransferOutcome(res) == res.kind

\* Counted by outcome, logged, answered.
ReportTransfer(c) ==
    LET k == TransferOutcome(result[c])
        moved == IF k = "succeeded" THEN req[c].amt ELSE 0
    IN  /\ pc[c] = "report"
        /\ counter' = [counter EXCEPT ![k] = @ + 1, !["paiseMoved"] = @ + moved]
        /\ LogThenRespond(c, TransferStatus(k))
        /\ UNCHANGED <<db, rest, result, faults>>

-----------------------------------------------------------------------------
(* POST /admin/mint                                                        *)

\* handleMint does not look at the length of a key.
ValidMint(r) == r.to # NoWallet /\ r.amt > 0 /\ r.key # NoKey

ValidateMint(c) ==
    LET r == req[c]
    IN  /\ pc[c] = "mint"
        /\ \/ ~r.parses /\ Respond(c, 400)
           \/ r.parses /\ ~ValidMint(r) /\ Respond(c, 422)
           \/ r.parses /\ ValidMint(r) /\ Goto(c, "fund")
        /\ UNCHANGED <<db, rest, result, counter, faults>>

GrantOf(c) == [key |-> req[c].key, wallet |-> req[c].to, amt |-> req[c].amt]
MintKeyUsed(c) == \E m \in mints : m.key = req[c].key

\* store.Mint: applied.
MintFresh(c) ==
    /\ pc[c] = "fund"
    /\ WalletRow(req[c].to) # {}
    /\ L!Grant(c, GrantOf(c))
    /\ Return(c, "minted", {})
    /\ Goto(c, "reportMint")
    /\ UNCHANGED <<users, wallets, open, rest, counter, faults>>

\* store.Mint: the key has been used, nothing is applied.
MintAgain(c) ==
    /\ pc[c] = "fund"
    /\ WalletRow(req[c].to) # {}
    /\ MintKeyUsed(c)
    /\ Return(c, "mintReplay", {})
    /\ Goto(c, "reportMint")
    /\ UNCHANGED <<db, rest, counter, faults>>

\* store.Mint: no such wallet, or the balance would not fit in a bigint.
MintFails(c) ==
    /\ pc[c] = "fund"
    /\ \/ WalletRow(req[c].to) = {} /\ Respond(c, 404)
       \/ /\ WalletRow(req[c].to) # {} /\ ~MintKeyUsed(c)
          /\ balance[req[c].to] + req[c].amt > MaxInt
          /\ LogThenRespond(c, 500)
    /\ UNCHANGED <<db, rest, result, counter, faults>>

\* store.Mint has committed, but the handler hears of an error.
MintReplyLost(c) ==
    /\ pc[c] = "fund"
    /\ faults < MaxFaults
    /\ faults' = faults + 1
    /\ WalletRow(req[c].to) # {}
    /\ L!Grant(c, GrantOf(c))
    /\ Return(c, "error", {})
    /\ LogThenRespond(c, 500)
    /\ UNCHANGED <<users, wallets, open, rest, counter>>

ReportMint(c) ==
    /\ pc[c] = "reportMint"
    /\ counter' = [counter EXCEPT !["paiseMinted"] =
                      IF result[c].kind = "minted" THEN @ + req[c].amt ELSE @]
    /\ LogThenRespond(c, 200)
    /\ UNCHANGED <<db, rest, result, faults>>

-----------------------------------------------------------------------------
(* GET /wallets/{id} and GET /transfers/{id}; the id is in the field `to`. *)

GetWallet(c) ==
    LET found == WalletRow(req[c].to)
    IN  /\ pc[c] = "getWallet"
        /\ Return(c, "read", found)
        /\ Respond(c, IF found = {} THEN 404 ELSE 200)
        /\ UNCHANGED <<db, rest, counter, faults>>

\* store.GetTransfer
TransferRow(id) == { t \in transfers : t.id = id }

GetTransfer(c) ==
    LET found == TransferRow(req[c].to)
    IN  /\ pc[c] = "getTransfer"
        /\ Return(c, "read", found)
        /\ Respond(c, IF found = {} THEN 404 ELSE 200)
        /\ UNCHANGED <<db, rest, counter, faults>>

-----------------------------------------------------------------------------
(* Database errors: logged by every handler and answered with 500.         *)

AsksDatabase == {"upsert", "userCommit", "wallets", "walletCommit", "from", "to",
                 "store", "fund", "getWallet", "getTransfer"}

\* Faulty variant of Discard: the row stays behind, in nobody's transaction.
DiscardNothing(c) == UNCHANGED open

Discard(c) == open' = [open EXCEPT ![c] = {}]

\* The statement is lost, and so is what it had inserted.
DbError(c) ==
    /\ pc[c] \in AsksDatabase
    /\ faults < MaxFaults
    /\ faults' = faults + 1
    /\ Discard(c)
    /\ LogThenRespond(c, 500)
    /\ UNCHANGED <<users, wallets, money, rest, result, counter>>

\* The insert has committed, but the handler hears of an error.
InsertReplyLost(c) ==
    /\ pc[c] \in {"userCommit", "walletCommit"}
    /\ faults < MaxFaults
    /\ faults' = faults + 1
    /\ users' = IF pc[c] = "userCommit" THEN users \cup open[c] ELSE users
    /\ wallets' = IF pc[c] = "walletCommit" THEN wallets \cup open[c] ELSE wallets
    /\ open' = [open EXCEPT ![c] = {}]
    /\ Return(c, "error", {})
    /\ LogThenRespond(c, 500)
    /\ UNCHANGED <<money, rest, counter>>

-----------------------------------------------------------------------------

Step(c) ==
    \/ Observed(c) \/ Recovered(c) \/ Gate(c)
    \/ InsertUser(c) \/ CommitUser(c) \/ FoundUser(c)
    \/ InsertWallet(c) \/ CommitWallet(c) \/ FoundWallet(c) \/ ReportWallet(c)
    \/ Validate(c) \/ PrecheckFrom(c) \/ PrecheckTo(c)
    \/ TransferFresh(c) \/ TransferAgain(c) \/ TransferOverflows(c) \/ ReportTransfer(c)
    \/ ValidateMint(c) \/ MintFresh(c) \/ MintAgain(c) \/ MintFails(c) \/ ReportMint(c)
    \/ GetWallet(c) \/ GetTransfer(c)

Fault(c) == DbError(c) \/ InsertReplyLost(c) \/ TransferReplyLost(c) \/ MintReplyLost(c)

Over == {"done", "aborted"}
Quiescent == (\A c \in Calls : pc[c] \in Over) /\ UNCHANGED vars

Next == (\E c \in Calls : Arrive(c) \/ Step(c) \/ Fault(c)) \/ Quiescent

Spec == Init /\ [][Next]_vars

-----------------------------------------------------------------------------
(* Properties.                                                             *)

\* Types; a status is written exactly once a handler has come to its end.
TypeOK ==
    /\ \A c \in Calls :
          /\ status[c] \in Codes \cup {0}
          /\ status[c] = 0 <=> pc[c] \notin {"observe", "recover"} \cup Over
          /\ open[c] # {} <=> pc[c] \in {"userCommit", "walletCommit"}
    /\ balance \in [WalletIds -> 0..MaxInt]
    /\ counter \in [Outcomes -> Nat]
    /\ http \in [Codes -> Nat]
    /\ inFlight \in 0..Cardinality(Calls)

\* Money only ever leaves a wallet on the order of its owner, and only ever
\* enters a wallet that exists, although handleCreateTransfer checks both
\* outside the transaction that moves it.
OwnerMoves ==
    /\ \A t \in transfers :
          /\ \E w \in wallets : w.id = t.from /\ w.owner = t.user
          /\ \E w \in wallets : w.id = t.to
    /\ \A m \in mints : \E w \in wallets : w.id = m.wallet

\* First use: one user per token and one wallet per user, however many first
\* calls race and whichever of them fail; one caller at most is told 201, and
\* all callers of a user are told the same wallet.
OneWalletEach ==
    /\ \A u, v \in users : u.token = v.token => u = v
    /\ \A w, x \in wallets : w.owner = x.owner => w = x
    /\ \A c, d \in Calls :
          LET told(e) == result[e].kind \in {"created", "reused"}
          IN  told(c) /\ told(d) /\ req[c].token = req[d].token =>
                  /\ result[c].rows = result[d].rows
                  /\ status[c] = 201 /\ status[d] = 201 => c = d

\* A rejected transfer has not used up its key, so the caller can correct the
\* request and send it again (handleCreateTransfer: "should not burn the
\* caller's key"); neither has a conflict.
RejectionKeepsKey ==
    \A c \in Calls : req[c].route = "transfer" /\ status[c] \in {400, 401, 403, 404, 409, 422} =>
        \A t \in transfers : t.id # c

\* 201 on a transfer: a committed row says what this caller asked for.
CreatedIsTrue ==
    \A c \in Calls : req[c].route = "transfer" /\ status[c] = 201 =>
        \E t \in transfers :
            /\ t.user = user[c] /\ t.key = req[c].key
            /\ <<t.from, t.to, t.amt>> = <<req[c].from, req[c].to, req[c].amt>>

Paise(rows) == MapThenSumSet(LAMBDA row : row.amt, rows)
Unreported(label) == { c \in Calls : pc[c] = label \/ result[c].kind = "error" }

\* The domain counters agree with the tables: every transfer row, paise moved or
\* minted and wallet row is counted once, except those still to be reported and those
\* whose commit was never heard of; replays count for nothing.
CountersMatchTables ==
    LET rows == { t \in transfers : t.id \notin Unreported("report") }
        paid == { t \in rows : t.status = "succeeded" }
    IN  /\ counter["succeeded"] = Cardinality(paid)
        /\ counter["declined"] = Cardinality(rows \ paid)
        /\ counter["paiseMoved"] = Paise(paid)
        /\ counter["paiseMinted"] =
              Paise({ m \in mints : m.id \in Calls \ Unreported("reportMint") })
        /\ counter["created"] =
              Cardinality({ w \in wallets : w.id \in Calls \ Unreported("reportWallet") })

\* "it must still be counted as a 500 so the error-rate metric is honest":
\* every request that is over has been counted, under the status it was given,
\* unless reporting its panic panicked as well; the in-flight gauge comes back
\* even then.
EveryRequestCounted ==
    /\ inFlight = Cardinality({ c \in Calls : pc[c] \notin Over \cup {"idle"} })
    /\ \A s \in Codes : http[s] = Cardinality({ c \in Calls : pc[c] = "done" /\ status[c] = s })
    /\ \A c \in Calls : pc[c] = "aborted" => panics >= 2
=============================================================================
