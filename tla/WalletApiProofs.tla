-------------------------- MODULE WalletApiProofs ---------------------------
(***************************************************************************)
(* Safety of the money routes, for every finite set of requests in flight: *)
(* who may move money, what an answer says about the tables, first use,    *)
(* and the counters of obs.Metrics.                                        *)
(***************************************************************************)
EXTENDS WalletApi, FiniteSums

Early == {"idle", "gate", "upsert", "userCommit", "wallets", "walletCommit", "transfer",
          "from", "to", "store", "mint", "fund", "getWallet", "getTransfer"}
Reports == {"report", "reportWallet", "reportMint"}
Late == {"observe", "recover", "done", "aborted"}
Kind(c) == result[c].kind

\* What a call's row says: an order that was settled, a mint that was applied.
Settled(c, s) == L!TransferRow(c, Order(c), s)
Granted(c) == [id |-> c, key |-> req[c].key, wallet |-> req[c].to, amt |-> req[c].amt]
Owned(c) == [id |-> c, owner |-> user[c]]
MintRow(id) == { m \in mints : m.id = id }

\* The user row behind the token of c; the stored outcome of its order.
Known(c) == \E u \in users : u.token = req[c].token /\ u.id = user[c]
Stands(c) ==
    \E t \in transfers :
        /\ t.user = user[c] /\ t.key = req[c].key
        /\ <<t.from, t.to, t.amt>> = <<req[c].from, req[c].to, req[c].amt>>
Told(c) ==
    \E w \in wallets : /\ result[c].rows = {w}
                       /\ w.owner = user[c]
                       /\ Kind(c) = "created" => w.id = c

\* How far c has come: its status, its request, its open statement, the log
\* lines that must have panicked.
ControlOf(c) ==
    /\ pc[c] \in Early \cup Reports \cup Late
    /\ status[c] \in Codes \cup {0}
    /\ status[c] = 0 <=> pc[c] \notin Late
    /\ pc[c] # "idle" => req[c] \in Requests
    /\ open[c] = CASE pc[c] = "userCommit" -> {[id |-> c, token |-> req[c].token]}
                   [] pc[c] = "walletCommit" -> {Owned(c)}
                   [] OTHER -> {}
    /\ pc[c] = "recover" => panics >= 1
    /\ pc[c] = "aborted" => panics >= 2

\* What its handler has checked by now, outside any transaction.
CheckedOf(c) ==
    /\ pc[c] \in {"transfer", "from", "to", "store", "report"} => req[c].route = "transfer"
    /\ pc[c] \in {"wallets", "walletCommit", "reportWallet"} =>
          req[c].route = "wallets" /\ Known(c)
    /\ pc[c] \in {"from", "to", "store", "report"} => Valid(req[c])
    /\ pc[c] \in {"fund", "reportMint"} => ValidMint(req[c])
    /\ pc[c] \in {"to", "store"} => \E w \in wallets : w.id = req[c].from /\ w.owner = user[c]
    /\ pc[c] = "store" => \E w \in wallets : w.id = req[c].to

\* What the store has told it, and what it has told its caller.
ToldOf(c) ==
    /\ pc[c] \in Early => Kind(c) = "none"
    /\ pc[c] = "report" => Kind(c) \in {"succeeded", "declined", "replay", "conflict"}
    /\ pc[c] = "reportWallet" => Kind(c) \in {"created", "reused"}
    /\ pc[c] = "reportMint" => Kind(c) \in {"minted", "mintReplay"}
    /\ Kind(c) \in {"created", "reused"} => req[c].route = "wallets" /\ Known(c) /\ Told(c)
    /\ Kind(c) \in {"succeeded", "declined", "replay"} => Stands(c)
    /\ Kind(c) \in {"succeeded", "declined"} => status[c] \in {0, 201, 500}
    /\ Kind(c) = "error" => status[c] = 500
    /\ status[c] = 201 => Kind(c) \in {"succeeded", "declined", "replay", "created"}

\* The rows it has put into the tables: none, unless the store said so or its
\* reply was lost.
RowsOf(c) ==
    /\ Kind(c) \in {"succeeded", "declined"} => TransferRow(c) = {Settled(c, Kind(c))}
    /\ Kind(c) \notin {"succeeded", "declined", "error"} => TransferRow(c) = {}
    /\ Kind(c) = "created" => WalletRow(c) = {Owned(c)}
    /\ Kind(c) \notin {"created", "error"} => WalletRow(c) = {}
    /\ Kind(c) = "minted" => MintRow(c) = {Granted(c)}
    /\ Kind(c) \notin {"minted", "error"} => MintRow(c) = {}

CallOf(c) == ControlOf(c) /\ CheckedOf(c) /\ ToldOf(c) /\ RowsOf(c)

\* One user per token and one wallet per owner, among the committed rows and
\* those of open statements together.
UniqueInv ==
    /\ \A u, v \in users : u.token = v.token => u = v
    /\ \A w, x \in wallets : w.owner = x.owner => w = x
    /\ \A c \in Calls : pc[c] = "userCommit" => \A u \in users : u.token # req[c].token
    /\ \A c \in Calls : pc[c] = "walletCommit" => \A w \in wallets : w.owner # user[c]
    /\ \A c, d \in Calls : pc[c] = "userCommit" /\ pc[d] = "userCommit"
                           /\ req[c].token = req[d].token => c = d
    /\ \A c, d \in Calls : pc[c] = "walletCommit" /\ pc[d] = "walletCommit"
                           /\ user[c] = user[d] => c = d

\* The tables: rows say what was ordered, and move money that is there.
TableInv ==
    /\ balance \in [WalletIds -> 0..MaxInt]
    /\ \A w \in wallets : w.id \in WalletIds
    /\ \A t \in transfers : /\ t.id \in Calls
                            /\ t.status \in {"succeeded", "declined"}
                            /\ t.fp = <<t.from, t.to, t.amt>>
    /\ OwnerMoves

Shapes ==
    /\ DOMAIN pc = Calls /\ DOMAIN req = Calls /\ DOMAIN user = Calls
    /\ DOMAIN result = Calls /\ DOMAIN status = Calls /\ DOMAIN open = Calls
    /\ counter \in [Outcomes -> Nat] /\ http \in [Codes -> Nat]
    /\ panics \in Nat

\* The inductive invariant, but for the counters.
ApiInv == Shapes /\ TableInv /\ UniqueInv /\ \A c \in Calls : CallOf(c)

-----------------------------------------------------------------------------
(* How a step of c changes the state.                                      *)

\* Nothing but c's own variables, and rows of its own.
OnlyCall(c) ==
    /\ \A d \in Calls \ {c} :
          /\ pc'[d] = pc[d] /\ req'[d] = req[d] /\ user'[d] = user[d]
          /\ result'[d] = result[d] /\ status'[d] = status[d] /\ open'[d] = open[d]
    /\ users \subseteq users' /\ wallets \subseteq wallets'
    /\ transfers \subseteq transfers' /\ mints \subseteq mints'
    /\ \A w \in wallets' \ wallets : w.id = c
    /\ \A t \in transfers' \ transfers : t.id = c
    /\ \A m \in mints' \ mints : m.id = c
    /\ panics \in Nat /\ panics' \in Nat /\ panics <= panics'

\* The part of the control that Goto, Write and LogPanic change.
Others(c) ==
    /\ \A d \in Calls \ {c} : pc'[d] = pc[d] /\ status'[d] = status[d]
    /\ DOMAIN pc' = Calls /\ DOMAIN status' = Calls
    /\ panics \in Nat /\ panics' \in Nat /\ panics <= panics'

Ends(c, code) ==
    \/ pc'[c] = "observe" /\ status'[c] = code /\ panics' = panics
    \/ pc'[c] = "recover" /\ status'[c] = 500 /\ panics' = panics + 1

\* A handler that goes on.
LEMMA GotoShape ==
    ASSUME Shapes, NEW c \in Calls, NEW l, Goto(c, l)
    PROVE  Others(c) /\ pc'[c] = l /\ status'[c] = status[c] /\ panics' = panics
BY DEF Shapes, Goto, Others

\* A handler that comes to its end, by writing or by a log line that panics.
LEMMA EndShape ==
    ASSUME Shapes, NEW c \in Calls, NEW code, LogThenRespond(c, code)
    PROVE  Others(c) /\ Ends(c, code)
BY DEF Shapes, LogThenRespond, Respond, Write, LogPanic, Others, Ends

\* The other calls keep what they have: their rows, and the rows they rely on.
LEMMA OtherCalls ==
    ASSUME NEW c \in Calls, NEW d \in Calls \ {c}, CallOf(d), OnlyCall(c)
    PROVE  CallOf(d)'
<1>1. /\ pc'[d] = pc[d] /\ req'[d] = req[d] /\ user'[d] = user[d]
      /\ result'[d] = result[d] /\ status'[d] = status[d] /\ open'[d] = open[d]
  BY DEF OnlyCall
<1>2. Kind(d)' = Kind(d)
  BY <1>1 DEF Kind
<1>3. Known(d) => Known(d)'
  BY <1>1 DEF OnlyCall, Known
<1>4. Stands(d) => Stands(d)'
  BY <1>1 DEF OnlyCall, Stands
<1>5. Told(d) => Told(d)'
  BY <1>1, <1>2 DEF OnlyCall, Told
<1>6. /\ TransferRow(d)' = TransferRow(d) /\ WalletRow(d)' = WalletRow(d)
      /\ MintRow(d)' = MintRow(d)
  BY DEF OnlyCall, TransferRow, WalletRow, MintRow
<1>7. Owned(d)' = Owned(d) /\ Granted(d)' = Granted(d) /\ Order(d)' = Order(d)
  BY <1>1 DEF Owned, Granted, Order
<1>8. ControlOf(d)'
  BY <1>1, <1>7 DEF CallOf, ControlOf, OnlyCall
<1>9. CheckedOf(d)'
  BY <1>1, <1>3 DEF CallOf, CheckedOf, OnlyCall, Valid, ValidMint
<1>10. ToldOf(d)'
  BY <1>1, <1>2, <1>3, <1>4, <1>5 DEF CallOf, ToldOf
<1>11. RowsOf(d)'
  BY <1>2, <1>6, <1>7 DEF CallOf, RowsOf, Settled, L!TransferRow
<1> QED BY <1>8, <1>9, <1>10, <1>11 DEF CallOf

\* A handler ends without having asked the store again: its answer must fit what
\* the store told it.
LEMMA EndStep ==
    ASSUME NEW c \in Calls, CallOf(c), pc[c] \in (Early \cup Reports) \ {"idle"},
           NEW code \in Codes, Ends(c, code), panics \in Nat,
           req'[c] = req[c], user'[c] = user[c], result'[c] = result[c], open'[c] = {},
           UNCHANGED <<users, wallets, transfers, mints>>,
           Kind(c) \in {"succeeded", "declined"} => code \in {201, 500},
           code = 201 => Kind(c) \in {"succeeded", "declined", "replay", "created"}
    PROVE  CallOf(c)'
<1>1. pc'[c] \in {"observe", "recover"} /\ status'[c] \in {code, 500}
  BY DEF Ends
<1>2. Kind(c)' = Kind(c) /\ Kind(c) # "error"
  BY DEF Kind, CallOf, ToldOf, ControlOf, Early, Reports, Late
<1>3. ControlOf(c)'
  BY <1>1 DEF CallOf, ControlOf, Ends, Early, Reports, Late, Codes
<1>4. CheckedOf(c)'
  BY <1>1 DEF CheckedOf
<1>5. ToldOf(c)'
  BY <1>1, <1>2 DEF CallOf, ToldOf, Known, Stands, Told, Early
<1>6. RowsOf(c)'
  BY <1>2 DEF CallOf, RowsOf, TransferRow, WalletRow, MintRow, Settled, Owned, Granted,
              Order, L!TransferRow
<1> QED BY <1>3, <1>4, <1>5, <1>6 DEF CallOf

\* A handler ends with an error although its statement has committed.
LEMMA LostStep ==
    ASSUME NEW c \in Calls, CallOf(c), pc[c] \in Early \ {"idle"}, Ends(c, 500), panics \in Nat,
           req'[c] = req[c], result'[c].kind = "error", open'[c] = {}
    PROVE  CallOf(c)'
<1>1. pc'[c] \in {"observe", "recover"} /\ status'[c] = 500 /\ Kind(c)' = "error"
  BY DEF Ends, Kind
<1>2. ControlOf(c)'
  BY <1>1 DEF CallOf, ControlOf, Ends, Early, Reports, Late, Codes
<1>3. CheckedOf(c)' /\ ToldOf(c)' /\ RowsOf(c)'
  BY <1>1 DEF CheckedOf, ToldOf, RowsOf, Early
<1> QED BY <1>2, <1>3 DEF CallOf

\* A handler goes on, having heard nothing from the store yet.
LEMMA EarlyStep ==
    ASSUME NEW c \in Calls, CallOf(c), pc[c] \in Early, pc'[c] \in Early,
           status'[c] = status[c], result'[c] = result[c],
           UNCHANGED <<wallets, transfers, mints>>, pc'[c] # "idle" => req'[c] \in Requests,
           open'[c] = CASE pc'[c] = "userCommit" -> {[id |-> c, token |-> req'[c].token]}
                        [] pc'[c] = "walletCommit" -> {[id |-> c, owner |-> user'[c]]}
                        [] OTHER -> {},
           CheckedOf(c)'
    PROVE  CallOf(c)'
<1>1. Kind(c)' = "none" /\ Kind(c) = "none" /\ status'[c] = 0
  BY DEF CallOf, ToldOf, ControlOf, Kind, Early, Late
<1>2. ControlOf(c)'
  BY <1>1 DEF ControlOf, Early, Reports, Late, Owned
<1>3. ToldOf(c)'
  BY <1>1 DEF ToldOf, Early
<1>4. RowsOf(c)'
  BY <1>1 DEF CallOf, RowsOf, TransferRow, WalletRow, MintRow
<1> QED BY <1>2, <1>3, <1>4 DEF CallOf

\* What a step of c leaves to be shown: its own part of the invariant.
Rest(c) == Shapes' /\ TableInv' /\ UniqueInv' /\ OnlyCall(c)

Touches(c) ==
    /\ \A d \in Calls \ {c} : /\ req'[d] = req[d] /\ user'[d] = user[d]
                              /\ result'[d] = result[d] /\ open'[d] = open[d]
    /\ DOMAIN req' = Calls /\ DOMAIN user' = Calls
    /\ DOMAIN result' = Calls /\ DOMAIN open' = Calls
    /\ counter' \in [Outcomes -> Nat] /\ http' \in [Codes -> Nat]

\* The invariant after a step of c, which is all that c does.
LEMMA Assemble ==
    ASSUME ApiInv, NEW c \in Calls, Rest(c), CallOf(c)'
    PROVE  ApiInv' /\ OnlyCall(c)
<1>1. ASSUME NEW d \in Calls \ {c} PROVE CallOf(d)'
  BY <1>1, OtherCalls DEF ApiInv, Rest
<1> QED BY <1>1 DEF ApiInv, Rest

\* A step that leaves the tables alone and inserts nothing.
LEMMA LocalRest ==
    ASSUME ApiInv, NEW c \in Calls, Others(c), Touches(c),
           UNCHANGED <<users, wallets, balance, transfers, mints>>,
           pc'[c] \notin {"userCommit", "walletCommit"}
    PROVE  Rest(c)
<1>1. Shapes'
  BY DEF Shapes, Others, Touches
<1>2. TableInv'
  BY DEF ApiInv, TableInv, OwnerMoves
<1>3. OnlyCall(c)
  BY DEF OnlyCall, Others, Touches
<1>4. UniqueInv'
  BY <1>3 DEF ApiInv, UniqueInv, OnlyCall
<1> QED BY <1>1, <1>2, <1>3, <1>4 DEF Rest

\* A step that answers the caller, with what the store has said so far.
LEMMA AnswerStep ==
    ASSUME ApiInv, NEW c \in Calls, pc[c] \in (Early \cup Reports) \ {"idle"},
           NEW code \in Codes, LogThenRespond(c, code),
           UNCHANGED <<users, wallets, money, req, user, http, result>>,
           open' \in {open, [open EXCEPT ![c] = {}]}, open'[c] = {},
           counter' \in [Outcomes -> Nat],
           Kind(c) \in {"succeeded", "declined"} => code \in {201, 500},
           code = 201 => Kind(c) \in {"succeeded", "declined", "replay", "created"}
    PROVE  ApiInv' /\ OnlyCall(c)
<1>0. Shapes /\ CallOf(c)
  BY DEF ApiInv
<1>1. Others(c) /\ Ends(c, code)
  BY <1>0, EndShape
<1>2. Touches(c)
  BY <1>0 DEF Shapes, Touches
<1>3. Rest(c)
  BY <1>1, <1>2, LocalRest DEF money, Ends
<1>4. CallOf(c)'
  BY <1>0, <1>1, EndStep DEF money, Shapes
<1> QED BY <1>3, <1>4, Assemble

\* A step that goes on without an answer from the store.
LEMMA GoStep ==
    ASSUME ApiInv, NEW c \in Calls, pc[c] \in Early \ {"userCommit", "walletCommit"},
           NEW l \in Early \ {"idle", "userCommit", "walletCommit"}, Goto(c, l), Touches(c),
           UNCHANGED <<db, result>>, req'[c] \in Requests, CheckedOf(c)'
    PROVE  ApiInv' /\ OnlyCall(c)
<1>0. Shapes /\ CallOf(c)
  BY DEF ApiInv
<1>1. Others(c) /\ pc'[c] = l /\ status'[c] = status[c]
  BY <1>0, GotoShape
<1>2. Rest(c)
  BY <1>1, LocalRest DEF db
<1>3. open'[c] = {}
  BY <1>0 DEF db, CallOf, ControlOf, Early
<1>4. CallOf(c)'
  BY <1>0, <1>1, <1>3, EarlyStep DEF db
<1> QED BY <1>2, <1>4, Assemble

-----------------------------------------------------------------------------
(* One lemma per action: observe, the gates, the checks.                   *)

\* A request comes in.
LEMMA ArriveStep ==
    ASSUME ApiInv, NEW c \in Calls, Arrive(c)
    PROVE  ApiInv' /\ OnlyCall(c)
<1>0. Shapes
  BY DEF ApiInv
<1>1. req'[c] \in Requests /\ Touches(c)
  BY <1>0 DEF Arrive, Shapes, Touches, db
<1>2. pc'[c] = "gate"
  BY <1>0, GotoShape DEF Arrive
<1>3. CheckedOf(c)'
  BY <1>2 DEF CheckedOf
<1> QED BY <1>1, <1>3, GoStep DEF Arrive, Early

\* A request is over, or its panic is reported.
LEMMA ObserveStep ==
    ASSUME ApiInv, NEW c \in Calls, Observed(c) \/ Recovered(c)
    PROVE  ApiInv' /\ OnlyCall(c)
<1>0. Shapes /\ CallOf(c)
  BY DEF ApiInv
<1>1. pc[c] \in {"observe", "recover"} /\ UNCHANGED <<db, req, user, result, counter, status>>
  BY DEF Observed, Recovered, Goto
<1>2. pc'[c] \in Late /\ Others(c) /\ status'[c] = status[c]
  BY <1>0 DEF Observed, Recovered, Goto, Others, Shapes, Late
<1>3. /\ pc'[c] # "recover"
      /\ pc'[c] = "aborted" => panics' >= 2
  <2>1. CASE Observed(c)
    BY <1>0, <2>1, GotoShape DEF Observed
  <2>2. CASE Recovered(c)
    BY <1>0, <2>2 DEF Recovered, Goto, Shapes, CallOf, ControlOf
  <2> QED BY <2>1, <2>2
<1>4. Touches(c)
  <2>1. http' \in [Codes -> Nat]
    <3>1. status[c] \in Codes
      BY <1>0, <1>1 DEF CallOf, ControlOf, Late
    <3> QED BY <1>0, <3>1 DEF Observed, Recovered, CountStatus, Shapes
  <2> QED BY <1>0, <1>1, <2>1 DEF Shapes, Touches, db
<1>5. Rest(c)
  BY <1>1, <1>2, <1>4, LocalRest DEF db, Late
<1>6. ControlOf(c)'
  BY <1>0, <1>1, <1>2, <1>3 DEF CallOf, ControlOf, db, Late, Early, Reports
<1>7. CheckedOf(c)'
  BY <1>2 DEF CheckedOf, Late
<1>8. ToldOf(c)'
  BY <1>0, <1>1, <1>2 DEF CallOf, ToldOf, Kind, Known, Stands, Told, db, Late, Early
<1>9. RowsOf(c)'
  BY <1>0, <1>1 DEF CallOf, RowsOf, Kind, TransferRow, WalletRow, MintRow, Settled, Owned,
                    Granted, Order, L!TransferRow, db
<1> QED BY <1>5, <1>6, <1>7, <1>8, <1>9, Assemble DEF CallOf

\* authenticate and requireAdmin.
LEMMA GateStep ==
    ASSUME ApiInv, NEW c \in Calls, Gate(c)
    PROVE  ApiInv' /\ OnlyCall(c)
<1>0. Shapes /\ CallOf(c) /\ pc[c] = "gate"
  BY DEF ApiInv, Gate
<1>1. Kind(c) = "none" /\ open[c] = {} /\ req[c] \in Requests /\ "gate" \in Early
  BY <1>0 DEF CallOf, ToldOf, ControlOf, Early
<1>2. Touches(c) /\ UNCHANGED <<db, rest, result, counter>>
  BY <1>0 DEF Gate, Touches, Shapes, db, rest
<1>3. CASE Respond(c, 403) \/ Respond(c, 401)
  BY <1>0, <1>1, <1>2, <1>3, AnswerStep
     DEF LogThenRespond, db, money, rest, Shapes, Codes
<1>4. CASE Goto(c, "mint") \/ Goto(c, "upsert")
  <2>1. pc'[c] \in {"mint", "upsert"}
    BY <1>0, <1>4, GotoShape
  <2>2. CheckedOf(c)'
    BY <2>1 DEF CheckedOf
  <2>3. {"mint", "upsert"} \subseteq Early \ {"idle", "userCommit", "walletCommit"}
    BY DEF Early
  <2>4. req'[c] \in Requests
    BY <1>1, <1>2 DEF rest
  <2> QED BY <1>0, <1>1, <1>2, <1>4, <2>2, <2>3, <2>4, GoStep
<1> QED BY <1>3, <1>4 DEF Gate

\* The user row was there.
LEMMA FoundUserStep ==
    ASSUME ApiInv, NEW c \in Calls, FoundUser(c)
    PROVE  ApiInv' /\ OnlyCall(c)
<1>0. Shapes /\ CallOf(c) /\ pc[c] = "upsert"
  BY DEF ApiInv, FoundUser
<1>1. req[c] \in Requests /\ "upsert" \in Early
  BY <1>0 DEF CallOf, ControlOf, Early
<1>2. req[c].route \in {"wallets", "transfer", "mint", "getWallet", "getTransfer"}
  BY <1>1, ApiAssumption
<1>3. Touches(c) /\ UNCHANGED <<db, req, result>>
  BY <1>0 DEF FoundUser, Touches, Shapes, db
<1>4. Known(c)'
  BY <1>0 DEF FoundUser, Known, Shapes, db
<1>5. CheckedOf(c)'
  BY <1>0, <1>2, <1>3, <1>4, GotoShape DEF FoundUser, CheckedOf
<1> QED BY <1>0, <1>1, <1>2, <1>3, <1>5, GoStep DEF FoundUser, Early

\* The switch of handleCreateTransfer, and the one of handleMint.
LEMMA ValidateStep ==
    ASSUME ApiInv, NEW c \in Calls, Validate(c) \/ ValidateMint(c)
    PROVE  ApiInv' /\ OnlyCall(c)
<1>0. Shapes /\ CallOf(c) /\ pc[c] \in {"transfer", "mint"}
  BY DEF ApiInv, Validate, ValidateMint
<1>1. /\ Kind(c) = "none" /\ open[c] = {} /\ req[c] \in Requests /\ pc[c] \in Early \ {"idle"}
      /\ pc[c] \notin {"userCommit", "walletCommit"}
  BY <1>0 DEF CallOf, ToldOf, ControlOf, Early
<1>2. counter' \in [Outcomes -> Nat]
  BY <1>0 DEF Validate, ValidateMint, Count, NoCount, RejectTransfer, Shapes, Outcomes
<1>3. Touches(c) /\ UNCHANGED <<db, rest, result>>
  BY <1>0, <1>2 DEF Validate, ValidateMint, Touches, Shapes, db, rest
<1>4. CASE LogThenRespond(c, 400) \/ LogThenRespond(c, 422)
  BY <1>1, <1>2, <1>3, <1>4, AnswerStep DEF db, money, rest, Codes
<1>5. CASE Validate(c) /\ Valid(req[c]) /\ Goto(c, "from")
  <2>1. pc'[c] = "from"
    BY <1>0, <1>5, GotoShape
  <2>2. req'[c] = req[c] /\ req[c].route = "transfer"
    BY <1>0, <1>3, <1>5 DEF rest, CallOf, CheckedOf, Validate
  <2>3. CheckedOf(c)'
    BY <1>5, <2>1, <2>2 DEF CheckedOf, Valid
  <2> QED BY <1>1, <1>3, <1>5, <2>2, <2>3, GoStep DEF Early
<1>6. CASE ValidateMint(c) /\ ValidMint(req[c]) /\ Goto(c, "fund")
  <2>1. pc'[c] = "fund" /\ req'[c] = req[c]
    BY <1>0, <1>3, <1>6, GotoShape DEF rest
  <2>2. CheckedOf(c)'
    BY <1>6, <2>1 DEF CheckedOf, ValidMint
  <2> QED BY <1>1, <1>3, <1>6, <2>1, <2>2, GoStep DEF Early
<1> QED BY <1>4, <1>5, <1>6 DEF Validate, ValidateMint, RejectTransfer, LogThenRespond

\* The two reads that precede a transfer.
LEMMA PrecheckStep ==
    ASSUME ApiInv, NEW c \in Calls, PrecheckFrom(c) \/ PrecheckTo(c)
    PROVE  ApiInv' /\ OnlyCall(c)
<1>0. Shapes /\ CallOf(c) /\ pc[c] \in {"from", "to"}
  BY DEF ApiInv, PrecheckFrom, PrecheckTo
<1>1. /\ Kind(c) = "none" /\ open[c] = {} /\ req[c] \in Requests /\ pc[c] \in Early \ {"idle"}
      /\ pc[c] \notin {"userCommit", "walletCommit"}
  BY <1>0 DEF CallOf, ToldOf, ControlOf, Early
<1>2. counter' \in [Outcomes -> Nat]
  BY <1>0 DEF PrecheckFrom, PrecheckTo, Count, NoCount, RejectTransfer, Shapes, Outcomes
<1>3. Touches(c) /\ UNCHANGED <<db, rest, result>>
  BY <1>0, <1>2 DEF PrecheckFrom, PrecheckTo, Touches, Shapes, db, rest
<1>4. CASE LogThenRespond(c, 404) \/ LogThenRespond(c, 403)
  BY <1>1, <1>2, <1>3, <1>4, AnswerStep DEF db, money, rest, Codes
<1>5. CASE PrecheckFrom(c) /\ Goto(c, "to") /\ \E w \in WalletRow(req[c].from) : MayDebit(c, w)
  <2>1. pc'[c] = "to" /\ req'[c] = req[c] /\ user'[c] = user[c] /\ wallets' = wallets
    BY <1>0, <1>3, <1>5, GotoShape DEF rest, db
  <2>2. req[c].route = "transfer" /\ Valid(req[c])
    BY <1>0 DEF CallOf, CheckedOf
  <2>3. CheckedOf(c)'
    BY <1>5, <2>1, <2>2 DEF CheckedOf, Valid, WalletRow, MayDebit
  <2> QED BY <1>1, <1>3, <1>5, <2>1, <2>3, GoStep DEF Early
<1>6. CASE PrecheckTo(c) /\ LogThenGoto(c, "store") /\ WalletRow(req[c].to) # {}
  <2>1. CASE LogPanic(c)
    BY <1>1, <1>2, <1>3, <2>1, AnswerStep DEF LogThenRespond, db, money, rest, Codes
  <2>2. CASE Goto(c, "store")
    <3>1. pc'[c] = "store" /\ req'[c] = req[c] /\ user'[c] = user[c] /\ wallets' = wallets
      BY <1>0, <1>3, <2>2, GotoShape DEF rest, db
    <3>2. /\ req[c].route = "transfer" /\ Valid(req[c])
          /\ \E w \in wallets : w.id = req[c].from /\ w.owner = user[c]
      BY <1>0, <1>6 DEF CallOf, CheckedOf, PrecheckTo
    <3>3. CheckedOf(c)'
      BY <1>6, <3>1, <3>2 DEF CheckedOf, Valid, WalletRow
    <3> QED BY <1>1, <1>3, <2>2, <3>1, <3>3, GoStep DEF Early
  <2> QED BY <1>6, <2>1, <2>2 DEF LogThenGoto
<1> QED BY <1>4, <1>5, <1>6 DEF PrecheckFrom, PrecheckTo, RejectTransfer

\* Errors and refusals that leave nothing behind.
LEMMA RefusedStep ==
    ASSUME ApiInv, NEW c \in Calls, TransferOverflows(c) \/ MintFails(c) \/ DbError(c)
    PROVE  ApiInv' /\ OnlyCall(c)
<1>0. Shapes /\ CallOf(c) /\ pc[c] \in AsksDatabase
  BY DEF ApiInv, TransferOverflows, MintFails, DbError, AsksDatabase
<1>1. Kind(c) = "none" /\ pc[c] \in Early \ {"idle"}
  BY <1>0 DEF CallOf, ToldOf, Early, AsksDatabase
<1>2. LogThenRespond(c, 404) \/ LogThenRespond(c, 500)
  BY DEF TransferOverflows, MintFails, DbError, LogThenRespond
<1>3. open' \in {open, [open EXCEPT ![c] = {}]} /\ open'[c] = {}
  <2>1. CASE DbError(c)
    BY <1>0, <2>1 DEF DbError, Discard, Shapes
  <2>2. CASE TransferOverflows(c) \/ MintFails(c)
    BY <1>0, <2>2 DEF TransferOverflows, MintFails, db, CallOf, ControlOf
  <2> QED BY <2>1, <2>2
<1>4. UNCHANGED <<users, wallets, money, rest, result, counter>>
  BY DEF TransferOverflows, MintFails, DbError, db, money
<1>5. counter' \in [Outcomes -> Nat]
  BY <1>0, <1>4 DEF Shapes
<1> QED BY <1>1, <1>2, <1>3, <1>4, <1>5, AnswerStep DEF rest, Codes

-----------------------------------------------------------------------------
(* Counting, logging and answering what the store said.                    *)

\* The three reports.
LEMMA ReportStep ==
    ASSUME ApiInv, NEW c \in Calls, ReportWallet(c) \/ ReportTransfer(c) \/ ReportMint(c)
    PROVE  ApiInv' /\ OnlyCall(c)
<1>0. Shapes /\ CallOf(c) /\ pc[c] \in Reports
  BY DEF ApiInv, ReportWallet, ReportTransfer, ReportMint, Reports
<1>1. open[c] = {} /\ pc[c] \in (Early \cup Reports) \ {"idle"} /\ req[c] \in Requests
  BY <1>0 DEF CallOf, ControlOf, Reports, Early
<1>2. UNCHANGED <<db, rest, result>>
  BY DEF ReportWallet, ReportTransfer, ReportMint
<1>3. CASE ReportWallet(c)
  <2>1. Kind(c) \in {"created", "reused"}
    BY <1>0, <1>3 DEF CallOf, ToldOf, ReportWallet
  <2>2. counter' \in [Outcomes -> Nat]
    BY <1>0, <1>3 DEF ReportWallet, Count, WalletOutcome, Shapes, Outcomes
  <2>3. \/ LogThenRespond(c, 201) /\ Kind(c) = "created"
        \/ LogThenRespond(c, 200)
    BY <1>3 DEF ReportWallet, Kind
  <2> QED BY <1>1, <1>2, <2>1, <2>2, <2>3, AnswerStep DEF db, money, rest, Codes
<1>4. CASE ReportTransfer(c)
  <2>1. Kind(c) \in {"succeeded", "declined", "replay", "conflict"}
    BY <1>0, <1>4 DEF CallOf, ToldOf, ReportTransfer
  <2>2. req[c].amt \in Nat
    BY <1>0, <1>1, <1>4, ApiAssumption DEF CallOf, CheckedOf, ReportTransfer, Valid
  <2>3. counter' \in [Outcomes -> Nat]
    <3> DEFINE moved == IF Kind(c) = "succeeded" THEN req[c].amt ELSE 0
    <3>1. moved \in Nat
      BY <2>2
    <3>2. counter' = [counter EXCEPT ![Kind(c)] = @ + 1, !["paiseMoved"] = @ + moved]
      BY <1>4 DEF ReportTransfer, TransferOutcome, Kind
    <3>3. counter \in [Outcomes -> Nat]
      BY <1>0 DEF Shapes
    <3> HIDE DEF moved
    <3> QED BY <2>1, <3>1, <3>2, <3>3 DEF Outcomes
  <2>4. \/ LogThenRespond(c, 201) /\ Kind(c) # "conflict"
        \/ LogThenRespond(c, 409) /\ Kind(c) = "conflict"
    BY <1>4 DEF ReportTransfer, TransferOutcome, TransferStatus, Kind
  <2> QED BY <1>1, <1>2, <2>1, <2>3, <2>4, AnswerStep DEF db, money, rest, Codes
<1>5. CASE ReportMint(c)
  <2>1. Kind(c) \in {"minted", "mintReplay"}
    BY <1>0, <1>5 DEF CallOf, ToldOf, ReportMint
  <2>2. req[c].amt \in Nat
    BY <1>0, <1>1, <1>5, ApiAssumption DEF CallOf, CheckedOf, ReportMint, ValidMint
  <2>3. counter' \in [Outcomes -> Nat]
    BY <1>0, <1>5, <2>2 DEF ReportMint, Shapes, Outcomes
  <2>4. LogThenRespond(c, 200)
    BY <1>5 DEF ReportMint
  <2> QED BY <1>1, <1>2, <2>1, <2>3, <2>4, AnswerStep DEF db, money, rest, Codes
<1> QED BY <1>3, <1>4, <1>5

-----------------------------------------------------------------------------
(* First use.                                                              *)

\* A token or an owner that no open statement of another call holds is not about
\* to be committed by one.
LEMMA NotTaken ==
    ASSUME ApiInv, NEW c \in Calls, NEW d \in Calls \ {c}, NEW v
    PROVE  /\ ~Taken(c, "token", v) /\ pc[d] = "userCommit" => req[d].token # v
           /\ ~Taken(c, "owner", v) /\ pc[d] = "walletCommit" => user[d] # v
<1>1. CallOf(d)
  BY DEF ApiInv
<1>2. pc[d] = "userCommit" => open[d] = {[id |-> d, token |-> req[d].token]}
  BY <1>1 DEF CallOf, ControlOf
<1>3. pc[d] = "walletCommit" => open[d] = {[id |-> d, owner |-> user[d]]}
  BY <1>1 DEF CallOf, ControlOf, Owned
<1>4. ASSUME NEW f, NEW row \in open[d], f \in DOMAIN row, row[f] = v PROVE Taken(c, f, v)
  BY <1>4 DEF Taken
<1>5. ASSUME pc[d] = "userCommit", req[d].token = v PROVE Taken(c, "token", v)
  <2> DEFINE row == [id |-> d, token |-> v]
  <2>1. "token" \in DOMAIN row /\ row["token"] = v
    OBVIOUS
  <2>2. row \in open[d]
    BY <1>2, <1>5
  <2> HIDE DEF row
  <2> QED BY <1>4, <2>1, <2>2
<1>6. ASSUME pc[d] = "walletCommit", user[d] = v PROVE Taken(c, "owner", v)
  <2> DEFINE row == [id |-> d, owner |-> v]
  <2>1. "owner" \in DOMAIN row /\ row["owner"] = v
    OBVIOUS
  <2>2. row \in open[d]
    BY <1>3, <1>6
  <2> HIDE DEF row
  <2> QED BY <1>4, <2>1, <2>2
<1> QED BY <1>5, <1>6

\* A statement inserts a row of users, or of wallets.
LEMMA InsertStep ==
    ASSUME ApiInv, NEW c \in Calls, InsertUser(c) \/ InsertWallet(c)
    PROVE  ApiInv' /\ OnlyCall(c)
<1>0. Shapes /\ CallOf(c) /\ pc[c] \in {"upsert", "wallets"}
  BY DEF ApiInv, InsertUser, InsertWallet
<1>1. /\ pc[c] = "upsert" => pc'[c] = "userCommit"
      /\ pc[c] = "wallets" => pc'[c] = "walletCommit"
      /\ Others(c) /\ status'[c] = status[c]
  BY <1>0, GotoShape DEF InsertUser, InsertWallet
<1>2. Touches(c) /\ UNCHANGED <<users, wallets, money, rest, result>>
  BY <1>0 DEF InsertUser, InsertWallet, Touches, Shapes, rest
<1>3. OnlyCall(c)
  BY <1>1, <1>2 DEF OnlyCall, Others, Touches, money
<1>4. UniqueInv'
  <2>1. UniqueInv /\ req' = req /\ user' = user /\ users' = users /\ wallets' = wallets
    BY <1>2 DEF ApiInv, rest
  <2>2. CASE InsertUser(c)
    <3>1. /\ pc[c] = "upsert" /\ ~Taken(c, "token", req[c].token)
          /\ \A u \in users : u.token # req[c].token
      BY <2>2 DEF InsertUser
    <3>2. \A d \in Calls \ {c} : pc'[d] = "userCommit" => req[d].token # req[c].token
      BY <1>3, <3>1, NotTaken DEF OnlyCall
    <3> QED BY <1>1, <1>3, <2>1, <3>1, <3>2 DEF UniqueInv, OnlyCall
  <2>3. CASE InsertWallet(c)
    <3>1. /\ pc[c] = "wallets" /\ ~Taken(c, "owner", user[c])
          /\ \A w \in wallets : w.owner # user[c]
      BY <2>3 DEF InsertWallet
    <3>2. \A d \in Calls \ {c} : pc'[d] = "walletCommit" => user[d] # user[c]
      BY <1>3, <3>1, NotTaken DEF OnlyCall
    <3> QED BY <1>1, <1>3, <2>1, <3>1, <3>2 DEF UniqueInv, OnlyCall
  <2> QED BY <2>2, <2>3
<1>5. Shapes' /\ TableInv'
  BY <1>1, <1>2 DEF ApiInv, Shapes, Others, Touches, TableInv, OwnerMoves, money
<1>6. req'[c] \in Requests
  BY <1>0, <1>2 DEF CallOf, ControlOf, rest
<1>7. CheckedOf(c)'
  BY <1>0, <1>1, <1>2 DEF CallOf, CheckedOf, Known, rest
<1>8. open'[c] = CASE pc'[c] = "userCommit" -> {[id |-> c, token |-> req'[c].token]}
                   [] pc'[c] = "walletCommit" -> {[id |-> c, owner |-> user'[c]]}
                   [] OTHER -> {}
  <2>1. CASE InsertUser(c)
    BY <1>0, <1>1, <1>2, <2>1 DEF InsertUser, Shapes, rest
  <2>2. CASE InsertWallet(c)
    BY <1>0, <1>1, <1>2, <2>2 DEF InsertWallet, Shapes, rest
  <2> QED BY <2>1, <2>2
<1>9. CallOf(c)'
  <2>1. pc[c] \in Early /\ pc'[c] \in Early
    BY <1>0, <1>1 DEF Early
  <2> QED BY <1>0, <1>1, <1>2, <1>6, <1>7, <1>8, <2>1, EarlyStep DEF money
<1> QED BY <1>3, <1>4, <1>5, <1>9, Assemble DEF Rest

\* What a committed row of first use does to the tables: the row of c's open
\* statement, and c is no longer at its insert.
LEMMA InsertedRest ==
    ASSUME ApiInv, NEW c \in Calls, pc[c] \in {"userCommit", "walletCommit"},
           pc'[c] \notin {"userCommit", "walletCommit"}, Others(c), Touches(c),
           UNCHANGED <<money, req>>,
           \/ pc[c] = "userCommit" /\ users' = users \cup open[c] /\ UNCHANGED wallets
           \/ pc[c] = "walletCommit" /\ wallets' = wallets \cup open[c] /\ UNCHANGED users
    PROVE  Rest(c)
<1>0. Shapes /\ CallOf(c) /\ UniqueInv /\ TableInv
  BY DEF ApiInv
<1>1. /\ pc[c] = "userCommit" => open[c] = {[id |-> c, token |-> req[c].token]}
      /\ pc[c] = "walletCommit" => open[c] = {Owned(c)}
  BY <1>0 DEF CallOf, ControlOf
<1>2. OnlyCall(c)
  BY <1>1 DEF OnlyCall, Others, Touches, money, Owned
<1>3. Shapes'
  BY DEF Shapes, Others, Touches
<1>4. TableInv'
  <2>1. c \in WalletIds
    BY DEF WalletIds
  <2>2. \A w \in wallets' : w.id \in WalletIds
    BY <1>0, <1>1, <2>1 DEF TableInv, Owned
  <2>3. OwnerMoves'
    BY <1>0, <1>2 DEF TableInv, OwnerMoves, OnlyCall, money
  <2> QED BY <1>0, <2>2, <2>3 DEF TableInv, money
<1>5. UniqueInv'
  <2>1. CASE pc[c] = "userCommit"
    <3>1. users' = users \cup {[id |-> c, token |-> req[c].token]} /\ wallets' = wallets
      BY <1>1, <2>1
    <3>2. \A u \in users : u.token # req[c].token
      BY <1>0, <2>1 DEF UniqueInv
    <3>3. \A u, v \in users' : u.token = v.token => u = v
      BY <1>0, <3>1, <3>2 DEF UniqueInv
    <3>4. \A d \in Calls \ {c} : pc[d] = "userCommit" => req[d].token # req[c].token
      BY <1>0, <2>1 DEF UniqueInv
    <3>5. \A d \in Calls : pc'[d] = "userCommit" => \A u \in users' : u.token # req'[d].token
      BY <1>0, <1>2, <3>1, <3>4 DEF UniqueInv, OnlyCall
    <3> QED BY <1>0, <1>2, <3>1, <3>3, <3>5 DEF UniqueInv, OnlyCall
  <2>2. CASE pc[c] = "walletCommit"
    <3>1. wallets' = wallets \cup {[id |-> c, owner |-> user[c]]} /\ users' = users
      BY <1>1, <2>2 DEF Owned
    <3>2. \A w \in wallets : w.owner # user[c]
      BY <1>0, <2>2 DEF UniqueInv
    <3>3. \A w, x \in wallets' : w.owner = x.owner => w = x
      BY <1>0, <3>1, <3>2 DEF UniqueInv
    <3>4. \A d \in Calls \ {c} : pc[d] = "walletCommit" => user[d] # user[c]
      BY <1>0, <2>2 DEF UniqueInv
    <3>5. \A d \in Calls : pc'[d] = "walletCommit" => \A w \in wallets' : w.owner # user'[d]
      BY <1>0, <1>2, <3>1, <3>4 DEF UniqueInv, OnlyCall
    <3> QED BY <1>0, <1>2, <3>1, <3>3, <3>5 DEF UniqueInv, OnlyCall
  <2> QED BY <2>1, <2>2
<1> QED BY <1>2, <1>3, <1>4, <1>5 DEF Rest

\* The row of users is committed: the call is authenticated as a new user.
LEMMA CommitUserStep ==
    ASSUME ApiInv, NEW c \in Calls, CommitUser(c)
    PROVE  ApiInv' /\ OnlyCall(c)
<1>0. Shapes /\ CallOf(c) /\ pc[c] = "userCommit"
  BY DEF ApiInv, CommitUser
<1>1. req[c] \in Requests /\ open[c] = {[id |-> c, token |-> req[c].token]}
  BY <1>0 DEF CallOf, ControlOf
<1>2. req[c].route \in {"wallets", "transfer", "mint", "getWallet", "getTransfer"}
  BY <1>1, ApiAssumption
<1>3. Others(c) /\ pc'[c] = req[c].route /\ status'[c] = status[c]
  BY <1>0, GotoShape DEF CommitUser
<1>4. Touches(c) /\ UNCHANGED <<money, req, result, wallets>> /\ open'[c] = {} /\ user'[c] = c
  BY <1>0 DEF CommitUser, Touches, Shapes
<1>5. Rest(c)
  BY <1>0, <1>2, <1>3, <1>4, InsertedRest DEF CommitUser
<1>6. Known(c)'
  <2> DEFINE u == [id |-> c, token |-> req[c].token]
  <2>1. u \in users' /\ u.id = user'[c] /\ u.token = req'[c].token
    BY <1>1, <1>4 DEF CommitUser
  <2> HIDE DEF u
  <2> QED BY <2>1 DEF Known
<1>7. CheckedOf(c)'
  BY <1>2, <1>3, <1>4, <1>6 DEF CheckedOf
<1>8. CallOf(c)'
  <2>1. pc[c] \in Early /\ pc'[c] \in Early /\ pc'[c] \notin {"userCommit", "walletCommit"}
    BY <1>0, <1>2, <1>3 DEF Early
  <2> QED BY <1>0, <1>1, <1>3, <1>4, <1>7, <2>1, EarlyStep DEF money
<1> QED BY <1>5, <1>8, Assemble

\* The row of wallets is committed, or was there: the call is told which.
LEMMA HaveWalletStep ==
    ASSUME ApiInv, NEW c \in Calls, CommitWallet(c) \/ FoundWallet(c)
    PROVE  ApiInv' /\ OnlyCall(c)
<1>0. Shapes /\ CallOf(c) /\ pc[c] \in {"walletCommit", "wallets"}
  BY DEF ApiInv, CommitWallet, FoundWallet
<1>1. /\ req[c] \in Requests /\ status[c] = 0 /\ Kind(c) = "none"
      /\ req[c].route = "wallets" /\ Known(c)
  BY <1>0 DEF CallOf, ControlOf, CheckedOf, ToldOf, Early, Late
<1>2. Others(c) /\ pc'[c] = "reportWallet" /\ status'[c] = 0 /\ panics' = panics
  BY <1>0, <1>1, GotoShape DEF CommitWallet, FoundWallet
<1>3. Touches(c) /\ UNCHANGED <<money, rest, users>>
  BY <1>0 DEF CommitWallet, FoundWallet, Touches, Shapes, rest, db, money, Return
<1>4. open'[c] = {}
  BY <1>0 DEF CommitWallet, FoundWallet, Shapes, db, CallOf, ControlOf
<1>5. /\ Rest(c) /\ Told(c)' /\ Kind(c)' \in {"created", "reused"}
      /\ Kind(c)' = "created" => WalletRow(c)' = {Owned(c)}
      /\ Kind(c)' = "reused" => WalletRow(c)' = {}
  <2>1. CASE CommitWallet(c)
    <3>1. pc[c] = "walletCommit" /\ open[c] = {Owned(c)} /\ wallets' = wallets \cup {Owned(c)}
      BY <1>0, <2>1 DEF CallOf, ControlOf, CommitWallet
    <3>2. result'[c] = [kind |-> "created", rows |-> {Owned(c)}]
      BY <1>0, <2>1, <3>1 DEF CommitWallet, Return, Shapes
    <3>3. Told(c)' /\ Kind(c)' = "created"
      <4>1. Owned(c).owner = user'[c] /\ Owned(c).id = c /\ Owned(c) \in wallets'
        BY <1>3, <3>1 DEF Owned, rest
      <4>2. result'[c].rows = {Owned(c)} /\ result'[c].kind = "created"
        BY <3>2
      <4> QED BY <4>1, <4>2 DEF Told, Kind
    <3>4. Rest(c)
      BY <1>2, <1>3, <2>1, <3>1, InsertedRest DEF CommitWallet, rest
    <3>5. WalletRow(c)' = {Owned(c)}
      BY <1>0, <1>1, <3>1 DEF CallOf, RowsOf, WalletRow, Owned
    <3> QED BY <3>3, <3>4, <3>5
  <2>2. CASE FoundWallet(c)
    <3>1. PICK w \in wallets : w.owner = user[c] /\ Return(c, "reused", {w})
      BY <2>2 DEF FoundWallet
    <3>2. result'[c] = [kind |-> "reused", rows |-> {w}] /\ wallets' = wallets
      BY <1>0, <2>2, <3>1 DEF FoundWallet, Return, Shapes, db
    <3>3. Told(c)' /\ Kind(c)' = "reused"
      BY <1>3, <3>1, <3>2 DEF Told, Kind, rest
    <3>4. Rest(c)
      BY <1>2, <1>3, <2>2, LocalRest DEF FoundWallet, db, money
    <3>5. WalletRow(c)' = {}
      BY <1>0, <1>1, <3>2 DEF CallOf, RowsOf, WalletRow
    <3> QED BY <3>3, <3>4, <3>5
  <2> QED BY <2>1, <2>2
<1>6. Known(c)' /\ req'[c] = req[c] /\ Owned(c)' = Owned(c)
  BY <1>1, <1>3 DEF Known, Owned, rest
<1>7. ControlOf(c)' /\ CheckedOf(c)'
  BY <1>1, <1>2, <1>4, <1>6 DEF ControlOf, CheckedOf, Early, Reports, Late
<1>8. ToldOf(c)'
  BY <1>1, <1>2, <1>5, <1>6 DEF ToldOf, Early
<1>9. RowsOf(c)'
  <2>1. TransferRow(c)' = {} /\ MintRow(c)' = {}
    BY <1>0, <1>1, <1>3 DEF CallOf, RowsOf, TransferRow, MintRow, money
  <2> QED BY <1>5, <1>6, <2>1 DEF RowsOf
<1> QED BY <1>5, <1>7, <1>8, <1>9, Assemble DEF CallOf

\* The row is committed but the call hears of an error.
LEMMA InsertReplyLostStep ==
    ASSUME ApiInv, NEW c \in Calls, InsertReplyLost(c)
    PROVE  ApiInv' /\ OnlyCall(c)
<1>0. Shapes /\ CallOf(c) /\ pc[c] \in {"userCommit", "walletCommit"}
  BY DEF ApiInv, InsertReplyLost
<1>1. Others(c) /\ Ends(c, 500)
  BY <1>0, EndShape DEF InsertReplyLost
<1>2. /\ Touches(c) /\ UNCHANGED <<money, req>> /\ open'[c] = {} /\ req'[c] = req[c]
      /\ result'[c].kind = "error"
  BY <1>0 DEF InsertReplyLost, Touches, Shapes, rest, Return
<1>3. Rest(c)
  BY <1>0, <1>1, <1>2, InsertedRest DEF InsertReplyLost, Ends
<1>4. CallOf(c)'
  BY <1>0, <1>1, <1>2, LostStep DEF Early, Shapes
<1> QED BY <1>3, <1>4, Assemble

-----------------------------------------------------------------------------
(* Money.                                                                  *)

\* The store settles the order of c: one new row, and balances in range.
LEMMA Settles ==
    ASSUME ApiInv, NEW c \in Calls, pc[c] = "store", Moves(c)
    PROVE  /\ \E s \in {"succeeded", "declined"} :
                 transfers' = transfers \cup {Settled(c, s)} /\ NewRows = {Settled(c, s)}
           /\ balance' \in [WalletIds -> 0..MaxInt]
           /\ UNCHANGED mints
<1> DEFINE o == Order(c)
<1>0. CallOf(c) /\ TableInv
  BY DEF ApiInv
<1>1. /\ req[c] \in Requests /\ Valid(req[c]) /\ req[c].from \in WalletIds
      /\ req[c].to \in WalletIds
  BY <1>0 DEF CallOf, ControlOf, CheckedOf, TableInv
<1>2. /\ o.amt = req[c].amt /\ o.from = req[c].from /\ o.to = req[c].to
      /\ o.user = user[c] /\ o.key = req[c].key
  BY DEF Order
<1>3. req[c].amt \in Int /\ req[c].amt > 0 /\ MaxInt \in Nat
      /\ balance \in [WalletIds -> 0..MaxInt]
  BY <1>0, <1>1, ApiAssumption DEF Valid, TableInv
<1>4. ASSUME NEW s PROVE Settled(c, s).user = o.user /\ Settled(c, s).key = o.key
                         /\ Settled(c, s).from = o.from /\ Settled(c, s).to = o.to
                         /\ Settled(c, s).amt = o.amt
  BY DEF Settled, L!TransferRow
<1>5. L!KeyIsFree(o)
  BY DEF Moves, L!Succeed, L!Decline
<1>6. \A s : Settled(c, s) \notin transfers
  BY <1>4, <1>5 DEF L!KeyIsFree
<1>7. CASE L!Succeed(c, o)
  <2> DEFINE t == Settled(c, "succeeded")
  <2>1. transfers' = transfers \cup {t} /\ balance' = L!Moved(balance, t) /\ mints' = mints
    BY <1>7 DEF L!Succeed, Settled
  <2>2. balance[o.from] >= o.amt /\ balance[o.to] + o.amt <= MaxInt /\ o.from # o.to
    BY <1>7 DEF L!Succeed
  <2>3. t.from = req[c].from /\ t.to = req[c].to /\ t.amt = req[c].amt
    BY <1>2, <1>4
  <2> HIDE DEF t
  <2>4. balance' = [balance EXCEPT ![t.from] = @ - t.amt, ![t.to] = @ + t.amt]
    BY <2>1 DEF L!Moved
  <2>5. balance' \in [WalletIds -> 0..MaxInt]
    BY <1>1, <1>2, <1>3, <2>2, <2>3, <2>4
  <2>6. NewRows = {t} /\ t = Settled(c, "succeeded")
    BY <1>6, <2>1 DEF NewRows, t
  <2> QED BY <2>1, <2>5, <2>6
<1>8. CASE L!Decline(c, o)
  <2>1. /\ transfers' = transfers \cup {Settled(c, "declined")} /\ balance' = balance
        /\ mints' = mints
    BY <1>8 DEF L!Decline, Settled
  <2> QED BY <1>3, <1>6, <2>1 DEF NewRows
<1> QED BY <1>7, <1>8 DEF Moves

\* The rest of the invariant after the store has settled the order of c.
LEMMA SettledRest ==
    ASSUME ApiInv, NEW c \in Calls, pc[c] = "store", Moves(c), Others(c), Touches(c),
           UNCHANGED <<users, wallets, req, user>>,
           pc'[c] \notin {"userCommit", "walletCommit"}
    PROVE  Rest(c)
<1>0. CallOf(c) /\ TableInv /\ UniqueInv
  BY DEF ApiInv
<1>1. PICK s \in {"succeeded", "declined"} : transfers' = transfers \cup {Settled(c, s)}
  BY Settles
<1>2. balance' \in [WalletIds -> 0..MaxInt] /\ mints' = mints
  BY Settles
<1> DEFINE t == Settled(c, s)
<1>3. /\ t.id = c /\ t.status = s /\ t.user = user[c]
      /\ t.from = req[c].from /\ t.to = req[c].to /\ t.fp = <<t.from, t.to, t.amt>>
  BY DEF Settled, Order, L!TransferRow
<1> HIDE DEF t
<1>4. transfers' = transfers \cup {t}
  BY <1>1 DEF t
<1>5. OnlyCall(c)
  BY <1>2, <1>3, <1>4 DEF OnlyCall, Others, Touches
<1>6. Shapes'
  BY DEF Shapes, Others, Touches
<1>7. UniqueInv'
  BY <1>0, <1>5 DEF UniqueInv, OnlyCall
<1>8. OwnerMoves'
  <2>1. /\ \E w \in wallets : w.id = t.from /\ w.owner = t.user
        /\ \E w \in wallets : w.id = t.to
    BY <1>0, <1>3 DEF CallOf, CheckedOf
  <2> QED BY <1>0, <1>2, <1>4, <2>1 DEF TableInv, OwnerMoves
<1>9. TableInv'
  BY <1>0, <1>2, <1>3, <1>4, <1>8 DEF TableInv
<1> QED BY <1>5, <1>6, <1>7, <1>9 DEF Rest

\* A transfer that took effect, heard of or not.
LEMMA TransferStep ==
    ASSUME ApiInv, NEW c \in Calls, TransferFresh(c) \/ TransferReplyLost(c)
    PROVE  ApiInv' /\ OnlyCall(c)
<1>0. Shapes /\ CallOf(c) /\ pc[c] = "store" /\ Moves(c)
  BY DEF ApiInv, TransferFresh, TransferReplyLost
<1>1. /\ req[c] \in Requests /\ status[c] = 0 /\ Kind(c) = "none" /\ open[c] = {}
      /\ req[c].route = "transfer" /\ Valid(req[c])
  BY <1>0 DEF CallOf, ControlOf, CheckedOf, ToldOf, Early, Late
<1>2. Touches(c) /\ UNCHANGED <<users, wallets, open, req, user>>
  BY <1>0 DEF TransferFresh, TransferReplyLost, Touches, Shapes, rest, Return
<1>3. CASE TransferReplyLost(c)
  <2>1. Others(c) /\ Ends(c, 500)
    BY <1>0, <1>3, EndShape DEF TransferReplyLost
  <2>2. result'[c].kind = "error"
    BY <1>0, <1>3 DEF TransferReplyLost, Return, Shapes
  <2>3. Rest(c)
    BY <1>0, <1>2, <2>1, SettledRest DEF Ends
  <2>4. CallOf(c)'
    BY <1>0, <1>1, <1>2, <2>1, <2>2, LostStep DEF Early, Shapes
  <2> QED BY <2>3, <2>4, Assemble
<1>4. CASE TransferFresh(c)
  <2>1. Others(c) /\ pc'[c] = "report" /\ status'[c] = 0 /\ panics' = panics
    BY <1>0, <1>1, <1>4, GotoShape DEF TransferFresh
  <2>2. Rest(c)
    BY <1>0, <1>2, <2>1, SettledRest
  <2>3. PICK s \in {"succeeded", "declined"} :
            transfers' = transfers \cup {Settled(c, s)} /\ NewRows = {Settled(c, s)}
    BY <1>0, Settles
  <2>4. mints' = mints
    BY <1>0, Settles
  <2>5. StatusOf(NewRows) = s
    <3>1. StatusOf(NewRows) = Settled(c, s).status
      BY <2>3 DEF StatusOf
    <3> QED BY <3>1 DEF Settled, L!TransferRow
  <2>6. Kind(c)' = s
    BY <1>0, <1>4, <2>5 DEF TransferFresh, Return, Kind, Shapes
  <2>7. Order(c)' = Order(c) /\ \A z : Settled(c, z)' = Settled(c, z)
    BY <1>2 DEF Order, Settled, L!TransferRow
  <2>8. Stands(c)'
    <3>1. /\ Settled(c, s) \in transfers'
          /\ Settled(c, s).user = user'[c] /\ Settled(c, s).key = req'[c].key
          /\ Settled(c, s).from = req'[c].from /\ Settled(c, s).to = req'[c].to
          /\ Settled(c, s).amt = req'[c].amt
      BY <1>2, <2>3 DEF Settled, Order, L!TransferRow
    <3> QED BY <3>1 DEF Stands
  <2>9. ControlOf(c)' /\ CheckedOf(c)'
    BY <1>1, <1>2, <2>1 DEF ControlOf, CheckedOf, Early, Reports, Late, Valid
  <2>10. ToldOf(c)'
    BY <1>1, <2>1, <2>6, <2>8 DEF ToldOf, Early
  <2>11. RowsOf(c)'
    <3>1. TransferRow(c) = {} /\ WalletRow(c) = {} /\ MintRow(c) = {}
      BY <1>0, <1>1 DEF CallOf, RowsOf
    <3>2. Settled(c, s).id = c
      BY DEF Settled, L!TransferRow
    <3>3. TransferRow(c)' = {Settled(c, s)}
      BY <2>3, <3>1, <3>2 DEF TransferRow
    <3>4. WalletRow(c)' = {} /\ MintRow(c)' = {}
      BY <1>2, <2>4, <3>1 DEF WalletRow, MintRow
    <3> QED BY <2>6, <2>7, <3>3, <3>4 DEF RowsOf
  <2> QED BY <2>2, <2>9, <2>10, <2>11, Assemble DEF CallOf
<1> QED BY <1>3, <1>4

\* What the store finds is reported without changing a row.
LEMMA HeardStep ==
    ASSUME ApiInv, NEW c \in Calls, TransferAgain(c) \/ MintAgain(c)
    PROVE  ApiInv' /\ OnlyCall(c)
<1>0. Shapes /\ CallOf(c) /\ TableInv /\ pc[c] \in {"store", "fund"}
  BY DEF ApiInv, TransferAgain, MintAgain
<1>1. req[c] \in Requests /\ status[c] = 0 /\ Kind(c) = "none" /\ open[c] = {}
  BY <1>0 DEF CallOf, ControlOf, ToldOf, Early, Late
<1>2. Touches(c) /\ UNCHANGED <<db, rest>>
  BY <1>0 DEF TransferAgain, MintAgain, Touches, Shapes, rest, Return, db
<1>3. Others(c) /\ pc'[c] \in {"report", "reportMint"} /\ status'[c] = 0
  BY <1>0, <1>1, GotoShape DEF TransferAgain, MintAgain
<1>4. Rest(c)
  BY <1>2, <1>3, LocalRest DEF db
<1>5. /\ pc[c] = "store" => pc'[c] = "report" /\ Kind(c)' \in {"replay", "conflict"}
      /\ pc[c] = "fund" => pc'[c] = "reportMint" /\ Kind(c)' = "mintReplay"
  BY <1>0, GotoShape DEF TransferAgain, MintAgain, Return, Kind, Shapes
<1>6. Kind(c)' = "replay" => Stands(c)'
  <2> SUFFICES ASSUME Kind(c)' = "replay" PROVE Stands(c)'
    OBVIOUS
  <2>1. TransferAgain(c) /\ \A t \in KeyRow(Order(c)) : SameRequest(t, Order(c))
    BY <1>0, <1>5 DEF TransferAgain, MintAgain, Return, Kind, Shapes
  <2>2. PICK t \in transfers : /\ t.user = user[c] /\ t.key = req[c].key
                               /\ t.fp = <<req[c].from, req[c].to, req[c].amt>>
    BY <2>1 DEF TransferAgain, KeyRow, SameRequest, Order
  <2>3. t.fp = <<t.from, t.to, t.amt>>
    BY <1>0 DEF TableInv
  <2> QED BY <1>2, <2>2, <2>3 DEF Stands, db, rest
<1>7. ControlOf(c)' /\ CheckedOf(c)'
  <2>1. req' = req /\ open' = open
    BY <1>2 DEF db, rest
  <2>2. /\ pc[c] = "store" => req[c].route = "transfer" /\ Valid(req[c])
        /\ pc[c] = "fund" => ValidMint(req[c])
    BY <1>0 DEF CallOf, CheckedOf
  <2> QED BY <1>0, <1>1, <1>3, <1>5, <2>1, <2>2
          DEF ControlOf, CheckedOf, Early, Reports, Late, Valid, ValidMint
<1>8. ToldOf(c)'
  BY <1>0, <1>3, <1>5, <1>6 DEF ToldOf, Early
<1>9. RowsOf(c)'
  BY <1>0, <1>1, <1>2, <1>5 DEF CallOf, RowsOf, TransferRow, WalletRow, MintRow, db
<1> QED BY <1>4, <1>7, <1>8, <1>9, Assemble DEF CallOf

\* A mint that took effect, heard of or not.
LEMMA GrantStep ==
    ASSUME ApiInv, NEW c \in Calls, MintFresh(c) \/ MintReplyLost(c)
    PROVE  ApiInv' /\ OnlyCall(c)
<1>0. /\ Shapes /\ CallOf(c) /\ TableInv /\ UniqueInv /\ pc[c] = "fund"
      /\ L!Grant(c, GrantOf(c)) /\ WalletRow(req[c].to) # {}
  BY DEF ApiInv, MintFresh, MintReplyLost
<1>1. /\ req[c] \in Requests /\ status[c] = 0 /\ Kind(c) = "none" /\ open[c] = {}
      /\ ValidMint(req[c])
  BY <1>0 DEF CallOf, ControlOf, CheckedOf, ToldOf, Early, Late
<1>2. Touches(c) /\ UNCHANGED <<users, wallets, open, req, user>>
  BY <1>0 DEF MintFresh, MintReplyLost, Touches, Shapes, rest, Return
<1>3. /\ mints' = mints \cup {Granted(c)} /\ UNCHANGED transfers
      /\ balance' = [balance EXCEPT ![req[c].to] = @ + req[c].amt]
      /\ balance[req[c].to] + req[c].amt <= MaxInt
  BY <1>0 DEF L!Grant, GrantOf, Granted
<1>4. balance' \in [WalletIds -> 0..MaxInt]
  <2>1. req[c].to \in WalletIds
    BY <1>0 DEF TableInv, WalletRow
  <2>2. req[c].amt \in Int /\ req[c].amt > 0 /\ MaxInt \in Nat
    BY <1>1, ApiAssumption DEF ValidMint
  <2>3. balance \in [WalletIds -> 0..MaxInt]
    BY <1>0 DEF TableInv
  <2> QED BY <1>3, <2>1, <2>2, <2>3
<1>5. Granted(c).id = c /\ Granted(c).wallet = req[c].to
  BY DEF Granted
<1>6. ASSUME Others(c), pc'[c] \notin {"userCommit", "walletCommit"} PROVE Rest(c)
  <2>1. OnlyCall(c)
    BY <1>2, <1>3, <1>5, <1>6 DEF OnlyCall, Others, Touches
  <2>2. Shapes'
    BY <1>2, <1>6 DEF Shapes, Others, Touches
  <2>3. UniqueInv'
    BY <1>0, <1>2, <1>6, <2>1 DEF UniqueInv, OnlyCall
  <2>4. OwnerMoves'
    BY <1>0, <1>2, <1>3, <1>5 DEF TableInv, OwnerMoves, WalletRow
  <2>5. TableInv'
    BY <1>0, <1>2, <1>3, <1>4, <2>4 DEF TableInv
  <2> QED BY <2>1, <2>2, <2>3, <2>5 DEF Rest
<1>7. CASE MintReplyLost(c)
  <2>1. Others(c) /\ Ends(c, 500)
    BY <1>0, <1>7, EndShape DEF MintReplyLost
  <2>2. result'[c].kind = "error"
    BY <1>0, <1>7 DEF MintReplyLost, Return, Shapes
  <2>3. CallOf(c)'
    BY <1>0, <1>1, <1>2, <2>1, <2>2, LostStep DEF Early, Shapes
  <2> QED BY <1>6, <2>1, <2>3, Assemble DEF Ends
<1>8. CASE MintFresh(c)
  <2>1. Others(c) /\ pc'[c] = "reportMint" /\ status'[c] = 0
    BY <1>0, <1>1, <1>8, GotoShape DEF MintFresh
  <2>2. Kind(c)' = "minted"
    BY <1>0, <1>8 DEF MintFresh, Return, Kind, Shapes
  <2>3. ControlOf(c)' /\ CheckedOf(c)'
    BY <1>1, <1>2, <2>1 DEF ControlOf, CheckedOf, Early, Reports, Late, ValidMint
  <2>4. ToldOf(c)'
    BY <2>1, <2>2 DEF ToldOf, Early
  <2>5. RowsOf(c)'
    <3>1. TransferRow(c) = {} /\ WalletRow(c) = {} /\ MintRow(c) = {}
      BY <1>0, <1>1 DEF CallOf, RowsOf
    <3>2. MintRow(c)' = {Granted(c)}
      BY <1>3, <1>5, <3>1 DEF MintRow
    <3>3. TransferRow(c)' = {} /\ WalletRow(c)' = {} /\ Granted(c)' = Granted(c)
      BY <1>2, <1>3, <3>1 DEF TransferRow, WalletRow, Granted
    <3> QED BY <2>2, <3>2, <3>3 DEF RowsOf
  <2> QED BY <1>6, <2>1, <2>3, <2>4, <2>5, Assemble DEF CallOf
<1> QED BY <1>7, <1>8

\* The two point reads.
LEMMA ReadStep ==
    ASSUME ApiInv, NEW c \in Calls, GetWallet(c) \/ GetTransfer(c)
    PROVE  ApiInv' /\ OnlyCall(c)
<1>0. Shapes /\ CallOf(c) /\ pc[c] \in {"getWallet", "getTransfer"}
  BY DEF ApiInv, GetWallet, GetTransfer
<1>1. req[c] \in Requests /\ Kind(c) = "none" /\ open[c] = {}
  BY <1>0 DEF CallOf, ControlOf, ToldOf, Early
<1>2. Touches(c) /\ UNCHANGED <<db, rest>> /\ Kind(c)' = "read"
  BY <1>0 DEF GetWallet, GetTransfer, Touches, Shapes, rest, Return, db, Kind
<1>3. PICK code \in {200, 404} : LogThenRespond(c, code) /\ Respond(c, code)
  BY DEF GetWallet, GetTransfer, LogThenRespond
<1>4. Others(c) /\ pc'[c] = "observe" /\ status'[c] \in {200, 404}
  BY <1>0, <1>3, EndShape DEF Respond, Write, Shapes
<1>5. Rest(c)
  BY <1>2, <1>4, LocalRest DEF db
<1>6. ControlOf(c)' /\ CheckedOf(c)' /\ ToldOf(c)'
  <2>1. req' = req /\ open' = open
    BY <1>2 DEF db, rest
  <2> QED BY <1>1, <1>2, <1>4, <2>1
          DEF ControlOf, CheckedOf, ToldOf, Early, Reports, Late, Codes
<1>7. RowsOf(c)'
  BY <1>0, <1>1, <1>2 DEF CallOf, RowsOf, TransferRow, WalletRow, MintRow, db
<1> QED BY <1>5, <1>6, <1>7, Assemble DEF CallOf

-----------------------------------------------------------------------------
(* The invariant.                                                          *)

\* The server starts with the seed rows and no request.
LEMMA InitStep == Init => ApiInv
<1> SUFFICES ASSUME Init PROVE ApiInv
  OBVIOUS
<1>1. Shapes
  BY DEF Init, Shapes, Outcomes, Codes
<1>2. /\ balance = Seed /\ transfers = {} /\ wallets = SeedWallets /\ users = SeedUsers
      /\ mints = L!SeedMints
  BY DEF Init, L!Init
<1>3. \A m \in mints : m.id \in WalletIds \ Calls /\ m.wallet = m.id
  <2>1. \A w \in WalletIds : Seed[w] > 0 => w \notin Calls
    BY ApiAssumption
  <2> QED BY <1>2, <2>1 DEF L!SeedMints
<1>4. TableInv
  <2>1. \A m \in mints : \E w \in wallets : w.id = m.wallet
    BY <1>2, <1>3 DEF WalletIds
  <2>2. OwnerMoves
    BY <1>2, <2>1 DEF OwnerMoves
  <2> QED BY <1>2, <2>2, ApiAssumption DEF TableInv, WalletIds
<1>5. UniqueInv
  BY <1>2, ApiAssumption DEF Init, UniqueInv
<1>6. ASSUME NEW c \in Calls PROVE CallOf(c)
  <2>1. /\ pc[c] = "idle" /\ status[c] = 0 /\ open[c] = {} /\ Kind(c) = "none"
    BY DEF Init, Kind, Nothing
  <2>2. ControlOf(c) /\ CheckedOf(c) /\ ToldOf(c)
    BY <2>1 DEF ControlOf, CheckedOf, ToldOf, Early, Late
  <2>3. TransferRow(c) = {} /\ WalletRow(c) = {} /\ MintRow(c) = {}
    BY <1>2, <1>3, ApiAssumption DEF TransferRow, WalletRow, MintRow
  <2> QED BY <2>1, <2>2, <2>3 DEF CallOf, RowsOf
<1> QED BY <1>1, <1>4, <1>5, <1>6 DEF ApiInv

\* Nothing changes while nobody does anything.
LEMMA StutterStep == ASSUME ApiInv, UNCHANGED vars PROVE ApiInv'
<1>1. Shapes' /\ TableInv' /\ UniqueInv'
  BY DEF ApiInv, Shapes, TableInv, OwnerMoves, UniqueInv, vars
<1>2. ASSUME NEW c \in Calls PROVE CallOf(c)'
  <2>1. CallOf(c)
    BY DEF ApiInv
  <2>2. ControlOf(c)' /\ CheckedOf(c)'
    BY <2>1 DEF CallOf, ControlOf, CheckedOf, Known, Owned, Valid, ValidMint, vars
  <2>3. ToldOf(c)' /\ RowsOf(c)'
    BY <2>1 DEF CallOf, ToldOf, Kind, Known, Stands, Told, RowsOf, TransferRow, WalletRow,
                MintRow, Settled, Owned, Granted, Order, L!TransferRow, vars
  <2> QED BY <2>2, <2>3 DEF CallOf
<1> QED BY <1>1, <1>2 DEF ApiInv

\* Every step of every request keeps the invariant.
LEMMA NextStep == ApiInv /\ [Next]_vars => ApiInv'
<1> SUFFICES ASSUME ApiInv, [Next]_vars PROVE ApiInv'
  OBVIOUS
<1>1. ASSUME NEW c \in Calls, Step(c) PROVE ApiInv'
  BY <1>1, ObserveStep, GateStep, FoundUserStep, ValidateStep, PrecheckStep, RefusedStep,
     ReportStep, InsertStep, CommitUserStep, HaveWalletStep, TransferStep, HeardStep,
     GrantStep, ReadStep DEF Step
<1>2. ASSUME NEW c \in Calls, Fault(c) PROVE ApiInv'
  BY <1>2, RefusedStep, InsertReplyLostStep, TransferStep, GrantStep DEF Fault
<1> QED BY <1>1, <1>2, ArriveStep, StutterStep DEF Next, Quiescent

\* ApiInv is an invariant of the API, for every finite set of requests: what a
\* handler has checked, what the store told it and what rows it left behind.
THEOREM ApiInvariance == Spec => []ApiInv
BY InitStep, NextStep, PTL DEF Spec

\* Money leaves a wallet on the order of its owner alone and enters wallets that
\* exist, although both checks precede the transaction that moves it.
THEOREM OwnersMove == Spec => []OwnerMoves
<1>1. ApiInv => OwnerMoves
  BY DEF ApiInv, TableInv
<1> QED BY <1>1, ApiInvariance, PTL

\* First use: one user per token, one wallet per user, one caller told 201 and
\* all callers of a user told the same wallet, whatever races and fails.
THEOREM OneWallet == Spec => []OneWalletEach
<1>1. ApiInv => OneWalletEach
  <2> SUFFICES ASSUME ApiInv PROVE OneWalletEach
    OBVIOUS
  <2>1. UniqueInv
    BY DEF ApiInv
  <2>2. ASSUME NEW c \in Calls, NEW d \in Calls, req[c].token = req[d].token,
               Kind(c) \in {"created", "reused"}, Kind(d) \in {"created", "reused"}
        PROVE  /\ result[c].rows = result[d].rows
               /\ status[c] = 201 /\ status[d] = 201 => c = d
    <3>1. ToldOf(c) /\ ToldOf(d)
      BY DEF ApiInv, CallOf
    <3>2. PICK w \in wallets : /\ result[c].rows = {w} /\ w.owner = user[c]
                               /\ Kind(c) = "created" => w.id = c
      BY <2>2, <3>1 DEF ToldOf, Told
    <3>3. PICK x \in wallets : /\ result[d].rows = {x} /\ x.owner = user[d]
                               /\ Kind(d) = "created" => x.id = d
      BY <2>2, <3>1 DEF ToldOf, Told
    <3>4. user[c] = user[d]
      BY <2>1, <2>2, <3>1 DEF ToldOf, Known, UniqueInv
    <3>5. w = x
      BY <2>1, <3>2, <3>3, <3>4 DEF UniqueInv
    <3>6. /\ status[c] = 201 => Kind(c) = "created"
          /\ status[d] = 201 => Kind(d) = "created"
      BY <2>2, <3>1 DEF ToldOf
    <3> QED BY <3>2, <3>3, <3>5, <3>6
  <2> QED BY <2>1, <2>2 DEF OneWalletEach, UniqueInv, Kind
<1> QED BY <1>1, ApiInvariance, PTL

\* A transfer answered with a rejection or a conflict has not used its key.
THEOREM RejectionsKeepKey == Spec => []RejectionKeepsKey
<1>1. ApiInv => RejectionKeepsKey
  <2> SUFFICES ASSUME ApiInv, NEW c \in Calls, status[c] \in {400, 401, 403, 404, 409, 422}
               PROVE  \A t \in transfers : t.id # c
    BY DEF RejectionKeepsKey
  <2>1. TransferRow(c) = {}
    BY DEF ApiInv, CallOf, ToldOf, RowsOf
  <2> QED BY <2>1 DEF TransferRow
<1> QED BY <1>1, ApiInvariance, PTL

\* 201 on a transfer is true: a committed row says what this caller asked for.
THEOREM CreatedHolds == Spec => []CreatedIsTrue
<1>1. ApiInv => CreatedIsTrue
  <2> SUFFICES ASSUME ApiInv, NEW c \in Calls, req[c].route = "transfer", status[c] = 201
               PROVE  Stands(c)
    BY DEF CreatedIsTrue, Stands
  <2> QED BY DEF ApiInv, CallOf, ToldOf
<1> QED BY <1>1, ApiInvariance, PTL

-----------------------------------------------------------------------------
(* Counting.  A step reports what the store said, ends or begins a request, *)
(* or is one in the middle of a handler.                                   *)

Report(c) == ReportWallet(c) \/ ReportTransfer(c) \/ ReportMint(c)
Watch(c) == Observed(c) \/ Recovered(c)

\* In the middle of a handler nothing is counted but a rejection, and a handler
\* that ends there has been told nothing, or an error, or was only reading.
Middle(c) ==
    /\ pc[c] \in Early \ {"idle"}
    /\ \/ pc'[c] \in (Early \cup Reports) \ {"idle"}
       \/ pc'[c] \in {"observe", "recover"} /\ Kind(c)' \in {"none", "read", "error"}
    /\ \A o \in Outcomes \ {"invalid"} : counter'[o] = counter[o]
    /\ UNCHANGED <<http, inFlight>>

\* Every other step is one of these.
LEMMA MiddleStep ==
    ASSUME ApiInv, NEW c \in Calls, Step(c) \/ Fault(c)
    PROVE  Report(c) \/ Watch(c) \/ Middle(c)
<1>0. Shapes /\ CallOf(c)
  BY DEF ApiInv
<1>1. \A code : LogThenRespond(c, code) => pc'[c] \in {"observe", "recover"}
  BY <1>0, EndShape DEF Ends
<1>2. \A l : Goto(c, l) => pc'[c] = l
  BY <1>0, GotoShape
<1>3. \A code : Respond(c, code) => LogThenRespond(c, code)
  BY DEF LogThenRespond
<1>4. \A o \in Outcomes \ {"invalid"} : Count("invalid") \/ NoCount => counter'[o] = counter[o]
  BY <1>0 DEF Shapes, Count, NoCount, Outcomes
<1>5. pc[c] \in Early => Kind(c) = "none"
  BY <1>0 DEF CallOf, ToldOf
<1>6. CASE Gate(c)
  BY <1>1, <1>2, <1>3, <1>5, <1>6 DEF Gate, Middle, Early, rest, Kind
<1>7. CASE InsertUser(c) \/ InsertWallet(c)
  BY <1>2, <1>7 DEF InsertUser, InsertWallet, Middle, Early, rest
<1>8. CASE CommitUser(c) \/ FoundUser(c)
  <2>1. pc[c] \in {"userCommit", "upsert"} /\ pc'[c] = req[c].route
    BY <1>2, <1>8 DEF CommitUser, FoundUser
  <2>2. req[c] \in Requests
    BY <1>0, <2>1 DEF CallOf, ControlOf
  <2>3. pc'[c] \in {"wallets", "transfer", "mint", "getWallet", "getTransfer"}
    BY <2>1, <2>2, ApiAssumption
  <2> QED BY <1>8, <2>1, <2>3 DEF CommitUser, FoundUser, Middle, Early
<1>9. CASE CommitWallet(c) \/ FoundWallet(c)
  BY <1>2, <1>9 DEF CommitWallet, FoundWallet, Middle, Early, Reports, rest
<1>10. CASE Validate(c) \/ ValidateMint(c)
  BY <1>1, <1>2, <1>3, <1>4, <1>5, <1>10
     DEF Validate, ValidateMint, RejectTransfer, Middle, Early, rest, Kind
<1>11. CASE PrecheckFrom(c) \/ PrecheckTo(c)
  <2>1. pc[c] \in {"from", "to"} /\ UNCHANGED <<http, inFlight, result>>
    BY <1>11 DEF PrecheckFrom, PrecheckTo, rest
  <2>2. \A o \in Outcomes \ {"invalid"} : counter'[o] = counter[o]
    BY <1>4, <1>11 DEF PrecheckFrom, PrecheckTo, RejectTransfer
  <2>3. pc'[c] \in {"observe", "recover", "to", "store"}
    BY <1>1, <1>2, <1>11
       DEF PrecheckFrom, PrecheckTo, RejectTransfer, LogThenGoto, LogThenRespond
  <2> QED BY <1>5, <2>1, <2>2, <2>3 DEF Middle, Early, Kind
<1>12. CASE TransferOverflows(c) \/ MintFails(c) \/ DbError(c)
  <2>1. pc[c] \in AsksDatabase /\ UNCHANGED <<http, inFlight, result, counter>>
    BY <1>12 DEF TransferOverflows, MintFails, DbError, rest, AsksDatabase
  <2>2. pc'[c] \in {"observe", "recover"}
    BY <1>1, <1>3, <1>12 DEF TransferOverflows, MintFails, DbError
  <2> QED BY <1>5, <2>1, <2>2 DEF Middle, Early, Kind, AsksDatabase
<1>13. CASE TransferFresh(c) \/ TransferAgain(c) \/ MintFresh(c) \/ MintAgain(c)
  BY <1>2, <1>13 DEF TransferFresh, TransferAgain, MintFresh, MintAgain, Middle, Early,
                     Reports, rest
<1>14. CASE GetWallet(c) \/ GetTransfer(c)
  BY <1>0, <1>1, <1>3, <1>14
     DEF GetWallet, GetTransfer, Middle, Early, rest, Return, Kind, Shapes
<1>15. CASE InsertReplyLost(c) \/ TransferReplyLost(c) \/ MintReplyLost(c)
  BY <1>0, <1>1, <1>15 DEF InsertReplyLost, TransferReplyLost, MintReplyLost, Middle, Early,
                           rest, Return, Kind, Shapes
<1> QED BY <1>6, <1>7, <1>8, <1>9, <1>10, <1>11, <1>12, <1>13, <1>14, <1>15
        DEF Step, Fault, Report, Watch

-----------------------------------------------------------------------------
(* observe counts every request once.                                      *)

Flying == { c \in Calls : pc[c] \notin Over \cup {"idle"} }
Done(s) == { c \in Calls : pc[c] = "done" /\ status[c] = s }

ObservedInv ==
    /\ inFlight = Cardinality(Flying)
    /\ \A s \in Codes : http[s] = Cardinality(Done(s))

\* A request that starts, ends or goes on keeps the gauge and the counts right.
LEMMA CountStep ==
    ASSUME ApiInv, ObservedInv, NEW c \in Calls, Arrive(c) \/ Step(c) \/ Fault(c)
    PROVE  ObservedInv'
<1>0. Shapes /\ CallOf(c)
  BY DEF ApiInv
<1>1. IsFiniteSet(Flying) /\ \A s : IsFiniteSet(Done(s))
  BY ApiAssumption, FS_Subset DEF Flying, Done
<1>2. \A d \in Calls \ {c} : pc'[d] = pc[d] /\ status'[d] = status[d]
  <2>1. CASE Arrive(c)
    BY <2>1, ArriveStep DEF OnlyCall
  <2>2. CASE Step(c)
    BY <2>2, ObserveStep, GateStep, FoundUserStep, ValidateStep, PrecheckStep, RefusedStep,
       ReportStep, InsertStep, CommitUserStep, HaveWalletStep, TransferStep, HeardStep,
       GrantStep, ReadStep DEF Step, OnlyCall
  <2>3. CASE Fault(c)
    BY <2>3, RefusedStep, InsertReplyLostStep, TransferStep, GrantStep DEF Fault, OnlyCall
  <2> QED BY <2>1, <2>2, <2>3
<1>3. ASSUME c \in Flying, pc'[c] \notin Over \cup {"idle"}, UNCHANGED <<http, inFlight>>
      PROVE  ObservedInv'
  <2>1. Flying' = Flying
    BY <1>2, <1>3 DEF Flying
  <2>2. ASSUME NEW s PROVE Done(s)' = Done(s)
    BY <1>2, <1>3 DEF Flying, Done, Over
  <2> QED BY <1>3, <2>1, <2>2 DEF ObservedInv
<1>4. CASE Arrive(c)
  <2>1. pc[c] = "idle" /\ pc'[c] = "gate" /\ inFlight' = inFlight + 1 /\ http' = http
    BY <1>0, <1>4, GotoShape DEF Arrive
  <2>2. Flying' = Flying \cup {c} /\ c \notin Flying
    BY <1>2, <2>1 DEF Flying, Over
  <2>3. Cardinality(Flying \cup {c}) = Cardinality(Flying) + 1
    BY <1>1, <2>2, FS_AddElement
  <2>4. ASSUME NEW s PROVE Done(s)' = Done(s)
    BY <1>2, <2>1 DEF Done
  <2> QED BY <2>1, <2>2, <2>3, <2>4 DEF ObservedInv
<1>5. ASSUME pc[c] \in {"observe", "recover"}, pc'[c] \in Over, inFlight' = inFlight - 1
      PROVE  inFlight' = Cardinality(Flying')
  <2>1. Flying' = Flying \ {c} /\ c \in Flying
    BY <1>2, <1>5 DEF Flying, Over
  <2>2. Cardinality(Flying \ {c}) = Cardinality(Flying) - 1
    BY <1>1, <2>1, FS_RemoveElement
  <2> QED BY <1>5, <2>1, <2>2 DEF ObservedInv
<1>6. CASE Observed(c)
  <2>1. /\ pc[c] = "observe" /\ pc'[c] = "done" /\ inFlight' = inFlight - 1
        /\ status'[c] = status[c] /\ http' = [http EXCEPT ![status[c]] = @ + 1]
    BY <1>0, <1>6, GotoShape DEF Observed, CountStatus
  <2>2. ASSUME NEW s \in Codes PROVE http'[s] = Cardinality(Done(s)')
    <3>1. http[s] = Cardinality(Done(s)) /\ http \in [Codes -> Nat]
      BY <1>0 DEF ObservedInv, Shapes
    <3>2. CASE s = status[c]
      <4>1. Done(s)' = Done(s) \cup {c} /\ c \notin Done(s)
        BY <1>2, <2>1, <3>2 DEF Done
      <4>2. Cardinality(Done(s) \cup {c}) = Cardinality(Done(s)) + 1
        BY <1>1, <4>1, FS_AddElement
      <4> QED BY <2>1, <3>1, <3>2, <4>1, <4>2
    <3>3. CASE s # status[c]
      <4>1. Done(s)' = Done(s)
        BY <1>2, <2>1, <3>3 DEF Done
      <4> QED BY <2>1, <3>1, <3>3, <4>1
    <3> QED BY <3>2, <3>3
  <2> QED BY <1>5, <2>1, <2>2 DEF ObservedInv, Over
<1>7. CASE Recovered(c)
  <2>1. CASE Goto(c, "observe") /\ UNCHANGED <<inFlight, http>>
    BY <1>0, <1>3, <1>7, <2>1, GotoShape DEF Recovered, Flying, Over
  <2>2. CASE ~(Goto(c, "observe") /\ UNCHANGED <<inFlight, http>>)
    <3>1. /\ pc[c] = "recover" /\ pc'[c] = "aborted" /\ inFlight' = inFlight - 1
          /\ http' = http
      BY <1>0, <1>7, <2>2 DEF Recovered, Shapes
    <3>2. ASSUME NEW s PROVE Done(s)' = Done(s)
      BY <1>2, <3>1 DEF Done
    <3> QED BY <1>5, <3>1, <3>2 DEF ObservedInv, Over
  <2> QED BY <2>1, <2>2
<1>8. CASE Report(c)
  <2>1. pc[c] \in Reports /\ UNCHANGED <<http, inFlight>>
    BY <1>8 DEF Report, ReportWallet, ReportTransfer, ReportMint, Reports, rest
  <2>2. pc'[c] \in {"observe", "recover"}
    BY <1>0, <1>8, EndShape DEF Report, ReportWallet, ReportTransfer, ReportMint, Ends
  <2> QED BY <1>3, <2>1, <2>2 DEF Flying, Over, Reports
<1>9. CASE Middle(c)
  BY <1>3, <1>9 DEF Middle, Flying, Over, Early, Reports
<1> QED BY <1>4, <1>6, <1>7, <1>8, <1>9, MiddleStep DEF Watch

\* The gauge and the counts are right at every moment.
LEMMA ObservedInvariance == Spec => []ObservedInv
<1>1. Init => ObservedInv
  <2> SUFFICES ASSUME Init PROVE ObservedInv
    OBVIOUS
  <2>1. Flying = {} /\ \A s : Done(s) = {}
    BY DEF Init, Flying, Done
  <2> QED BY <2>1, FS_EmptySet DEF Init, ObservedInv
<1>2. ApiInv /\ ObservedInv /\ [Next]_vars => ObservedInv'
  <2>1. ASSUME ObservedInv, UNCHANGED vars PROVE ObservedInv'
    BY <2>1 DEF ObservedInv, Flying, Done, vars
  <2> QED BY <2>1, CountStep DEF Next, Quiescent
<1> QED BY <1>1, <1>2, ApiInvariance, PTL DEF Spec

\* Every request that is over has been counted under its status, even one whose
\* handler panicked, unless reporting the panic panicked too; the in-flight gauge
\* comes back in any case.
THEOREM RequestsCounted == Spec => []EveryRequestCounted
<1>1. ApiInv /\ ObservedInv => EveryRequestCounted
  <2> SUFFICES ASSUME ApiInv, ObservedInv PROVE EveryRequestCounted
    OBVIOUS
  <2>1. \A c \in Calls : pc[c] = "aborted" => panics >= 2
    BY DEF ApiInv, CallOf, ControlOf
  <2> QED BY <2>1 DEF ObservedInv, EveryRequestCounted, Flying, Done
<1> QED BY <1>1, ApiInvariance, ObservedInvariance, PTL

\* Types: a status is written exactly when the handler has come to its end, a
\* statement is open exactly at its commit, balances stay in the range of bigint.
THEOREM ApiTypes == Spec => []TypeOK
<1>1. ApiInv /\ ObservedInv => TypeOK
  <2> SUFFICES ASSUME ApiInv, ObservedInv PROVE TypeOK
    OBVIOUS
  <2>1. ASSUME NEW c \in Calls
        PROVE  /\ status[c] \in Codes \cup {0}
               /\ status[c] = 0 <=> pc[c] \notin {"observe", "recover"} \cup Over
               /\ open[c] # {} <=> pc[c] \in {"userCommit", "walletCommit"}
    BY DEF ApiInv, CallOf, ControlOf, Late, Over
  <2>2. inFlight \in 0..Cardinality(Calls)
    <3>1. IsFiniteSet(Flying) /\ Cardinality(Flying) <= Cardinality(Calls)
      BY ApiAssumption, FS_Subset DEF Flying
    <3>2. Cardinality(Flying) \in Nat /\ Cardinality(Calls) \in Nat
      BY <3>1, ApiAssumption, FS_CardinalityType
    <3> QED BY <3>1, <3>2 DEF ObservedInv
  <2> QED BY <2>1, <2>2 DEF ApiInv, Shapes, TableInv, TypeOK
<1> QED BY <1>1, ApiInvariance, ObservedInvariance, PTL

-----------------------------------------------------------------------------
(* The domain counters.                                                    *)

\* The rows that have been counted: neither still to be reported nor left by a
\* commit nobody heard of.
Counted == { t \in transfers : t.id \notin Unreported("report") }
Paid == { t \in Counted : t.status = "succeeded" }
CountedMints == { m \in mints : m.id \in Calls \ Unreported("reportMint") }
CountedWallets == { w \in wallets : w.id \in Calls \ Unreported("reportWallet") }

Tally ==
    /\ counter["succeeded"] = Cardinality(Paid)
    /\ counter["declined"] = Cardinality(Counted \ Paid)
    /\ counter["paiseMoved"] = Paise(Paid)
    /\ counter["paiseMinted"] = Paise(CountedMints)
    /\ counter["created"] = Cardinality(CountedWallets)

CountersInv ==
    /\ IsFiniteSet(Paid) /\ IsFiniteSet(Counted \ Paid)
    /\ IsFiniteSet(CountedMints) /\ IsFiniteSet(CountedWallets)
    /\ \A t \in Counted : t.amt \in Int
    /\ \A m \in CountedMints : m.amt \in Int
    /\ Tally

\* The counted rows of other calls stay the same, so the counted rows do when
\* those of c do.
LEMMA CountedFrame ==
    ASSUME ApiInv, ApiInv', NEW c \in Calls, OnlyCall(c)
    PROVE  /\ (\A t \in TransferRow(c) \cup TransferRow(c)' : t \in Counted' <=> t \in Counted)
                => Counted' = Counted
           /\ (\A m \in MintRow(c) \cup MintRow(c)' : m \in CountedMints' <=> m \in CountedMints)
                => CountedMints' = CountedMints
           /\ (\A w \in WalletRow(c) \cup WalletRow(c)' :
                   w \in CountedWallets' <=> w \in CountedWallets)
                => CountedWallets' = CountedWallets
<1>1. \A d \in Calls \ {c} : pc'[d] = pc[d] /\ result'[d] = result[d]
  BY DEF OnlyCall
<1>2. \A l : \A d \in Calls \ {c} : d \in Unreported(l)' <=> d \in Unreported(l)
  BY <1>1 DEF Unreported
<1>3. ASSUME NEW t, t.id # c PROVE t \in Counted' <=> t \in Counted
  <2>1. t \in transfers' <=> t \in transfers
    BY <1>3 DEF OnlyCall
  <2>2. t \in transfers => t.id \in Calls \ {c}
    BY <1>3 DEF ApiInv, TableInv
  <2> QED BY <1>2, <2>1, <2>2 DEF Counted
<1>4. ASSUME NEW m, m.id # c PROVE m \in CountedMints' <=> m \in CountedMints
  BY <1>2, <1>4 DEF OnlyCall, CountedMints
<1>5. ASSUME NEW w, w.id # c PROVE w \in CountedWallets' <=> w \in CountedWallets
  BY <1>2, <1>5 DEF OnlyCall, CountedWallets
<1>6. ASSUME \A t \in TransferRow(c) \cup TransferRow(c)' : t \in Counted' <=> t \in Counted
      PROVE  Counted' = Counted
  BY <1>3, <1>6 DEF Counted, TransferRow
<1>7. ASSUME \A m \in MintRow(c) \cup MintRow(c)' : m \in CountedMints' <=> m \in CountedMints
      PROVE  CountedMints' = CountedMints
  BY <1>4, <1>7 DEF CountedMints, MintRow
<1>8. ASSUME \A w \in WalletRow(c) \cup WalletRow(c)' :
                 w \in CountedWallets' <=> w \in CountedWallets
      PROVE  CountedWallets' = CountedWallets
  BY <1>5, <1>8 DEF CountedWallets, WalletRow
<1> QED BY <1>6, <1>7, <1>8

\* Counters and counted rows stay the same together.
LEMMA CountersSame ==
    ASSUME CountersInv, UNCHANGED <<Counted, CountedMints, CountedWallets>>,
           \A o \in {"succeeded", "declined", "paiseMoved", "paiseMinted", "created"} :
               counter'[o] = counter[o]
    PROVE  CountersInv'
<1>1. Paid' = Paid
  BY DEF Paid
<1> QED BY <1>1 DEF CountersInv, Tally

\* One more row adds its amount.
LEMMA PaiseAdd ==
    ASSUME NEW S, IsFiniteSet(S), NEW a, a \notin S, \A r \in S \cup {a} : r.amt \in Int
    PROVE  Paise(S \cup {a}) = Paise(S) + a.amt
<1>1. IsFiniteSet(S \cup {a})
  BY FS_AddElement
<1>2. Paise(S) = Sum(Amt(S), S) /\ Paise(S \cup {a}) = Sum(Amt(S \cup {a}), S \cup {a})
  BY <1>1, SumOfAmounts DEF Paise
<1>3. Sum(Amt(S \cup {a}), S \cup {a}) = a.amt + Sum(Amt(S), S)
  BY AddAmount
<1>4. Sum(Amt(S), S) \in Int /\ a.amt \in Int
  BY SumType DEF Amt
<1> QED BY <1>2, <1>3, <1>4

\* In the middle of a handler, no row of its call is counted, before or after.
LEMMA MiddleCounted ==
    ASSUME ApiInv, ApiInv', NEW c \in Calls, OnlyCall(c), pc[c] \in Early,
           \/ pc'[c] \in Early \cup Reports
           \/ Kind(c)' \in {"none", "read", "error"}
    PROVE  UNCHANGED <<Counted, CountedMints, CountedWallets>>
<1>1. TransferRow(c) = {} /\ MintRow(c) = {} /\ WalletRow(c) = {}
  BY DEF ApiInv, CallOf, ToldOf, RowsOf
<1>2. /\ ToldOf(c)' /\ RowsOf(c)'
  BY DEF ApiInv, CallOf
<1>3. \A l : Kind(c)' = "error" \/ pc'[c] = l => c \in Unreported(l)'
  BY DEF Unreported, Kind
<1>4. ASSUME NEW t \in TransferRow(c)' PROVE t \notin Counted /\ t \notin Counted'
  <2>1. t \in transfers' /\ t.id = c
    BY DEF TransferRow
  <2>2. Kind(c)' \in {"succeeded", "declined", "error"}
    BY <1>2 DEF RowsOf
  <2>3. c \in Unreported("report")'
    BY <1>2, <1>3, <2>2 DEF ToldOf, Reports
  <2> QED BY <1>1, <2>1, <2>3 DEF Counted, TransferRow
<1>5. ASSUME NEW m \in MintRow(c)' PROVE m \notin CountedMints /\ m \notin CountedMints'
  <2>1. m \in mints' /\ m.id = c
    BY DEF MintRow
  <2>2. Kind(c)' \in {"minted", "error"}
    BY <1>2 DEF RowsOf
  <2>3. c \in Unreported("reportMint")'
    BY <1>2, <1>3, <2>2 DEF ToldOf, Reports
  <2> QED BY <1>1, <2>1, <2>3 DEF CountedMints, MintRow
<1>6. ASSUME NEW w \in WalletRow(c)' PROVE w \notin CountedWallets /\ w \notin CountedWallets'
  <2>1. w \in wallets' /\ w.id = c
    BY DEF WalletRow
  <2>2. Kind(c)' \in {"created", "error"}
    BY <1>2 DEF RowsOf
  <2>3. c \in Unreported("reportWallet")'
    BY <1>2, <1>3, <2>2 DEF ToldOf, Reports
  <2> QED BY <1>1, <2>1, <2>3 DEF CountedWallets, WalletRow
<1> QED BY <1>1, <1>4, <1>5, <1>6, CountedFrame

\* observe counts requests, not rows.
LEMMA WatchCounted ==
    ASSUME ApiInv, ApiInv', NEW c \in Calls, OnlyCall(c), Watch(c)
    PROVE  UNCHANGED <<Counted, CountedMints, CountedWallets, counter>>
<1>0. Shapes
  BY DEF ApiInv
<1>1. /\ pc[c] \in {"observe", "recover"} /\ pc'[c] \in Late
      /\ UNCHANGED <<db, result, counter>>
  BY <1>0 DEF Watch, Observed, Recovered, Goto, Late, Shapes
<1>2. \A l \in Reports : c \in Unreported(l)' <=> c \in Unreported(l)
  BY <1>1 DEF Unreported, Reports, Late
<1> QED BY <1>1, <1>2, CountedFrame
        DEF db, Counted, CountedMints, CountedWallets, TransferRow, MintRow, WalletRow, Reports

\* A report changes no table; the rows of its call are counted from now on.
LEMMA ReportShape ==
    ASSUME ApiInv, NEW c \in Calls, Report(c)
    PROVE  /\ ApiInv' /\ OnlyCall(c)
           /\ pc[c] \in Reports /\ Kind(c) # "error"
           /\ pc'[c] \in {"observe", "recover"} /\ UNCHANGED <<db, req, user, result>>
<1>0. Shapes /\ CallOf(c)
  BY DEF ApiInv
<1>1. pc[c] \in Reports /\ UNCHANGED <<db, req, user, result>>
  BY DEF Report, ReportWallet, ReportTransfer, ReportMint, Reports, rest
<1>2. pc'[c] \in {"observe", "recover"}
  BY <1>0, EndShape DEF Report, ReportWallet, ReportTransfer, ReportMint, Ends
<1>3. Kind(c) # "error"
  BY <1>0, <1>1 DEF CallOf, ToldOf, Reports
<1> QED BY <1>1, <1>2, <1>3, ReportStep DEF Report

\* The outcome of a transfer is counted with its row.
LEMMA ReportTransferCounted ==
    ASSUME ApiInv, CountersInv, NEW c \in Calls, ReportTransfer(c)
    PROVE  CountersInv'
<1> DEFINE k == Kind(c)
           t == Settled(c, k)
<1>0. /\ ApiInv' /\ OnlyCall(c) /\ pc'[c] \in {"observe", "recover"}
      /\ UNCHANGED <<db, req, user, result>>
  BY ReportShape DEF Report
<1>1. pc[c] = "report" /\ k \in {"succeeded", "declined", "replay", "conflict"}
  BY DEF ReportTransfer, ApiInv, CallOf, ToldOf
<1>2. counter \in [Outcomes -> Nat]
  BY DEF ApiInv, Shapes
<1>3. req[c].amt \in Int
  BY <1>1, ApiAssumption DEF ApiInv, CallOf, ControlOf
<1>4. /\ counter'[k] = counter[k] + 1
      /\ counter'["paiseMoved"] = counter["paiseMoved"] + (IF k = "succeeded" THEN req[c].amt ELSE 0)
      /\ \A o \in Outcomes \ {k, "paiseMoved"} : counter'[o] = counter[o]
  <2> DEFINE moved == IF k = "succeeded" THEN req[c].amt ELSE 0
  <2>1. counter' = [counter EXCEPT ![k] = @ + 1, !["paiseMoved"] = @ + moved]
    BY DEF ReportTransfer, TransferOutcome, Kind
  <2> HIDE DEF moved, k
  <2>2. /\ counter'[k] = counter[k] + 1 /\ counter'["paiseMoved"] = counter["paiseMoved"] + moved
        /\ \A o \in Outcomes \ {k, "paiseMoved"} : counter'[o] = counter[o]
    BY <1>1, <1>2, <2>1 DEF Outcomes
  <2> QED BY <2>2 DEF moved
<1>5. UNCHANGED <<CountedMints, CountedWallets>>
  <2>1. MintRow(c) = {} /\ WalletRow(c) = {}
    BY <1>1 DEF ApiInv, CallOf, RowsOf
  <2>2. MintRow(c)' = {} /\ WalletRow(c)' = {}
    BY <1>0, <2>1 DEF MintRow, WalletRow, db
  <2> QED BY <1>0, <2>1, <2>2, CountedFrame
<1>6. CASE k \in {"replay", "conflict"}
  <2>1. TransferRow(c) = {}
    BY <1>6 DEF ApiInv, CallOf, RowsOf
  <2>2. TransferRow(c)' = {}
    BY <1>0, <2>1 DEF TransferRow, db
  <2>3. Counted' = Counted
    BY <1>0, <2>1, <2>2, CountedFrame
  <2>4. counter["paiseMoved"] \in Nat
    BY <1>2 DEF Outcomes
  <2> HIDE DEF k
  <2>5. \A o \in {"succeeded", "declined", "paiseMoved", "paiseMinted", "created"} :
            counter'[o] = counter[o]
    BY <1>4, <1>6, <2>4 DEF Outcomes
  <2> QED BY <1>5, <2>3, <2>5, CountersSame
<1>7. CASE k \in {"succeeded", "declined"}
  <2>1. TransferRow(c) = {t} /\ t.id = c /\ t.status = k /\ t.amt = req[c].amt
    BY <1>7 DEF ApiInv, CallOf, RowsOf, Settled, Order, L!TransferRow
  <2>2. t \in transfers /\ t \notin Counted
    BY <1>1, <2>1 DEF TransferRow, Counted, Unreported
  <2>3. \A d \in Calls \ {c} : d \in Unreported("report")' <=> d \in Unreported("report")
    BY <1>0 DEF Unreported, OnlyCall
  <2>4. c \notin Unreported("report")'
    BY <1>0, <1>7 DEF Unreported, Kind
  <2>5. transfers' = transfers /\ \A x \in transfers : x.id \in Calls
    BY <1>0 DEF db, ApiInv, TableInv
  <2>6. \A x \in transfers : x.id = c => x = t
    BY <2>1 DEF TransferRow
  <2> HIDE DEF t, k
  <2>7. Counted' = Counted \cup {t}
    BY <2>1, <2>2, <2>3, <2>4, <2>5, <2>6 DEF Counted
  <2>8. \A x \in Counted \cup {t} : x.amt \in Int
    BY <1>3, <2>1 DEF CountersInv
  <2>9. Paid \subseteq Counted /\ t \notin Paid /\ t \notin Counted \ Paid
    BY <2>2 DEF Paid
  <2>10. /\ counter["succeeded"] = Cardinality(Paid)
         /\ counter["declined"] = Cardinality(Counted \ Paid)
         /\ counter["paiseMoved"] = Paise(Paid)
         /\ counter["paiseMinted"] = Paise(CountedMints)
         /\ counter["created"] = Cardinality(CountedWallets)
         /\ IsFiniteSet(Paid) /\ IsFiniteSet(Counted \ Paid)
    BY DEF CountersInv, Tally
  <2>11. CASE k = "succeeded"
    <3>1. Paid' = Paid \cup {t} /\ Counted' \ Paid' = Counted \ Paid
      BY <2>1, <2>2, <2>7, <2>11 DEF Paid
    <3>2. IsFiniteSet(Paid \cup {t}) /\ Cardinality(Paid \cup {t}) = Cardinality(Paid) + 1
      BY <2>9, <2>10, FS_AddElement
    <3>3. Paise(Paid \cup {t}) = Paise(Paid) + req[c].amt
      BY <2>1, <2>8, <2>9, <2>10, PaiseAdd
    <3>4. /\ counter'["succeeded"] = counter["succeeded"] + 1
          /\ counter'["paiseMoved"] = counter["paiseMoved"] + req[c].amt
          /\ \A o \in {"declined", "paiseMinted", "created"} : counter'[o] = counter[o]
      BY <1>4, <2>11 DEF Outcomes
    <3>5. Tally'
      BY <1>5, <2>10, <3>1, <3>2, <3>3, <3>4 DEF Tally
    <3> QED BY <1>5, <2>7, <2>8, <2>10, <3>1, <3>2, <3>5 DEF CountersInv
  <2>12. CASE k = "declined"
    <3>1. Paid' = Paid /\ Counted' \ Paid' = (Counted \ Paid) \cup {t}
      BY <2>1, <2>2, <2>7, <2>12 DEF Paid
    <3>2. /\ IsFiniteSet((Counted \ Paid) \cup {t})
          /\ Cardinality((Counted \ Paid) \cup {t}) = Cardinality(Counted \ Paid) + 1
      BY <2>9, <2>10, FS_AddElement
    <3>3. /\ counter'["declined"] = counter["declined"] + 1
          /\ \A o \in {"succeeded", "paiseMoved", "paiseMinted", "created"} :
                counter'[o] = counter[o]
      <4>1. counter["paiseMoved"] \in Nat
        BY <1>2 DEF Outcomes
      <4> QED BY <1>4, <2>12, <4>1 DEF Outcomes
    <3>4. Tally'
      BY <1>5, <2>10, <3>1, <3>2, <3>3 DEF Tally
    <3> QED BY <1>5, <2>7, <2>8, <2>10, <3>1, <3>2, <3>4 DEF CountersInv
  <2> QED BY <1>7, <2>11, <2>12
<1> QED BY <1>1, <1>6, <1>7

\* An applied mint is counted with its row.
LEMMA ReportMintCounted ==
    ASSUME ApiInv, CountersInv, NEW c \in Calls, ReportMint(c)
    PROVE  CountersInv'
<1> DEFINE m == Granted(c)
<1>0. /\ ApiInv' /\ OnlyCall(c) /\ pc'[c] \in {"observe", "recover"}
      /\ UNCHANGED <<db, req, user, result>>
  BY ReportShape DEF Report
<1>1. pc[c] = "reportMint" /\ Kind(c) \in {"minted", "mintReplay"}
  BY DEF ReportMint, ApiInv, CallOf, ToldOf
<1>2. counter \in [Outcomes -> Nat] /\ req[c].amt \in Int
  BY <1>1, ApiAssumption DEF ApiInv, Shapes, CallOf, ControlOf
<1>3. /\ Kind(c) = "minted" => counter'["paiseMinted"] = counter["paiseMinted"] + req[c].amt
      /\ Kind(c) # "minted" => counter'["paiseMinted"] = counter["paiseMinted"]
      /\ \A o \in Outcomes \ {"paiseMinted"} : counter'[o] = counter[o]
  BY <1>2 DEF ReportMint, Kind, Outcomes
<1>4. UNCHANGED <<Counted, CountedWallets>>
  <2>1. TransferRow(c) = {} /\ WalletRow(c) = {}
    BY <1>1 DEF ApiInv, CallOf, RowsOf
  <2>2. TransferRow(c)' = {} /\ WalletRow(c)' = {}
    BY <1>0, <2>1 DEF TransferRow, WalletRow, db
  <2> QED BY <1>0, <2>1, <2>2, CountedFrame
<1>5. CASE Kind(c) = "mintReplay"
  <2>1. MintRow(c) = {}
    BY <1>5 DEF ApiInv, CallOf, RowsOf
  <2>2. MintRow(c)' = {}
    BY <1>0, <2>1 DEF MintRow, db
  <2>3. CountedMints' = CountedMints
    BY <1>0, <2>1, <2>2, CountedFrame
  <2>4. \A o \in {"succeeded", "declined", "paiseMoved", "paiseMinted", "created"} :
            counter'[o] = counter[o]
    BY <1>3, <1>5 DEF Outcomes
  <2> QED BY <1>4, <2>3, <2>4, CountersSame
<1>6. CASE Kind(c) = "minted"
  <2>1. MintRow(c) = {m} /\ m.id = c /\ m.amt = req[c].amt
    BY <1>6 DEF ApiInv, CallOf, RowsOf, Granted
  <2>2. m \in mints /\ m \notin CountedMints
    BY <1>1, <2>1 DEF MintRow, CountedMints, Unreported
  <2>3. \A d \in Calls \ {c} : d \in Unreported("reportMint")' <=> d \in Unreported("reportMint")
    BY <1>0 DEF Unreported, OnlyCall
  <2>4. c \notin Unreported("reportMint")' /\ mints' = mints
    BY <1>0, <1>6 DEF Unreported, Kind, db
  <2>5. \A x \in mints : x.id = c => x = m
    BY <2>1 DEF MintRow
  <2> HIDE DEF m
  <2>6. CountedMints' = CountedMints \cup {m}
    BY <2>1, <2>2, <2>3, <2>4, <2>5 DEF CountedMints
  <2>7. \A x \in CountedMints \cup {m} : x.amt \in Int
    BY <1>2, <2>1 DEF CountersInv
  <2>8. IsFiniteSet(CountedMints) /\ IsFiniteSet(CountedMints \cup {m})
    BY FS_AddElement DEF CountersInv
  <2>9. Paise(CountedMints \cup {m}) = Paise(CountedMints) + req[c].amt
    BY <2>1, <2>2, <2>7, <2>8, PaiseAdd
  <2>10. Paid' = Paid
    BY <1>4 DEF Paid
  <2>11. Tally'
    BY <1>3, <1>4, <1>6, <2>6, <2>9, <2>10 DEF CountersInv, Tally, Outcomes
  <2> QED BY <1>4, <2>6, <2>7, <2>8, <2>10, <2>11 DEF CountersInv
<1> QED BY <1>1, <1>5, <1>6

\* A new wallet is counted with its row.
LEMMA ReportWalletCounted ==
    ASSUME ApiInv, CountersInv, NEW c \in Calls, ReportWallet(c)
    PROVE  CountersInv'
<1> DEFINE w == Owned(c)
<1>0. /\ ApiInv' /\ OnlyCall(c) /\ pc'[c] \in {"observe", "recover"}
      /\ UNCHANGED <<db, req, user, result>>
  BY ReportShape DEF Report
<1>1. pc[c] = "reportWallet" /\ Kind(c) \in {"created", "reused"}
  BY DEF ReportWallet, ApiInv, CallOf, ToldOf
<1>2. counter \in [Outcomes -> Nat]
  BY DEF ApiInv, Shapes
<1>3. /\ Kind(c) = "created" => counter'["created"] = counter["created"] + 1
      /\ Kind(c) # "created" => counter'["created"] = counter["created"]
      /\ \A o \in Outcomes \ {"created", "reused"} : counter'[o] = counter[o]
  BY <1>2 DEF ReportWallet, Count, WalletOutcome, Kind, Outcomes
<1>4. UNCHANGED <<Counted, CountedMints>>
  <2>1. TransferRow(c) = {} /\ MintRow(c) = {}
    BY <1>1 DEF ApiInv, CallOf, RowsOf
  <2>2. TransferRow(c)' = {} /\ MintRow(c)' = {}
    BY <1>0, <2>1 DEF TransferRow, MintRow, db
  <2> QED BY <1>0, <2>1, <2>2, CountedFrame
<1>5. CASE Kind(c) = "reused"
  <2>1. WalletRow(c) = {}
    BY <1>5 DEF ApiInv, CallOf, RowsOf
  <2>2. WalletRow(c)' = {}
    BY <1>0, <2>1 DEF WalletRow, db
  <2>3. CountedWallets' = CountedWallets
    BY <1>0, <2>1, <2>2, CountedFrame
  <2>4. \A o \in {"succeeded", "declined", "paiseMoved", "paiseMinted", "created"} :
            counter'[o] = counter[o]
    BY <1>3, <1>5 DEF Outcomes
  <2> QED BY <1>4, <2>3, <2>4, CountersSame
<1>6. CASE Kind(c) = "created"
  <2>1. WalletRow(c) = {w} /\ w.id = c
    BY <1>6 DEF ApiInv, CallOf, RowsOf, Owned
  <2>2. w \in wallets /\ w \notin CountedWallets
    BY <1>1, <2>1 DEF WalletRow, CountedWallets, Unreported
  <2>3. \A d \in Calls \ {c} :
            d \in Unreported("reportWallet")' <=> d \in Unreported("reportWallet")
    BY <1>0 DEF Unreported, OnlyCall
  <2>4. c \notin Unreported("reportWallet")' /\ wallets' = wallets
    BY <1>0, <1>6 DEF Unreported, Kind, db
  <2>5. \A x \in wallets : x.id = c => x = w
    BY <2>1 DEF WalletRow
  <2> HIDE DEF w
  <2>6. CountedWallets' = CountedWallets \cup {w}
    BY <2>1, <2>2, <2>3, <2>4, <2>5 DEF CountedWallets
  <2>7. /\ IsFiniteSet(CountedWallets \cup {w})
        /\ Cardinality(CountedWallets \cup {w}) = Cardinality(CountedWallets) + 1
    BY <2>2, FS_AddElement DEF CountersInv
  <2>8. Paid' = Paid
    BY <1>4 DEF Paid
  <2>9. Tally'
    BY <1>3, <1>4, <1>6, <2>6, <2>7, <2>8 DEF CountersInv, Tally, Outcomes
  <2> QED BY <1>4, <2>6, <2>7, <2>8, <2>9 DEF CountersInv
<1> QED BY <1>1, <1>5, <1>6

\* Every step but a report leaves the counters of rows and the counted rows alone.
LEMMA QuietStep ==
    ASSUME ApiInv, CountersInv, NEW c \in Calls, ApiInv', OnlyCall(c),
           Arrive(c) \/ Watch(c) \/ Middle(c)
    PROVE  CountersInv'
<1>1. CASE Arrive(c)
  <2>1. pc[c] = "idle" /\ pc'[c] = "gate" /\ counter' = counter
    BY <1>1, GotoShape DEF Arrive, ApiInv
  <2> QED BY <2>1, MiddleCounted, CountersSame DEF Early
<1>2. CASE Watch(c)
  BY <1>2, WatchCounted, CountersSame
<1>3. CASE Middle(c)
  <2>1. UNCHANGED <<Counted, CountedMints, CountedWallets>>
    BY <1>3, MiddleCounted DEF Middle
  <2>2. \A o \in {"succeeded", "declined", "paiseMoved", "paiseMinted", "created"} :
            counter'[o] = counter[o]
    BY <1>3 DEF Middle, Outcomes
  <2> QED BY <2>1, <2>2, CountersSame
<1> QED BY <1>1, <1>2, <1>3

\* Before the first request nothing has been counted, and there is nothing to count:
\* the seed's rows belong to no request.
LEMMA NothingCounted == Init => CountersInv
<1> SUFFICES ASSUME Init PROVE CountersInv
  OBVIOUS
<1>1. Counted = {} /\ Paid = {}
  BY DEF Init, L!Init, Counted, Paid
<1>2. CountedMints = {}
  <2>1. ASSUME NEW m \in mints PROVE m.id \notin Calls
    <3>1. PICK w \in WalletIds : Seed[w] > 0 /\ m.id = w
      BY DEF Init, L!Init, L!SeedMints
    <3> QED BY <3>1, ApiAssumption
  <2> QED BY <2>1 DEF CountedMints
<1>3. CountedWallets = {}
  BY ApiAssumption DEF Init, CountedWallets
<1>4. Paise({}) = 0
  BY FS_EmptySet, SumOfAmounts, SumEmpty DEF Paise
<1>5. counter = [o \in Outcomes |-> 0]
  BY DEF Init
<1> QED BY <1>1, <1>2, <1>3, <1>4, <1>5, FS_EmptySet DEF CountersInv, Tally, Outcomes

\* The counters agree with the counted rows at every moment.
LEMMA CountersInvariance == Spec => []CountersInv
<1>1. ASSUME ApiInv, CountersInv, ApiInv', NEW c \in Calls, Arrive(c) \/ Step(c) \/ Fault(c)
      PROVE  CountersInv'
  <2>1. CASE Report(c)
    BY <1>1, <2>1, ReportTransferCounted, ReportMintCounted, ReportWalletCounted DEF Report
  <2>2. OnlyCall(c)
    <3>1. CASE Arrive(c)
      BY <1>1, <3>1, ArriveStep
    <3>2. CASE Step(c)
      BY <1>1, <3>2, ObserveStep, GateStep, FoundUserStep, ValidateStep, PrecheckStep,
         RefusedStep, ReportStep, InsertStep, CommitUserStep, HaveWalletStep, TransferStep,
         HeardStep, GrantStep, ReadStep DEF Step
    <3>3. CASE Fault(c)
      BY <1>1, <3>3, RefusedStep, InsertReplyLostStep, TransferStep, GrantStep DEF Fault
    <3> QED BY <1>1, <3>1, <3>2, <3>3
  <2> QED BY <1>1, <2>1, <2>2, QuietStep, MiddleStep
<1>2. ApiInv /\ CountersInv /\ ApiInv' /\ [Next]_vars => CountersInv'
  <2>1. ASSUME CountersInv, UNCHANGED vars PROVE CountersInv'
    <3>1. UNCHANGED <<Counted, CountedMints, CountedWallets, counter>>
      BY <2>1 DEF vars, Counted, CountedMints, CountedWallets, Unreported
    <3> QED BY <2>1, <3>1, CountersSame
  <2> QED BY <1>1, <2>1 DEF Next, Quiescent
<1> QED BY <1>2, NothingCounted, ApiInvariance, PTL DEF Spec

\* The domain counters agree with the tables: every settled transfer, every paisa
\* moved or minted and every wallet opened is counted once, whatever replays, lost
\* replies and panics there are, except where the reply itself was lost.
THEOREM CountersRight == Spec => []CountersMatchTables
<1>1. CountersInv => CountersMatchTables
  BY DEF CountersInv, Tally, CountersMatchTables, Counted, Paid, CountedMints, CountedWallets
<1> QED BY <1>1, CountersInvariance, PTL
=============================================================================
