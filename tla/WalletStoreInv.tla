--------------------------- MODULE WalletStoreInv ---------------------------
(***************************************************************************)
(* The inductive invariant of WalletStore: what the transaction of a call  *)
(* has read and written by the time the call is at each label, and what    *)
(* the committed tables and the answers say about each other.  TLC checks  *)
(* it on a small instance; WalletStoreProofs proves it for all of them.    *)
(***************************************************************************)
EXTENDS WalletStore

\* The rows c may have updated, and the two rows its transfer is about.
Held(c) == { w \in Wallets : Wrote(c, w) }
From(c) == RefRow[req[c].from]
To(c) == RefRow[req[c].to]
Unwritten(w) == live[w] = balance[w]

\* A transfer whose key is claimed, with status s recorded so far.
Claimed(c, s) ==
    /\ req[c] \in TransferReqs
    /\ From(c) \in Wallets /\ To(c) \in Wallets /\ From(c) # To(c)
    /\ wTransfer[c] = {Row(c, req[c], s)}
    /\ wMint[c] = {}

Debited(c) ==
    /\ balance[From(c)] >= req[c].amt
    /\ live[From(c)] = balance[From(c)] - req[c].amt

Credited(c) ==
    /\ balance[To(c)] + req[c].amt <= MaxInt
    /\ live[To(c)] = balance[To(c)] + req[c].amt

\* Go's map holds the balances of the held rows, under their canonical ids,
\* all of them current, and no other balance.
MapIsCurrent(c) ==
    /\ \A w \in Held(c) : read[c][Canon[w]] = live[w]
    /\ \A ref \in Refs : read[c][ref] # 0 => \E w \in Held(c) : ref = Canon[w]

\* What the transaction of c has read and written by the time it is at a label.
Empty(c) ==
    /\ wTransfer[c] = {} /\ wLedger[c] = {} /\ wMint[c] = {}
    /\ Held(c) = {}
    /\ read[c] = NoBalances

AtLockLo(c) ==
    /\ Claimed(c, "pending") /\ wLedger[c] = {}
    /\ Held(c) = {}
    /\ read[c] = NoBalances

AtLockHi(c) ==
    /\ Claimed(c, "pending") /\ wLedger[c] = {}
    /\ Held(c) = {RefRow[Lo(req[c])]}
    /\ Unwritten(RefRow[Lo(req[c])])
    /\ MapIsCurrent(c)

AtDecide(c) ==
    /\ Claimed(c, "pending") /\ wLedger[c] = {}
    /\ Held(c) = {From(c), To(c)}
    /\ Unwritten(From(c)) /\ Unwritten(To(c))
    /\ MapIsCurrent(c)

AtCredit(c) ==
    /\ Claimed(c, "pending") /\ wLedger[c] = {}
    /\ Held(c) = {From(c), To(c)}
    /\ Debited(c) /\ Unwritten(To(c))

AtPost(c) ==
    /\ Claimed(c, "pending") /\ wLedger[c] = {}
    /\ Held(c) = {From(c), To(c)}
    /\ Debited(c) /\ Credited(c)

AtFund(c) ==
    /\ req[c] \in MintReqs /\ RefRow[req[c].wallet] \in Wallets
    /\ wMint[c] = {NewMint(c, req[c])}
    /\ wTransfer[c] = {} /\ wLedger[c] = {}
    /\ Held(c) = {}

\* A decline is ready to commit.  It is justified if the client spelled the
\* source wallet as Postgres does.
DeclineReady(c) ==
    /\ Claimed(c, "declined") /\ wLedger[c] = {}
    /\ Held(c) = {From(c), To(c)}
    /\ Unwritten(From(c)) /\ Unwritten(To(c))
    /\ req[c].from = Canon[From(c)] => balance[From(c)] < req[c].amt

SuccessReady(c) ==
    /\ Claimed(c, "succeeded") /\ wLedger[c] = Entries(c, req[c])
    /\ Held(c) = {From(c), To(c)}
    /\ Debited(c) /\ Credited(c)

MintReady(c) ==
    LET w == RefRow[req[c].wallet]
    IN  /\ req[c] \in MintReqs /\ w \in Wallets
        /\ wMint[c] = {NewMint(c, req[c])}
        /\ wTransfer[c] = {} /\ wLedger[c] = {}
        /\ Held(c) = {w}
        /\ balance[w] + req[c].amt <= MaxInt
        /\ live[w] = balance[w] + req[c].amt

AtCommit(c) ==
    \/ DeclineReady(c)
    \/ SuccessReady(c)
    \/ MintReady(c)
    \/ req[c] \in MintReqs /\ Empty(c)

TxOf(c) ==
    /\ pc[c] \in {"idle", "begin", "claim", "replay", "mint", "done"} => Empty(c)
    /\ pc[c] \in {"claim", "replay"} => req[c] \in TransferReqs
    /\ pc[c] = "mint" => req[c] \in MintReqs
    /\ pc[c] = "begin" => req[c] \in TransferReqs \cup MintReqs
    /\ pc[c] = "lockLo" => AtLockLo(c)
    /\ pc[c] = "lockHi" => AtLockHi(c)
    /\ pc[c] = "decide" => AtDecide(c)
    /\ pc[c] = "credit" => AtCredit(c)
    /\ pc[c] = "post" => AtPost(c)
    /\ pc[c] = "fund" => AtFund(c)
    /\ pc[c] = "commit" => AtCommit(c)

TxInv == \A c \in Calls : TxOf(c)

\* A row is updated by one transaction at a time; rows nobody holds are as
\* committed.
RowInv ==
    /\ \A w \in Wallets : \A c, d \in Calls : Wrote(c, w) /\ Wrote(d, w) => c = d
    /\ \A w \in Wallets : (\A c \in Calls : ~Wrote(c, w)) => Unwritten(w)

SameIndexEntry(t, u) == t.user = u.user /\ t.key = u.key

\* No two rows, committed or open, share an entry of a unique index.
KeyInv ==
    /\ \A t, u \in transfers : SameIndexEntry(t, u) => t = u
    /\ \A c \in Calls : \A t \in wTransfer[c] : \A u \in transfers : ~SameIndexEntry(t, u)
    /\ \A c, d \in Calls : \A t \in wTransfer[c] : \A u \in wTransfer[d] :
          SameIndexEntry(t, u) => c = d
    /\ \A m, n \in mints : m.key = n.key => m = n
    /\ \A c \in Calls : \A m \in wMint[c] : \A n \in mints : m.key # n.key
    /\ \A c, d \in Calls : \A m \in wMint[c] : \A n \in wMint[d] : m.key = n.key => c = d

\* The row says what its fingerprint was computed from.
FingerprintOf(t) ==
    /\ t.from = RefRow[t.fp[1]]
    /\ t.to = RefRow[t.fp[2]]
    /\ t.amt = t.fp[3]

\* A committed row is terminal and belongs to a call that is over.
RecordInv ==
    /\ \A t \in transfers : /\ t.status # "pending"
                            /\ pc[t.id] = "done"
                            /\ FingerprintOf(t)
    /\ \A m \in mints : m.id \in Calls => pc[m.id] = "done"
    /\ LedgerMatchesTransfers

\* What the answers given so far say about the committed rows.
AnswerOf(c) ==
    /\ pc[c] # "done" => ret[c] = NoAnswer
    /\ pc[c] = "replay" => Stored(req[c]) # {}
    /\ ret[c].kind \notin {"debitLost", "transferNotFound"}
    /\ Accepted(c) => /\ req[c] \in TransferReqs
                      /\ ret[c].rows = Stored(req[c])
                      /\ ret[c].rows # {}
                      /\ \A t \in ret[c].rows : t.fp = Fingerprint(req[c])
    /\ ret[c].kind = "ok" => \A t \in ret[c].rows : t.id = c
    /\ Refused(c) => /\ \A t \in transfers : t.id # c
                     /\ \A m \in mints : m.id # c

AnswerInv == \A c \in Calls : AnswerOf(c)

\* The inductive invariant: types, what each transaction has done by each label,
\* row versions and locks, unique index entries, committed rows, answers.  The
\* safety properties of the store follow from it.
IInv == TypeOK /\ TxInv /\ RowInv /\ KeyInv /\ RecordInv /\ AnswerInv

\* What the answers to mints say, on top of IInv: a mint about to commit without
\* a row of its own has seen somebody's committed row for its key.
MintAnswerOf(c) ==
    /\ pc[c] = "commit" /\ req[c] \in MintReqs /\ wMint[c] = {} => MintTaken(req[c])
    /\ ret[c].kind = "minted" => NewMint(c, req[c]) \in mints
    /\ ret[c].kind = "mintReplay" => MintTaken(req[c]) /\ \A m \in mints : m.id # c

MintInv == \A c \in Calls : MintAnswerOf(c)
=============================================================================
