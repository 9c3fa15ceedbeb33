------------------------- MODULE WalletStoreProofs --------------------------
(***************************************************************************)
(* IInv is an inductive invariant of WalletStore, for every set of calls,  *)
(* wallets and requests, every spelling of a reference and every bound.    *)
(***************************************************************************)
EXTENDS WalletStoreInv, TLAPS

\* The part of TypeOK about the tables and the transactions, and the part
\* about the calls.
TypeData ==
    /\ balance \in [Wallets -> 0..MaxInt]
    /\ transfers \subseteq TransferRows
    /\ ledger \subseteq LedgerRows
    /\ mints \subseteq MintRows
    /\ live \in [Wallets -> 0..MaxInt]
    /\ locks \subseteq Wallets \X Modes \X Calls
    /\ wTransfer \in [Calls -> SUBSET TransferRows]
    /\ wLedger \in [Calls -> SUBSET LedgerRows]
    /\ wMint \in [Calls -> SUBSET MintRows]
    /\ read \in [Calls -> [Refs -> 0..MaxInt]]

TypeCalls ==
    /\ pc \in [Calls -> Labels]
    /\ req \in [Calls -> TransferReqs \cup MintReqs \cup {NoRequest}]
    /\ attempt \in [Calls -> Nat]
    /\ ret \in [Calls -> [kind : Kinds, rows : SUBSET TransferRows,
                         refs : SUBSET (Refs \X Refs)]]
    /\ faults \in Nat

\* TypeOK in two halves: the tables and transactions, and the calls.
LEMMA TypeParts == TypeOK <=> TypeData /\ TypeCalls
BY DEF TypeOK, TypeData, TypeCalls

\* UPDATE transfers SET status changes the status and nothing else.
LEMMA StatusUpdate ==
    ASSUME NEW c, NEW r, NEW s, NEW z
    PROVE  WithStatus({Row(c, r, s)}, z) = {Row(c, r, z)}
<1>1. [Row(c, r, s) EXCEPT !.status = z] = Row(c, r, z)
  BY DEF Row
<1> QED BY <1>1 DEF WithStatus

\* What a call's transaction is about is not disturbed by a step of another
\* call that leaves its rows and the versions it holds alone.
LEMMA TxFrame ==
    ASSUME NEW d \in Calls, TxOf(d),
           pc'[d] = pc[d], req'[d] = req[d], read'[d] = read[d],
           wTransfer'[d] = wTransfer[d], wLedger'[d] = wLedger[d],
           wMint'[d] = wMint[d],
           \A w \in Wallets : Wrote(d, w)' <=> Wrote(d, w),
           \A w \in Wallets : Wrote(d, w) => live'[w] = live[w] /\ balance'[w] = balance[w]
    PROVE  TxOf(d)'
<1>1. Held(d)' = Held(d)
  BY DEF Held
<1>2. \A w \in Held(d) : live'[w] = live[w] /\ balance'[w] = balance[w]
  BY DEF Held
<1>3. \A s : Claimed(d, s) => Claimed(d, s)'
  BY DEF Claimed, From, To, Row, Fingerprint
<1>4. From(d)' = From(d) /\ To(d)' = To(d)
  BY DEF From, To
<1>5. MapIsCurrent(d) => MapIsCurrent(d)'
  BY <1>1, <1>2 DEF MapIsCurrent
<1>6. Empty(d) => Empty(d)'
  BY <1>1 DEF Empty
<1>7. AtLockLo(d) => AtLockLo(d)'
  BY <1>1, <1>3 DEF AtLockLo
<1>8. AtLockHi(d) => AtLockHi(d)'
  BY <1>1, <1>2, <1>3, <1>5 DEF AtLockHi, Unwritten, Lo
<1>9. AtDecide(d) => AtDecide(d)'
  BY <1>1, <1>2, <1>3, <1>4, <1>5 DEF AtDecide, Unwritten
<1>10. AtCredit(d) => AtCredit(d)'
  BY <1>1, <1>2, <1>3, <1>4 DEF AtCredit, Unwritten, Debited
<1>11. AtPost(d) => AtPost(d)'
  BY <1>1, <1>2, <1>3, <1>4 DEF AtPost, Debited, Credited
<1>12. AtFund(d) => AtFund(d)'
  BY <1>1 DEF AtFund, NewMint
<1>13. AtCommit(d) => AtCommit(d)'
  <2>1. DeclineReady(d) => DeclineReady(d)'
    BY <1>1, <1>2, <1>3, <1>4 DEF DeclineReady, Unwritten
  <2>2. SuccessReady(d) => SuccessReady(d)'
    BY <1>1, <1>2, <1>3, <1>4 DEF SuccessReady, Debited, Credited, Entries
  <2>3. MintReady(d) => MintReady(d)'
    BY <1>1, <1>2 DEF MintReady, NewMint
  <2> QED BY <1>6, <2>1, <2>2, <2>3 DEF AtCommit
<1> QED
  BY <1>6, <1>7, <1>8, <1>9, <1>10, <1>11, <1>12, <1>13 DEF TxOf

\* The open rows of a step are rows that were open, up to their status.
LEMMA KeyFrame ==
    ASSUME KeyInv, UNCHANGED <<transfers, mints>>,
           \A d \in Calls : \A t \in wTransfer'[d] : \E u \in wTransfer[d] :
               t.user = u.user /\ t.key = u.key,
           \A d \in Calls : wMint'[d] \subseteq wMint[d]
    PROVE  KeyInv'
BY DEF KeyInv, SameIndexEntry

\* The tables stay as they are and no call comes back from the dead.
LEMMA RecordFrame ==
    ASSUME RecordInv, UNCHANGED tables,
           \A d \in Calls : pc[d] = "done" => pc'[d] = "done",
           TypeData
    PROVE  RecordInv'
<1>1. \A t \in transfers : t.id \in Calls
  BY DEF TypeData, TransferRows
<1> QED BY <1>1 DEF RecordInv, LedgerMatchesTransfers, FingerprintOf, tables

\* The answers of the other calls keep saying what they said.
LEMMA AnswerFrame ==
    ASSUME NEW d \in Calls, AnswerOf(d), UNCHANGED <<transfers, mints>>,
           pc'[d] = pc[d], req'[d] = req[d], ret'[d] = ret[d]
    PROVE  AnswerOf(d)'
<1>1. Accepted(d)' = Accepted(d) /\ Refused(d)' = Refused(d)
  BY DEF Accepted, Refused
<1>2. Stored(req[d])' = Stored(req[d])
  BY DEF Stored
<1> QED BY <1>1, <1>2 DEF AnswerOf, Stored, Fingerprint

-----------------------------------------------------------------------------
(* What a step of call c leaves to be shown: its own part of the invariant. *)

OnlyCall(c) ==
    \A d \in Calls \ {c} : pc'[d] = pc[d] /\ req'[d] = req[d] /\ ret'[d] = ret[d]

Rest(c) ==
    /\ TypeData'
    /\ \A d \in Calls \ {c} : TxOf(d)' /\ AnswerOf(d)'
    /\ RowInv' /\ KeyInv' /\ RecordInv'

\* The invariant after a step, from its frame, the call that took it and the
\* answers of all calls.
LEMMA Assemble ==
    ASSUME NEW c \in Calls, Rest(c), TypeCalls', TxOf(c)', AnswerOf(c)'
    PROVE  IInv'
<1>1. TypeOK'
  BY DEF Rest, TypeOK, TypeData, TypeCalls
<1>2. TxInv' /\ AnswerInv'
  BY DEF Rest, TxInv, AnswerInv
<1> QED BY <1>1, <1>2 DEF Rest, IInv

\* A step that touches neither the tables nor an open transaction.
LEMMA LocalStep ==
    ASSUME IInv, NEW c \in Calls, UNCHANGED <<tables, txVars>>, OnlyCall(c),
           pc[c] # "done"
    PROVE  Rest(c)
<1> USE DEF tables, txVars
<1>1. TypeData'
  BY DEF IInv, TypeOK, TypeData
<1>2. ASSUME NEW d \in Calls \ {c} PROVE TxOf(d)'
  BY <1>2, TxFrame DEF IInv, TxInv, OnlyCall, Wrote
<1>3. ASSUME NEW d \in Calls \ {c} PROVE AnswerOf(d)'
  BY <1>3, AnswerFrame DEF IInv, AnswerInv, OnlyCall
<1>4. RowInv'
  BY DEF IInv, RowInv, Wrote, Unwritten
<1>5. KeyInv'
  BY KeyFrame DEF IInv
<1>6. RecordInv'
  BY RecordFrame, TypeParts DEF IInv, OnlyCall
<1> QED BY <1>1, <1>2, <1>3, <1>4, <1>5, <1>6 DEF Rest

\* A transaction that is rolled back leaves nothing behind, and the rows it had
\* updated are again as committed.
LEMMA RollbackStep ==
    ASSUME IInv, NEW c \in Calls, Rollback(c), OnlyCall(c), pc[c] # "done"
    PROVE  Rest(c) /\ Empty(c)'
<1> USE DEF tables
<1>0. TypeData /\ RowInv /\ KeyInv /\ RecordInv
  BY TypeParts DEF IInv
<1>1. \A d \in Calls \ {c} : \A w \in Wallets : Wrote(d, w)' <=> Wrote(d, w)
  BY DEF Rollback, EndTx, Wrote
<1>2. \A w \in Wallets : ~Wrote(c, w)'
  BY DEF Rollback, EndTx, Wrote
<1>3. TypeData'
  <2>1. live' \in [Wallets -> 0..MaxInt] /\ locks' \subseteq Wallets \X Modes \X Calls
    BY <1>0 DEF TypeData, Rollback, EndTx
  <2>2. read' \in [Calls -> [Refs -> 0..MaxInt]]
    BY <1>0, BoundAssumption DEF TypeData, Rollback, EndTx, NoBalances
  <2>3. /\ wTransfer' \in [Calls -> SUBSET TransferRows]
        /\ wLedger' \in [Calls -> SUBSET LedgerRows]
        /\ wMint' \in [Calls -> SUBSET MintRows]
    BY <1>0 DEF TypeData, Rollback, EndTx
  <2> QED BY <1>0, <2>1, <2>2, <2>3 DEF TypeData, Rollback
<1>4. ASSUME NEW d \in Calls \ {c} PROVE TxOf(d)'
  <2>1. \A w \in Wallets : Wrote(d, w) => live'[w] = live[w] /\ balance'[w] = balance[w]
    BY <1>0, <1>4 DEF Rollback, RowInv
  <2>2. /\ read'[d] = read[d] /\ wTransfer'[d] = wTransfer[d]
        /\ wLedger'[d] = wLedger[d] /\ wMint'[d] = wMint[d]
    BY <1>0, <1>4 DEF Rollback, EndTx, TypeData
  <2> QED BY <1>1, <1>4, <2>1, <2>2, TxFrame DEF IInv, TxInv, OnlyCall
<1>5. ASSUME NEW d \in Calls \ {c} PROVE AnswerOf(d)'
  BY <1>5, AnswerFrame DEF IInv, AnswerInv, OnlyCall, Rollback
<1>6. RowInv'
  <2>1. ASSUME NEW w \in Wallets, \A d \in Calls : ~Wrote(d, w)' PROVE Unwritten(w)'
    <3>1. CASE Wrote(c, w)
      BY <3>1 DEF Rollback, Unwritten
    <3>2. CASE ~Wrote(c, w)
      BY <1>0, <1>1, <2>1, <3>2 DEF Rollback, Unwritten, RowInv
    <3> QED BY <3>1, <3>2
  <2>2. \A w \in Wallets : \A d, e \in Calls : Wrote(d, w)' /\ Wrote(e, w)' => d = e
    BY <1>0, <1>1, <1>2 DEF RowInv
  <2> QED BY <2>1, <2>2 DEF RowInv
<1>7. KeyInv'
  BY <1>0, KeyFrame DEF Rollback, EndTx, TypeData
<1>8. RecordInv'
  BY <1>0, RecordFrame DEF Rollback, OnlyCall
<1>9. Empty(c)'
  BY <1>0, <1>2 DEF Rollback, EndTx, Empty, Held, TypeData
<1> QED BY <1>3, <1>4, <1>5, <1>6, <1>7, <1>8, <1>9 DEF Rest

\* What a transaction that is ready to commit has written.
LEMMA CommitShape ==
    ASSUME IInv, NEW c \in Calls, pc[c] = "commit"
    PROVE  /\ \A t \in wTransfer[c] :
                  /\ t = Row(c, req[c], t.status)
                  /\ t.status \in {"succeeded", "declined"}
                  /\ wLedger[c] = IF t.status = "succeeded" THEN Entries(c, req[c]) ELSE {}
           /\ wTransfer[c] = {} => wLedger[c] = {}
           /\ wTransfer[c] # {} => req[c] \in TransferReqs
           /\ req[c] \in TransferReqs => wTransfer[c] # {} /\ wMint[c] = {}
           /\ req[c] \in TransferReqs \cup MintReqs
           /\ \A m \in wMint[c] : m = NewMint(c, req[c])
<1>1. AtCommit(c)
  BY DEF IInv, TxInv, TxOf
<1>2. \A r \in TransferReqs : r \notin MintReqs
  BY RequestAssumption
<1>0. \A s : Row(c, req[c], s).status = s
  BY DEF Row
<1>3. CASE DeclineReady(c)
  BY <1>0, <1>3 DEF DeclineReady, Claimed
<1>4. CASE SuccessReady(c)
  BY <1>0, <1>4 DEF SuccessReady, Claimed
<1>5. CASE MintReady(c)
  BY <1>2, <1>5 DEF MintReady
<1>6. CASE req[c] \in MintReqs /\ Empty(c)
  BY <1>2, <1>6 DEF Empty
<1> QED BY <1>1, <1>3, <1>4, <1>5, <1>6 DEF AtCommit

\* Commit: the open rows become committed rows, under keys nobody else has.
LEMMA InstallStep ==
    ASSUME IInv, NEW c \in Calls, Install(c), OnlyCall(c),
           pc[c] = "commit", pc'[c] = "done"
    PROVE  Rest(c) /\ Empty(c)'
<1>0. TypeData /\ RowInv /\ KeyInv /\ RecordInv /\ TypeCalls
  BY TypeParts DEF IInv
<1>1. \A d \in Calls \ {c} : \A w \in Wallets : Wrote(d, w)' <=> Wrote(d, w)
  BY DEF Install, EndTx, Wrote
<1>2. \A w \in Wallets : ~Wrote(c, w)'
  BY DEF Install, EndTx, Wrote
<1>3. TypeData'
  <2>1. balance' \in [Wallets -> 0..MaxInt]
    BY <1>0 DEF TypeData, Install, Visible
  <2>2. locks' \subseteq Wallets \X Modes \X Calls
    BY <1>0 DEF TypeData, Install, EndTx
  <2>3. read' \in [Calls -> [Refs -> 0..MaxInt]]
    BY <1>0, BoundAssumption DEF TypeData, Install, EndTx, NoBalances
  <2>4. /\ wTransfer' \in [Calls -> SUBSET TransferRows]
        /\ wLedger' \in [Calls -> SUBSET LedgerRows]
        /\ wMint' \in [Calls -> SUBSET MintRows]
    BY <1>0 DEF TypeData, Install, EndTx
  <2>5. /\ transfers' \subseteq TransferRows
        /\ ledger' \subseteq LedgerRows
        /\ mints' \subseteq MintRows
    BY <1>0 DEF TypeData, Install
  <2> QED BY <1>0, <2>1, <2>2, <2>3, <2>4, <2>5 DEF TypeData, Install
<1>4. ASSUME NEW d \in Calls \ {c} PROVE TxOf(d)'
  <2>1. \A w \in Wallets : Wrote(d, w) => live'[w] = live[w] /\ balance'[w] = balance[w]
    BY <1>0, <1>4 DEF Install, RowInv, Visible
  <2>2. /\ read'[d] = read[d] /\ wTransfer'[d] = wTransfer[d]
        /\ wLedger'[d] = wLedger[d] /\ wMint'[d] = wMint[d]
    BY <1>0, <1>4 DEF Install, EndTx, TypeData
  <2> QED BY <1>1, <1>4, <2>1, <2>2, TxFrame DEF IInv, TxInv, OnlyCall
<1>5. ASSUME NEW d \in Calls \ {c} PROVE AnswerOf(d)'
  <2>1. AnswerOf(d)
    BY <1>5 DEF IInv, AnswerInv
  <2>2. pc'[d] = pc[d] /\ req'[d] = req[d] /\ ret'[d] = ret[d]
    BY <1>5 DEF OnlyCall
  <2>3. Accepted(d)' = Accepted(d) /\ Refused(d)' = Refused(d)
    BY <2>2 DEF Accepted, Refused
  <2>4. Stored(req[d]) # {} => Stored(req[d])' = Stored(req[d])
    <3> SUFFICES ASSUME NEW u \in transfers, u.user = req[d].user, u.key = req[d].key
                 PROVE  Stored(req[d])' = Stored(req[d])
      BY DEF Stored
    <3>1. \A t \in wTransfer[c] : ~(t.user = req[d].user /\ t.key = req[d].key)
      BY <1>0 DEF KeyInv, SameIndexEntry
    <3> QED BY <2>2, <3>1 DEF Stored, Install
  <2>5. \A t \in wTransfer[c] : t.id = c
    BY CommitShape DEF Row
  <2>6. \A m \in wMint[c] : m.id = c
    BY CommitShape DEF NewMint
  <2>7. Refused(d) => /\ \A t \in transfers' : t.id # d
                      /\ \A m \in mints' : m.id # d
    BY <1>5, <2>1, <2>5, <2>6 DEF AnswerOf, Install
  <2> QED BY <2>1, <2>2, <2>3, <2>4, <2>7 DEF AnswerOf, Fingerprint, Stored
<1>6. RowInv'
  <2>1. ASSUME NEW w \in Wallets, \A d \in Calls : ~Wrote(d, w)' PROVE Unwritten(w)'
    <3>1. CASE Wrote(c, w)
      BY <3>1 DEF Install, Unwritten, Visible
    <3>2. CASE ~Wrote(c, w)
      BY <1>0, <1>1, <2>1, <3>2 DEF Install, Unwritten, Visible, RowInv
    <3> QED BY <3>1, <3>2
  <2>2. \A w \in Wallets : \A d, e \in Calls : Wrote(d, w)' /\ Wrote(e, w)' => d = e
    BY <1>0, <1>1, <1>2 DEF RowInv
  <2> QED BY <2>1, <2>2 DEF RowInv
<1>7. KeyInv'
  <2>1. /\ wTransfer'[c] = {} /\ wMint'[c] = {}
        /\ \A d \in Calls \ {c} : wTransfer'[d] = wTransfer[d] /\ wMint'[d] = wMint[d]
    BY <1>0 DEF Install, EndTx, TypeData
  <2>2. \A t, u \in wTransfer[c] : t = u
    BY CommitShape DEF IInv, TxInv, TxOf, AtCommit, DeclineReady, SuccessReady, Claimed,
           MintReady, Empty
  <2>3. \A m, n \in wMint[c] : m = n
    BY CommitShape
  <2>4. \A t, u \in transfers' : SameIndexEntry(t, u) => t = u
    BY <1>0, <2>2 DEF Install, KeyInv, SameIndexEntry
  <2>5. \A m, n \in mints' : m.key = n.key => m = n
    BY <1>0, <2>3 DEF Install, KeyInv
  <2>6. \A d \in Calls : \A t \in wTransfer'[d] : \A u \in transfers' : ~SameIndexEntry(t, u)
    BY <1>0, <2>1 DEF Install, KeyInv, SameIndexEntry
  <2>7. \A d \in Calls : \A m \in wMint'[d] : \A n \in mints' : m.key # n.key
    BY <1>0, <2>1 DEF Install, KeyInv
  <2>8. /\ \A d, e \in Calls : \A t \in wTransfer'[d] : \A u \in wTransfer'[e] :
              SameIndexEntry(t, u) => d = e
        /\ \A d, e \in Calls : \A m \in wMint'[d] : \A n \in wMint'[e] : m.key = n.key => d = e
    BY <1>0, <2>1 DEF KeyInv
  <2> QED BY <2>4, <2>5, <2>6, <2>7, <2>8 DEF KeyInv, SameIndexEntry
<1>8. RecordInv'
  <2>0. \A d \in Calls : pc[d] = "done" => pc'[d] = "done"
    BY DEF OnlyCall
  <2>1. \A t \in wTransfer[c] : t.id = c /\ t.status # "pending" /\ FingerprintOf(t)
    BY CommitShape DEF Row, FingerprintOf, Fingerprint
  <2>2. \A t \in transfers : t.id \in Calls /\ t.id # c
    BY <1>0 DEF RecordInv, TypeData, TransferRows
  <2>3. \A t \in transfers' : t.status # "pending" /\ pc'[t.id] = "done" /\ FingerprintOf(t)
    BY <1>0, <2>0, <2>1, <2>2 DEF RecordInv, Install
  <2>4. \A m \in mints' : m.id \in Calls => pc'[m.id] = "done"
    BY <1>0, <2>0, CommitShape DEF RecordInv, Install, NewMint
  <2>5. \A e \in wLedger[c] : e.transfer = c /\ wTransfer[c] # {}
    <3>1. \A e \in Entries(c, req[c]) : e.transfer = c
      BY DEF Entries
    <3>2. wTransfer[c] = {} => wLedger[c] = {}
      BY CommitShape
    <3>3. \A t \in wTransfer[c] : wLedger[c] \subseteq Entries(c, req[c])
      BY CommitShape
    <3> QED BY <3>1, <3>2, <3>3
  <2>6. \A e \in ledger : e.transfer # c
    BY <1>0, <2>2 DEF RecordInv, LedgerMatchesTransfers
  <2>7. \A e \in ledger' : \E t \in transfers' : t.id = e.transfer
    BY <1>0, <2>1, <2>5 DEF RecordInv, LedgerMatchesTransfers, Install
  <2>8. ASSUME NEW t \in transfers'
        PROVE  { e \in ledger' : e.transfer = t.id } =
                 IF t.status = "succeeded"
                 THEN { [transfer |-> t.id, wallet |-> t.from, delta |-> 0 - t.amt],
                        [transfer |-> t.id, wallet |-> t.to, delta |-> t.amt] }
                 ELSE {}
    <3>1. CASE t \in transfers
      <4>1. { e \in ledger' : e.transfer = t.id } = { e \in ledger : e.transfer = t.id }
        BY <2>2, <2>5, <3>1 DEF Install
      <4> QED BY <1>0, <3>1, <4>1 DEF RecordInv, LedgerMatchesTransfers
    <3>2. CASE t \in wTransfer[c]
      <4>1. { e \in ledger' : e.transfer = t.id } = wLedger[c]
        BY <2>1, <2>5, <2>6, <3>2 DEF Install
      <4>2. t.id = c /\ t.from = RefRow[req[c].from] /\ t.to = RefRow[req[c].to]
            /\ t.amt = req[c].amt
        BY <3>2, CommitShape DEF Row
      <4> QED BY <3>2, <4>1, <4>2, CommitShape DEF Entries
    <3> QED BY <2>8, <3>1, <3>2 DEF Install
  <2>9. LedgerMatchesTransfers'
    BY <2>7, <2>8 DEF LedgerMatchesTransfers
  <2> QED BY <2>3, <2>4, <2>9 DEF RecordInv, FingerprintOf
<1>9. Empty(c)'
  BY <1>0, <1>2 DEF Install, EndTx, Empty, Held, TypeData
<1> QED BY <1>3, <1>4, <1>5, <1>6, <1>7, <1>8, <1>9 DEF Rest

\* A statement of c inside its transaction: it writes only rows it has locked.
LEMMA OwnStep ==
    ASSUME IInv, NEW c \in Calls, OnlyCall(c), pc[c] # "done", UNCHANGED tables,
           TypeData', KeyInv',
           \A d \in Calls \ {c} : /\ read'[d] = read[d]
                                  /\ wTransfer'[d] = wTransfer[d]
                                  /\ wLedger'[d] = wLedger[d]
                                  /\ wMint'[d] = wMint[d],
           \A d \in Calls \ {c} : \A w \in Wallets : Wrote(d, w)' <=> Wrote(d, w),
           \A w \in Wallets : Wrote(c, w)' => \A d \in Calls \ {c} : ~Wrote(d, w),
           \A w \in Wallets : Wrote(c, w) => Wrote(c, w)',
           \A w \in Wallets : ~Wrote(c, w)' => live'[w] = live[w]
    PROVE  Rest(c)
<1> USE DEF tables
<1>1. ASSUME NEW d \in Calls \ {c} PROVE TxOf(d)'
  <2>1. \A w \in Wallets : Wrote(d, w) => live'[w] = live[w] /\ balance'[w] = balance[w]
    BY <1>1
  <2> QED BY <1>1, <2>1, TxFrame DEF IInv, TxInv, OnlyCall
<1>2. ASSUME NEW d \in Calls \ {c} PROVE AnswerOf(d)'
  BY <1>2, AnswerFrame DEF IInv, AnswerInv, OnlyCall
<1>3. RowInv'
  BY DEF IInv, RowInv, Unwritten
<1>4. RecordInv'
  BY RecordFrame, TypeParts DEF IInv, OnlyCall
<1> QED BY <1>1, <1>2, <1>3, <1>4 DEF Rest

\* Two transactions never hold FOR NO KEY UPDATE on one row.
LEMMA CanLockExcludes ==
    ASSUME NEW c \in Calls, NEW w \in Wallets, CanLock(c, w, "NoKeyUpdate")
    PROVE  \A d \in Calls \ {c} : ~Wrote(d, w)
BY DEF CanLock, Holders, Conflicts, Wrote

-----------------------------------------------------------------------------
(* The answer of the call that takes the step.                             *)

\* A call that goes on has not answered yet.
LEMMA AnswerGoto ==
    ASSUME IInv, NEW c \in Calls, pc[c] # "done", ret'[c] = ret[c],
           pc'[c] \notin {"done", "replay"}
    PROVE  AnswerOf(c)'
<1>1. ret'[c] = NoAnswer
  BY DEF IInv, AnswerInv, AnswerOf
<1>2. ret'[c].kind = "none"
  BY <1>1 DEF NoAnswer
<1> QED BY <1>1, <1>2 DEF AnswerOf, Accepted, Refused, NoAnswer

\* A call that returns an error reports no row.
LEMMA AnswerRefuse ==
    ASSUME IInv, NEW c \in Calls, pc[c] # "done", UNCHANGED <<transfers, mints>>,
           pc'[c] = "done",
           ret'[c].kind \notin {"ok", "replay", "debitLost", "transferNotFound"}
    PROVE  AnswerOf(c)'
<1>1. \A t \in transfers : t.id # c
  BY DEF IInv, RecordInv
<1>2. \A m \in mints : m.id # c
  BY DEF IInv, RecordInv
<1> QED BY <1>1, <1>2 DEF AnswerOf, Accepted

Refusals == Kinds \ {"ok", "replay", "debitLost", "transferNotFound"}

\* Types of a step that returns an error.
LEMMA RefuseTyped ==
    ASSUME NEW c \in Calls, TypeCalls, NEW k \in Kinds, Refuse(c, k)
    PROVE  /\ pc' \in [Calls -> Labels]
           /\ ret' \in [Calls -> [kind : Kinds, rows : SUBSET TransferRows,
                                  refs : SUBSET (Refs \X Refs)]]
           /\ pc'[c] = "done" /\ ret'[c].kind = k
           /\ \A d \in Calls \ {c} : pc'[d] = pc[d] /\ ret'[d] = ret[d]
<1>1. [kind |-> k, rows |-> {}, refs |-> {}]
        \in [kind : Kinds, rows : SUBSET TransferRows, refs : SUBSET (Refs \X Refs)]
  OBVIOUS
<1> QED BY <1>1 DEF Refuse, Answer, TypeCalls, Labels

\* Types of a step that only moves on.
LEMMA GotoTyped ==
    ASSUME NEW c \in Calls, TypeCalls, NEW l \in Labels, Goto(c, l)
    PROVE  /\ pc' \in [Calls -> Labels]
           /\ pc'[c] = l /\ ret' = ret
           /\ \A d \in Calls \ {c} : pc'[d] = pc[d]
BY DEF Goto, TypeCalls

\* Every error path: roll back, answer, nothing left behind.
LEMMA RefusalStep ==
    ASSUME IInv, NEW c \in Calls, NEW k \in Refusals, Rollback(c), Refuse(c, k),
           pc[c] # "done", UNCHANGED <<req, attempt>>, faults' \in Nat
    PROVE  IInv'
<1>0. TypeCalls
  BY TypeParts DEF IInv
<1>1. k \in Kinds
  BY DEF Refusals
<1>2. OnlyCall(c)
  BY <1>0, <1>1, RefuseTyped DEF OnlyCall
<1>3. Rest(c) /\ Empty(c)'
  BY <1>2, RollbackStep
<1>4. TypeCalls'
  BY <1>0, <1>1, RefuseTyped DEF TypeCalls
<1>5. pc'[c] = "done" /\ ret'[c].kind = k
  BY <1>0, <1>1, RefuseTyped
<1>6. TxOf(c)'
  BY <1>3, <1>5 DEF TxOf
<1>7. AnswerOf(c)'
  BY <1>5, AnswerRefuse DEF Refusals, Rollback, tables
<1> QED BY <1>3, <1>4, <1>6, <1>7, Assemble

\* fn returned an error: inTx rolls back and hands the error on.
LEMMA FailStep ==
    ASSUME IInv, NEW c \in Calls, NEW k \in Refusals, Fail(c, k), pc[c] # "done"
    PROVE  IInv'
BY RefusalStep, TypeParts DEF Fail, IInv, TypeCalls

-----------------------------------------------------------------------------
(* The actions.                                                            *)

\* Transfer is called.
LEMMA StartTransferStep ==
    ASSUME IInv, NEW c \in Calls, NEW r \in TransferReqs, StartTransfer(c, r)
    PROVE  IInv'
<1>0. TypeCalls /\ pc[c] = "idle"
  BY TypeParts DEF IInv, StartTransfer
<1>1. req' \in [Calls -> TransferReqs \cup MintReqs \cup {NoRequest}] /\ req'[c] = r
  BY <1>0 DEF StartTransfer, TypeCalls
<1>2. Empty(c)'
  BY <1>0 DEF IInv, TxInv, TxOf, Empty, Held, Wrote, StartTransfer, txVars
<1>3. CASE Refuse(c, "sameWallet")
  <2>1. "sameWallet" \in Kinds
    BY DEF Kinds
  <2>2. OnlyCall(c)
    BY <1>0, <1>3, <2>1, RefuseTyped DEF OnlyCall, StartTransfer, TypeCalls
  <2>3. Rest(c)
    BY <1>0, <2>2, LocalStep DEF StartTransfer
  <2>4. TypeCalls' /\ pc'[c] = "done" /\ ret'[c].kind = "sameWallet"
    BY <1>0, <1>1, <1>3, <2>1, RefuseTyped DEF TypeCalls, StartTransfer
  <2>5. AnswerOf(c)'
    BY <1>0, <2>4, AnswerRefuse DEF StartTransfer, tables
  <2> QED BY <1>2, <2>3, <2>4, <2>5, Assemble DEF TxOf
<1>4. CASE Goto(c, "begin")
  <2>1. "begin" \in Labels
    BY DEF Labels
  <2>2. OnlyCall(c)
    BY <1>0, <1>4, <2>1, GotoTyped DEF OnlyCall, StartTransfer, TypeCalls
  <2>3. Rest(c)
    BY <1>0, <2>2, LocalStep DEF StartTransfer
  <2>4. TypeCalls' /\ pc'[c] = "begin" /\ ret'[c] = ret[c]
    BY <1>0, <1>1, <1>4, <2>1, GotoTyped DEF TypeCalls, StartTransfer
  <2>5. AnswerOf(c)'
    BY <1>0, <2>4, AnswerGoto
  <2> QED BY <1>1, <1>2, <2>3, <2>4, <2>5, Assemble DEF TxOf
<1> QED BY <1>3, <1>4 DEF StartTransfer

\* Mint is called.
LEMMA StartMintStep ==
    ASSUME IInv, NEW c \in Calls, NEW r \in MintReqs, StartMint(c, r)
    PROVE  IInv'
<1>0. TypeCalls /\ pc[c] = "idle" /\ "begin" \in Labels
  BY TypeParts DEF IInv, StartMint, Labels
<1>1. req' \in [Calls -> TransferReqs \cup MintReqs \cup {NoRequest}] /\ req'[c] = r
  BY <1>0 DEF StartMint, TypeCalls
<1>2. Empty(c)'
  BY <1>0 DEF IInv, TxInv, TxOf, Empty, Held, Wrote, StartMint, txVars
<1>3. OnlyCall(c)
  BY <1>0, GotoTyped DEF OnlyCall, StartMint, TypeCalls
<1>4. Rest(c)
  BY <1>0, <1>3, LocalStep DEF StartMint
<1>5. TypeCalls' /\ pc'[c] = "begin" /\ ret'[c] = ret[c]
  BY <1>0, <1>1, GotoTyped DEF TypeCalls, StartMint
<1>6. AnswerOf(c)'
  BY <1>0, <1>5, AnswerGoto
<1> QED BY <1>1, <1>2, <1>4, <1>5, <1>6, Assemble DEF TxOf

\* inTx opens a transaction.
LEMMA BeginStep ==
    ASSUME IInv, NEW c \in Calls, Begin(c)
    PROVE  IInv'
<1>0. TypeCalls /\ pc[c] = "begin" /\ TxOf(c)
  BY TypeParts DEF IInv, Begin, TxInv
<1>1. Empty(c)'
  BY <1>0 DEF TxOf, Empty, Held, Wrote, Begin, txVars
<1>2. PICK l \in {"mint", "claim"} : /\ Goto(c, l)
                                     /\ l = "mint" <=> req[c].op = "mint"
  BY DEF Begin
<1>3. l \in Labels
  BY DEF Labels, InTx
<1>4. OnlyCall(c)
  BY <1>0, <1>2, <1>3, GotoTyped DEF OnlyCall, Begin, TypeCalls
<1>5. Rest(c)
  BY <1>0, <1>4, LocalStep DEF Begin
<1>6. TypeCalls' /\ pc'[c] = l /\ ret'[c] = ret[c]
  BY <1>0, <1>2, <1>3, GotoTyped DEF TypeCalls, Begin
<1>7. AnswerOf(c)'
  BY <1>0, <1>6, AnswerGoto
<1>8. /\ l = "mint" => req'[c] \in MintReqs
      /\ l = "claim" => req'[c] \in TransferReqs
  <2>1. req[c] \in TransferReqs => req[c].op = "transfer"
    BY RequestAssumption
  <2>2. req[c] \in MintReqs => req[c].op = "mint"
    BY RequestAssumption
  <2> QED BY <1>0, <1>2, <2>1, <2>2 DEF TxOf, Begin
<1> QED BY <1>1, <1>5, <1>6, <1>7, <1>8, Assemble DEF TxOf

\* The answer of a successful COMMIT names the row that has just been installed.
LEMMA CommitStep ==
    ASSUME IInv, NEW c \in Calls, Commit(c)
    PROVE  IInv'
<1>0. TypeCalls /\ TypeData /\ KeyInv /\ RecordInv /\ pc[c] = "commit"
  BY TypeParts DEF IInv, Commit
<1>1. PICK k \in {"ok", "minted", "mintReplay"},
           rows \in SUBSET TransferRows, refs \in SUBSET (Refs \X Refs) :
        /\ Answer(c, k, rows, refs)
        /\ k = "ok" => req[c] \in TransferReqs /\ rows = wTransfer[c]
  <2>1. CASE req[c].op = "mint"
    BY <2>1 DEF Commit
  <2>2. CASE req[c].op # "mint"
    <3>1. req[c] \in TransferReqs
      BY <1>0, <2>2, CommitShape, RequestAssumption
    <3>2. req[c].from \in Refs /\ req[c].to \in Refs
      BY <3>1, RequestAssumption
    <3>3. Answer(c, "ok", wTransfer[c], {<<req[c].from, req[c].to>>})
      BY <2>2 DEF Commit
    <3>4. wTransfer[c] \in SUBSET TransferRows
      BY <1>0 DEF TypeData
    <3>5. {<<req[c].from, req[c].to>>} \in SUBSET (Refs \X Refs)
      BY <3>2
    <3> QED BY <3>1, <3>3, <3>4, <3>5
  <2> QED BY <2>1, <2>2
<1>2. [kind |-> k, rows |-> rows, refs |-> refs]
        \in [kind : Kinds, rows : SUBSET TransferRows, refs : SUBSET (Refs \X Refs)]
  BY DEF Kinds
<1>3. pc'[c] = "done" /\ ret'[c] = [kind |-> k, rows |-> rows, refs |-> refs]
  BY <1>0, <1>1 DEF Answer, TypeCalls
<1>4. OnlyCall(c)
  BY <1>0, <1>1 DEF OnlyCall, Answer, TypeCalls, Commit
<1>5. Rest(c) /\ Empty(c)'
  BY <1>0, <1>3, <1>4, InstallStep DEF Commit
<1>6. TypeCalls'
  BY <1>0, <1>1, <1>2 DEF Answer, TypeCalls, Commit, Labels
<1>7. AnswerOf(c)'
  <2>1. CASE k # "ok"
    BY <1>3, <2>1 DEF AnswerOf, Accepted, Refused
  <2>2. CASE k = "ok"
    <3>1. req'[c] \in TransferReqs /\ req'[c] = req[c]
      BY <1>1, <2>2 DEF Commit
    <3>2. \A t \in wTransfer[c] : /\ t.user = req[c].user /\ t.key = req[c].key
                                  /\ t.id = c /\ t.fp = Fingerprint(req[c])
      BY <1>0, CommitShape DEF Row
    <3>3. wTransfer[c] # {}
      BY <1>0, <3>1, CommitShape
    <3>4. Stored(req[c])' = wTransfer[c]
      <4>1. \A u \in transfers : ~(u.user = req[c].user /\ u.key = req[c].key)
        BY <1>0, <3>2, <3>3 DEF KeyInv, SameIndexEntry
      <4> QED BY <3>1, <3>2, <4>1 DEF Stored, Commit, Install
    <3>5. ret'[c].rows = wTransfer[c] /\ ret'[c].kind = "ok"
      BY <1>1, <1>3, <2>2
    <3> QED BY <1>3, <3>1, <3>2, <3>3, <3>4, <3>5 DEF AnswerOf, Accepted, Refused, Fingerprint
  <2> QED BY <2>1, <2>2
<1> QED BY <1>3, <1>5, <1>6, <1>7, Assemble DEF TxOf

\* The commit takes effect, its reply is lost.
LEMMA CommitReplyLostStep ==
    ASSUME IInv, NEW c \in Calls, CommitReplyLost(c)
    PROVE  IInv'
<1>0. TypeCalls /\ pc[c] = "commit" /\ "connLost" \in Kinds
  BY TypeParts DEF IInv, CommitReplyLost, Kinds
<1>1. pc'[c] = "done" /\ ret'[c].kind = "connLost"
  BY <1>0, RefuseTyped DEF CommitReplyLost
<1>2. OnlyCall(c)
  BY <1>0, RefuseTyped DEF OnlyCall, CommitReplyLost
<1>3. Rest(c) /\ Empty(c)'
  BY <1>0, <1>1, <1>2, InstallStep DEF CommitReplyLost
<1>4. TypeCalls'
  BY <1>0, RefuseTyped DEF TypeCalls, CommitReplyLost
<1>5. AnswerOf(c)'
  BY <1>1 DEF AnswerOf, Accepted, Refused
<1> QED BY <1>1, <1>3, <1>4, <1>5, Assemble DEF TxOf

\* The connection is lost before the commit.
LEMMA ConnLostStep ==
    ASSUME IInv, NEW c \in Calls, ConnLost(c)
    PROVE  IInv'
<1>1. "connLost" \in Refusals /\ pc[c] # "done" /\ faults' \in Nat
  BY TypeParts DEF Refusals, Kinds, ConnLost, InTx, IInv, TypeCalls
<1> QED BY <1>1, RefusalStep DEF ConnLost

\* 40P01: rolled back, then retried or given up.
LEMMA DeadlockVictimStep ==
    ASSUME IInv, NEW c \in Calls, DeadlockVictim(c)
    PROVE  IInv'
<1>0. TypeCalls /\ pc[c] \in InTx /\ Rollback(c)
  BY TypeParts DEF IInv, DeadlockVictim
<1>1. CASE Refuse(c, "attempts")
  <2>1. "attempts" \in Refusals /\ pc[c] # "done" /\ faults' \in Nat
    BY <1>0 DEF Refusals, Kinds, InTx, TypeCalls, DeadlockVictim
  <2> QED BY <1>0, <1>1, <2>1, RefusalStep DEF DeadlockVictim
<1>2. CASE Goto(c, "begin")
  <2>1. "begin" \in Labels /\ pc[c] # "done"
    BY <1>0 DEF Labels, InTx
  <2>2. req[c] \in TransferReqs \cup MintReqs
    BY <1>0 DEF IInv, TxInv, TxOf, InTx, AtLockLo, AtLockHi, AtDecide, AtCredit, AtPost,
           AtFund, AtCommit, DeclineReady, SuccessReady, MintReady, Claimed
  <2>3. OnlyCall(c)
    BY <1>0, <1>2, <2>1, GotoTyped DEF OnlyCall, DeadlockVictim
  <2>4. Rest(c) /\ Empty(c)'
    BY <1>0, <2>1, <2>3, RollbackStep
  <2>5. TypeCalls' /\ pc'[c] = "begin" /\ ret'[c] = ret[c] /\ req' = req
    BY <1>0, <1>2, <2>1, GotoTyped DEF TypeCalls, DeadlockVictim
  <2>6. AnswerOf(c)'
    BY <2>1, <2>5, AnswerGoto
  <2> QED BY <2>2, <2>4, <2>5, <2>6, Assemble DEF TxOf
<1> QED BY <1>1, <1>2 DEF DeadlockVictim

\* The INSERT is refused: no such wallet, or one wallet spelled twice.
LEMMA ClaimRefusedStep ==
    ASSUME IInv, NEW c \in Calls, ClaimNoWallet(c) \/ ClaimSelf(c) \/ MintNoWallet(c)
    PROVE  IInv'
<1>1. "walletNotFound" \in Refusals /\ "checkViolation" \in Refusals
  BY DEF Refusals, Kinds
<1>2. pc[c] # "done"
  BY DEF ClaimNoWallet, ClaimSelf, MintNoWallet
<1> QED BY <1>1, <1>2, FailStep DEF ClaimNoWallet, ClaimSelf, MintNoWallet

\* The INSERT lost the race: somebody else's row is committed.
LEMMA ClaimLostStep ==
    ASSUME IInv, NEW c \in Calls, ClaimLost(c)
    PROVE  IInv'
<1>0. TypeCalls /\ pc[c] = "claim" /\ Rollback(c) /\ KeyTaken(req[c])
  BY TypeParts DEF IInv, ClaimLost
<1>1. "replay" \in Labels /\ Goto(c, "replay")
  BY DEF Labels, ClaimLost
<1>2. OnlyCall(c)
  BY <1>0, <1>1, GotoTyped DEF OnlyCall, ClaimLost
<1>3. Rest(c) /\ Empty(c)'
  BY <1>0, <1>2, RollbackStep
<1>4. TypeCalls' /\ pc'[c] = "replay" /\ ret'[c] = ret[c] /\ req' = req
  BY <1>0, <1>1, GotoTyped DEF TypeCalls, ClaimLost
<1>5. AnswerOf(c)'
  <2>1. ret'[c] = NoAnswer
    BY <1>0, <1>4 DEF IInv, AnswerInv, AnswerOf
  <2>2. Stored(req[c])' # {}
    BY <1>0, <1>4 DEF Stored, KeyTaken, Rollback, tables
  <2> QED BY <1>4, <2>1, <2>2 DEF AnswerOf, Accepted, Refused, NoAnswer
<1>6. req[c] \in TransferReqs
  BY <1>0 DEF IInv, TxInv, TxOf
<1> QED BY <1>3, <1>4, <1>5, <1>6, Assemble DEF TxOf

\* The stored row is read back and compared by fingerprint.
LEMMA ReplayStep ==
    ASSUME IInv, NEW c \in Calls, Replay(c)
    PROVE  IInv'
<1>0. TypeCalls /\ TypeData /\ pc[c] = "replay" /\ TxOf(c) /\ AnswerOf(c)
  BY TypeParts DEF IInv, Replay, TxInv, AnswerInv
<1>1. Stored(req[c]) # {} /\ req[c] \in TransferReqs
  BY <1>0 DEF AnswerOf, TxOf
<1>2. Empty(c)'
  BY <1>0 DEF TxOf, Empty, Held, Wrote, Replay, txVars
<1>3. CASE Refuse(c, "conflict")
  <2>1. "conflict" \in Kinds
    BY DEF Kinds
  <2>2. OnlyCall(c)
    BY <1>0, <1>3, <2>1, RefuseTyped DEF OnlyCall, Replay
  <2>3. Rest(c)
    BY <1>0, <2>2, LocalStep DEF Replay
  <2>4. TypeCalls' /\ pc'[c] = "done" /\ ret'[c].kind = "conflict"
    BY <1>0, <1>3, <2>1, RefuseTyped DEF TypeCalls, Replay
  <2>5. AnswerOf(c)'
    BY <1>0, <2>4, AnswerRefuse DEF Replay, tables
  <2> QED BY <1>2, <2>3, <2>4, <2>5, Assemble DEF TxOf
<1>4. CASE /\ \A t \in Stored(req[c]) : t.fp = Fingerprint(req[c])
           /\ Answer(c, "replay", Stored(req[c]), Printed(Stored(req[c])))
  <2> DEFINE a == [kind |-> "replay", rows |-> Stored(req[c]), refs |-> Printed(Stored(req[c]))]
  <2>1. Stored(req[c]) \subseteq TransferRows
    BY <1>0 DEF Stored, TypeData
  <2>2. Printed(Stored(req[c])) \subseteq Refs \X Refs
    BY <2>1, RefAssumption DEF Printed, TransferRows
  <2>3. a \in [kind : Kinds, rows : SUBSET TransferRows, refs : SUBSET (Refs \X Refs)]
    BY <2>1, <2>2 DEF Kinds
  <2>4. pc'[c] = "done" /\ ret'[c] = a
    BY <1>0, <1>4 DEF Answer, TypeCalls
  <2>5. OnlyCall(c)
    BY <1>0, <1>4 DEF OnlyCall, Answer, TypeCalls, Replay
  <2>6. Rest(c)
    BY <1>0, <2>5, LocalStep DEF Replay
  <2>7. TypeCalls'
    BY <1>0, <1>4, <2>3 DEF Answer, TypeCalls, Replay, Labels
  <2>8. Stored(req[c])' = Stored(req[c]) /\ req' = req
    BY DEF Stored, Replay, tables
  <2>9. AnswerOf(c)'
    BY <1>1, <1>4, <2>4, <2>8 DEF AnswerOf, Accepted, Refused, Fingerprint
  <2> QED BY <1>2, <2>4, <2>6, <2>7, <2>9, Assemble DEF TxOf
<1> QED BY <1>1, <1>3, <1>4 DEF Replay

\* The inserted row has the type of a transfers row.
LEMMA RowTyped ==
    ASSUME NEW c \in Calls, NEW r \in TransferReqs, NEW s \in Statuses,
           RefRow[r.from] \in Wallets, RefRow[r.to] \in Wallets
    PROVE  Row(c, r, s) \in TransferRows
<1>1. /\ r.user \in Users /\ r.key \in Keys /\ r.amt \in Amounts
      /\ r.from \in Refs /\ r.to \in Refs
  BY RequestAssumption
<1>2. Fingerprint(r) \in Refs \X Refs \X Amounts
  BY <1>1 DEF Fingerprint
<1> QED BY <1>1, <1>2 DEF Row, TransferRows

\* The key is free, in the table and among the open transactions, so the row
\* may be inserted.
LEMMA ClaimStep ==
    ASSUME IInv, NEW c \in Calls, Claim(c)
    PROVE  IInv'
<1>0. TypeCalls /\ TypeData /\ KeyInv /\ pc[c] = "claim" /\ TxOf(c)
  BY TypeParts DEF IInv, Claim, TxInv
<1>1. req[c] \in TransferReqs /\ Empty(c)
  BY <1>0 DEF TxOf
<1>2. From(c) \in Wallets /\ To(c) \in Wallets /\ From(c) # To(c)
  BY DEF Claim, From, To
<1>3. Row(c, req[c], "pending") \in TransferRows
  BY <1>1, <1>2, RowTyped DEF Statuses, From, To
<1>4. \A d \in Calls : \A w \in Wallets : Wrote(d, w)' <=> Wrote(d, w)
  BY DEF Claim, Wrote
<1>5. TypeData'
  <2>1. wTransfer' \in [Calls -> SUBSET TransferRows]
    BY <1>0, <1>3 DEF TypeData, Claim, NewRow
  <2>2. locks' \subseteq Wallets \X Modes \X Calls
    BY <1>0 DEF TypeData, Claim, Modes
  <2> QED BY <1>0, <2>1, <2>2 DEF TypeData, Claim, tables
<1>6. /\ wTransfer'[c] = {Row(c, req[c], "pending")}
      /\ \A d \in Calls \ {c} : wTransfer'[d] = wTransfer[d]
  BY <1>0 DEF TypeData, Claim, NewRow
<1>7. KeyInv'
  <2>1. Row(c, req[c], "pending").user = req[c].user /\ Row(c, req[c], "pending").key = req[c].key
    BY DEF Row
  <2>2. \A u \in transfers : ~(u.user = req[c].user /\ u.key = req[c].key)
    BY DEF Claim, KeyTaken
  <2>3. \A d \in Calls \ {c} : \A u \in wTransfer[d] : ~(u.user = req[c].user /\ u.key = req[c].key)
    BY DEF Claim, KeyHolders
  <2>4. \A d \in Calls : \A t \in wTransfer'[d] : \A u \in transfers : ~SameIndexEntry(t, u)
    BY <1>0, <1>6, <2>1, <2>2 DEF KeyInv, SameIndexEntry
  <2>5. \A d, e \in Calls : \A t \in wTransfer'[d] : \A u \in wTransfer'[e] :
            SameIndexEntry(t, u) => d = e
    BY <1>0, <1>6, <2>1, <2>3 DEF KeyInv, SameIndexEntry
  <2>6. UNCHANGED <<transfers, mints, wMint>>
    BY DEF Claim, tables
  <2> QED BY <1>0, <2>4, <2>5, <2>6 DEF KeyInv, SameIndexEntry
<1>8. "lockLo" \in Labels /\ Goto(c, "lockLo")
  BY DEF Labels, InTx, Claim
<1>9. TypeCalls' /\ pc'[c] = "lockLo" /\ ret'[c] = ret[c] /\ OnlyCall(c)
  BY <1>0, <1>8, GotoTyped DEF TypeCalls, Claim, OnlyCall
<1>10. Rest(c)
  BY <1>0, <1>1, <1>4, <1>5, <1>6, <1>7, <1>9, OwnStep DEF Claim, Empty, Held
<1>11. AnswerOf(c)'
  BY <1>0, <1>9, AnswerGoto
<1>12. AtLockLo(c)'
  BY <1>1, <1>2, <1>4, <1>6 DEF AtLockLo, Claimed, Claim, Empty, Held, From, To, Row, Fingerprint
<1> QED BY <1>9, <1>10, <1>11, <1>12, Assemble DEF TxOf

\* The mint key is free, so the mint may be inserted.
LEMMA MintInsertStep ==
    ASSUME IInv, NEW c \in Calls, MintInsert(c)
    PROVE  IInv'
<1>0. TypeCalls /\ TypeData /\ KeyInv /\ pc[c] = "mint" /\ TxOf(c)
  BY TypeParts DEF IInv, MintInsert, TxInv
<1>1. req[c] \in MintReqs /\ Empty(c) /\ RefRow[req[c].wallet] \in Wallets
  BY <1>0 DEF TxOf, MintInsert
<1>2. NewMint(c, req[c]) \in MintRows
  <2>1. req[c].key \in MintKeys /\ req[c].amt \in Amounts
    BY <1>1, RequestAssumption
  <2> QED BY <1>1, <2>1 DEF NewMint, MintRows
<1>3. \A d \in Calls : \A w \in Wallets : Wrote(d, w)' <=> Wrote(d, w)
  BY DEF MintInsert, Wrote
<1>4. TypeData'
  <2>1. wMint' \in [Calls -> SUBSET MintRows]
    BY <1>0, <1>2 DEF TypeData, MintInsert
  <2>2. locks' \subseteq Wallets \X Modes \X Calls
    BY <1>0 DEF TypeData, MintInsert, Modes
  <2> QED BY <1>0, <2>1, <2>2 DEF TypeData, MintInsert, tables
<1>5. /\ wMint'[c] = {NewMint(c, req[c])}
      /\ \A d \in Calls \ {c} : wMint'[d] = wMint[d]
  BY <1>0 DEF TypeData, MintInsert
<1>6. KeyInv'
  <2>1. NewMint(c, req[c]).key = req[c].key
    BY DEF NewMint
  <2>2. \A n \in mints : n.key # req[c].key
    BY DEF MintInsert, MintTaken
  <2>3. \A d \in Calls \ {c} : \A n \in wMint[d] : n.key # req[c].key
    BY DEF MintInsert, MintHolders
  <2>4. \A d \in Calls : \A m \in wMint'[d] : \A n \in mints : m.key # n.key
    BY <1>0, <1>5, <2>1, <2>2 DEF KeyInv
  <2>5. \A d, e \in Calls : \A m \in wMint'[d] : \A n \in wMint'[e] : m.key = n.key => d = e
    BY <1>0, <1>5, <2>1, <2>3 DEF KeyInv
  <2>6. UNCHANGED <<transfers, mints, wTransfer>>
    BY DEF MintInsert, tables
  <2> QED BY <1>0, <2>4, <2>5, <2>6 DEF KeyInv, SameIndexEntry
<1>7. "fund" \in Labels /\ Goto(c, "fund")
  BY DEF Labels, InTx, MintInsert
<1>8. TypeCalls' /\ pc'[c] = "fund" /\ ret'[c] = ret[c] /\ OnlyCall(c)
  BY <1>0, <1>7, GotoTyped DEF TypeCalls, MintInsert, OnlyCall
<1>9. Rest(c)
  BY <1>0, <1>1, <1>3, <1>4, <1>5, <1>6, <1>8, OwnStep DEF MintInsert, Empty, Held
<1>10. AnswerOf(c)'
  BY <1>0, <1>8, AnswerGoto
<1>11. AtFund(c)'
  BY <1>1, <1>3, <1>5 DEF AtFund, MintInsert, Empty, Held, NewMint
<1> QED BY <1>8, <1>9, <1>10, <1>11, Assemble DEF TxOf

\* A mint key that was used before: the transaction commits empty.
LEMMA MintLostStep ==
    ASSUME IInv, NEW c \in Calls, MintLost(c)
    PROVE  IInv'
<1>0. TypeCalls /\ pc[c] = "mint" /\ TxOf(c)
  BY TypeParts DEF IInv, MintLost, TxInv
<1>1. "commit" \in Labels /\ Goto(c, "commit")
  BY DEF Labels, InTx, MintLost
<1>2. TypeCalls' /\ pc'[c] = "commit" /\ ret'[c] = ret[c] /\ OnlyCall(c)
  BY <1>0, <1>1, GotoTyped DEF TypeCalls, MintLost, OnlyCall
<1>3. Rest(c)
  BY <1>0, <1>2, LocalStep DEF MintLost
<1>4. AnswerOf(c)'
  BY <1>0, <1>2, AnswerGoto
<1>5. AtCommit(c)'
  BY <1>0 DEF TxOf, AtCommit, Empty, Held, Wrote, MintLost, txVars
<1> QED BY <1>2, <1>3, <1>4, <1>5, Assemble DEF TxOf

-----------------------------------------------------------------------------

\* SELECT ... FOR NO KEY UPDATE on a row that c does not hold yet.
LEMMA LockRowStep ==
    ASSUME IInv, NEW c \in Calls, NEW w \in Wallets, NEW l \in Labels,
           LockRow(c, w), Goto(c, l), pc[c] # "done", ~Wrote(c, w)
    PROVE  /\ Rest(c) /\ TypeCalls' /\ OnlyCall(c)
           /\ pc'[c] = l /\ ret'[c] = ret[c]
           /\ Held(c)' = Held(c) \cup {w}
           /\ Unwritten(w)
           /\ read'[c] = [read[c] EXCEPT ![Canon[w]] = live[w]]
<1>0. TypeCalls /\ TypeData /\ RowInv /\ KeyInv
  BY TypeParts DEF IInv
<1>1. \A d \in Calls \ {c} : ~Wrote(d, w)
  BY CanLockExcludes DEF LockRow, RowLock
<1>2. Unwritten(w) /\ Visible(c, w) = live[w]
  BY <1>0, <1>1 DEF RowInv, Visible, Unwritten
<1>3. locks' = locks \cup {<<w, "NoKeyUpdate", c>>}
  BY DEF LockRow, RowLock
<1>4. \A d \in Calls \ {c} : \A v \in Wallets : Wrote(d, v)' <=> Wrote(d, v)
  BY <1>3 DEF Wrote
<1>5. \A v \in Wallets : Wrote(c, v)' <=> Wrote(c, v) \/ v = w
  BY <1>3 DEF Wrote
<1>6. Canon[w] \in Refs /\ live[w] \in 0..MaxInt
  BY <1>0, RefAssumption DEF TypeData
<1>7. /\ read'[c] = [read[c] EXCEPT ![Canon[w]] = live[w]]
      /\ \A d \in Calls \ {c} : read'[d] = read[d]
      /\ read' \in [Calls -> [Refs -> 0..MaxInt]]
  BY <1>0, <1>2, <1>6 DEF LockRow, TypeData
<1>8. TypeData'
  <2>1. locks' \subseteq Wallets \X Modes \X Calls
    BY <1>0, <1>3 DEF TypeData, Modes
  <2> QED BY <1>0, <1>7, <2>1 DEF TypeData, LockRow, tables
<1>9. KeyInv'
  BY <1>0, KeyFrame DEF LockRow, tables
<1>10. TypeCalls' /\ pc'[c] = l /\ ret'[c] = ret[c] /\ OnlyCall(c)
  BY <1>0, GotoTyped DEF TypeCalls, LockRow, OnlyCall
<1>11. \A v \in Wallets : Wrote(c, v)' => \A d \in Calls \ {c} : ~Wrote(d, v)
  BY <1>0, <1>1, <1>5 DEF RowInv
<1>12. Rest(c)
  BY <1>4, <1>5, <1>7, <1>8, <1>9, <1>10, <1>11, OwnStep DEF LockRow
<1>13. Held(c)' = Held(c) \cup {w}
  BY <1>5 DEF Held
<1> QED BY <1>2, <1>7, <1>10, <1>12, <1>13

\* The first of the two row locks.
LEMMA LockLoStep ==
    ASSUME IInv, NEW c \in Calls, LockLo(c)
    PROVE  IInv'
<1> DEFINE w == RefRow[Lo(req[c])]
<1>0. pc[c] = "lockLo" /\ AtLockLo(c) /\ TypeData
  BY TypeParts DEF IInv, LockLo, TxInv, TxOf
<1>1. w \in Wallets /\ "lockHi" \in Labels
  BY <1>0 DEF AtLockLo, Claimed, From, To, Lo, Labels, InTx
<1>2. ~Wrote(c, w)
  BY <1>0, <1>1 DEF AtLockLo, Held
<1>3. LockRow(c, w) /\ Goto(c, "lockHi")
  BY DEF LockLo
<1>4. /\ Rest(c) /\ TypeCalls' /\ pc'[c] = "lockHi" /\ ret'[c] = ret[c]
      /\ Held(c)' = Held(c) \cup {w} /\ Unwritten(w)
      /\ read'[c] = [read[c] EXCEPT ![Canon[w]] = live[w]]
  BY <1>0, <1>1, <1>2, <1>3, LockRowStep
<1>5. AnswerOf(c)'
  BY <1>0, <1>4, AnswerGoto
<1>6. req' = req /\ live' = live /\ balance' = balance
  BY <1>3 DEF LockRow, tables
<1>7. Held(c)' = {w}
  BY <1>0, <1>4 DEF AtLockLo
<1>8. MapIsCurrent(c)'
  <2>1. Canon[w] \in Refs
    BY <1>1, RefAssumption
  <2>2. read[c] = [ref \in Refs |-> 0]
    BY <1>0 DEF AtLockLo, NoBalances
  <2>3. read'[c] = [ref \in Refs |-> IF ref = Canon[w] THEN live[w] ELSE 0]
    BY <1>4, <2>1, <2>2
  <2> HIDE DEF w
  <2> QED BY <1>6, <1>7, <2>1, <2>3 DEF MapIsCurrent
<1>9. Claimed(c, "pending")' /\ wLedger'[c] = {}
  BY <1>0, <1>3, <1>6 DEF AtLockLo, Claimed, LockRow, From, To, Row, Fingerprint
<1>10. AtLockHi(c)'
  BY <1>4, <1>6, <1>7, <1>8, <1>9 DEF AtLockHi, Unwritten, Lo
<1> QED BY <1>4, <1>5, <1>10, Assemble DEF TxOf

\* The second of the two row locks.
LEMMA LockHiStep ==
    ASSUME IInv, NEW c \in Calls, LockHi(c)
    PROVE  IInv'
<1> DEFINE v == RefRow[Lo(req[c])]
           w == RefRow[Hi(req[c])]
<1>0. pc[c] = "lockHi" /\ AtLockHi(c) /\ TypeData
  BY TypeParts DEF IInv, LockHi, TxInv, TxOf
<1>1. /\ v \in Wallets /\ w \in Wallets /\ v # w /\ {v, w} = {From(c), To(c)}
      /\ "decide" \in Labels
  BY <1>0 DEF AtLockHi, Claimed, From, To, Lo, Hi, Labels, InTx
<1>2. ~Wrote(c, w)
  BY <1>0, <1>1 DEF AtLockHi, Held
<1>3. LockRow(c, w) /\ Goto(c, "decide")
  BY DEF LockHi
<1>4. /\ Rest(c) /\ TypeCalls' /\ pc'[c] = "decide" /\ ret'[c] = ret[c]
      /\ Held(c)' = Held(c) \cup {w} /\ Unwritten(w)
      /\ read'[c] = [read[c] EXCEPT ![Canon[w]] = live[w]]
  BY <1>0, <1>1, <1>2, <1>3, LockRowStep
<1>5. AnswerOf(c)'
  BY <1>0, <1>4, AnswerGoto
<1>6. req' = req /\ live' = live /\ balance' = balance
  BY <1>3 DEF LockRow, tables
<1>7. Held(c) = {v} /\ Held(c)' = {v, w} /\ Unwritten(v) /\ MapIsCurrent(c)
  BY <1>0, <1>4 DEF AtLockHi
<1>8. MapIsCurrent(c)'
  <2>1. Canon[w] \in Refs /\ Canon[v] \in Refs /\ Canon[v] # Canon[w]
    BY <1>1, RefAssumption
  <2>2. read[c] \in [Refs -> 0..MaxInt]
    BY <1>0 DEF TypeData
  <2>3. \A ref \in Refs : read'[c][ref] = IF ref = Canon[w] THEN live[w] ELSE read[c][ref]
    BY <1>4, <2>1, <2>2
  <2> HIDE DEF v, w
  <2> QED BY <1>6, <1>7, <2>1, <2>3 DEF MapIsCurrent
<1>9. Claimed(c, "pending")' /\ wLedger'[c] = {}
  BY <1>0, <1>3, <1>6 DEF AtLockHi, Claimed, LockRow, From, To, Row, Fingerprint
<1>10. From(c)' = From(c) /\ To(c)' = To(c)
  BY <1>6 DEF From, To
<1>11. Unwritten(From(c))' /\ Unwritten(To(c))'
  <2> HIDE DEF v, w
  <2> QED BY <1>1, <1>4, <1>6, <1>7, <1>10 DEF Unwritten
<1>12. AtDecide(c)'
  BY <1>1, <1>7, <1>8, <1>9, <1>10, <1>11 DEF AtDecide
<1> QED BY <1>4, <1>5, <1>12, Assemble DEF TxOf

-----------------------------------------------------------------------------

\* A decline is recorded without touching a wallet.
LEMMA DeclineStep ==
    ASSUME IInv, NEW c \in Calls, Decline(c)
    PROVE  IInv'
<1>0. TypeCalls /\ TypeData /\ RowInv /\ KeyInv /\ pc[c] = "decide" /\ AtDecide(c)
  BY TypeParts DEF IInv, Decline, TxInv, TxOf
<1>1. Claimed(c, "pending")
  BY <1>0 DEF AtDecide
<1>2. Row(c, req[c], "declined") \in TransferRows
  BY <1>1, RowTyped DEF Statuses, Claimed, From, To
<1>3. /\ wTransfer'[c] = {Row(c, req[c], "declined")}
      /\ \A d \in Calls \ {c} : wTransfer'[d] = wTransfer[d]
      /\ wTransfer' \in [Calls -> SUBSET TransferRows]
  <2>1. WithStatus(wTransfer[c], "declined") = {Row(c, req[c], "declined")}
    BY <1>1, StatusUpdate DEF Claimed
  <2> QED BY <1>0, <1>2, <2>1 DEF Decline, TypeData
<1>4. \A d \in Calls : \A w \in Wallets : Wrote(d, w)' <=> Wrote(d, w)
  BY DEF Decline, Wrote
<1>5. TypeData'
  BY <1>0, <1>3 DEF TypeData, Decline, tables
<1>6. KeyInv'
  <2>1. \A t \in wTransfer'[c] : \E u \in wTransfer[c] : t.user = u.user /\ t.key = u.key
    BY <1>1, <1>3 DEF Claimed, Row
  <2> QED BY <1>0, <1>3, <2>1, KeyFrame DEF Decline, tables
<1>7. "commit" \in Labels /\ Goto(c, "commit")
  BY DEF Labels, InTx, Decline
<1>8. TypeCalls' /\ pc'[c] = "commit" /\ ret'[c] = ret[c] /\ OnlyCall(c)
  BY <1>0, <1>7, GotoTyped DEF TypeCalls, Decline, OnlyCall
<1>9. Rest(c)
  BY <1>0, <1>3, <1>4, <1>5, <1>6, <1>8, OwnStep DEF Decline, RowInv
<1>10. AnswerOf(c)'
  BY <1>0, <1>8, AnswerGoto
<1>11. DeclineReady(c)'
  <2>1. Claimed(c, "declined")' /\ wLedger'[c] = {}
    BY <1>0, <1>1, <1>3 DEF AtDecide, Claimed, Decline, From, To, Row, Fingerprint
  <2>2. Held(c)' = {From(c), To(c)}' /\ Unwritten(From(c))' /\ Unwritten(To(c))'
    BY <1>0, <1>4 DEF AtDecide, Held, Unwritten, Decline, From, To, tables
  <2>3. req[c].from = Canon[From(c)] => balance[From(c)] < req[c].amt
    BY <1>0 DEF AtDecide, MapIsCurrent, Unwritten, Decline, Short
  <2> QED BY <2>1, <2>2, <2>3 DEF DeclineReady, Decline, tables, From
<1> QED BY <1>8, <1>9, <1>10, <1>11, Assemble DEF TxOf, AtCommit

\* The ledger rows and the final status.
LEMMA PostStep ==
    ASSUME IInv, NEW c \in Calls, Post(c)
    PROVE  IInv'
<1>0. TypeCalls /\ TypeData /\ RowInv /\ KeyInv /\ pc[c] = "post" /\ AtPost(c)
  BY TypeParts DEF IInv, Post, TxInv, TxOf
<1>1. Claimed(c, "pending")
  BY <1>0 DEF AtPost
<1>2. Row(c, req[c], "succeeded") \in TransferRows
  BY <1>1, RowTyped DEF Statuses, Claimed, From, To
<1>3. /\ wTransfer'[c] = {Row(c, req[c], "succeeded")}
      /\ \A d \in Calls \ {c} : wTransfer'[d] = wTransfer[d]
      /\ wTransfer' \in [Calls -> SUBSET TransferRows]
  <2>1. WithStatus(wTransfer[c], "succeeded") = {Row(c, req[c], "succeeded")}
    BY <1>1, StatusUpdate DEF Claimed
  <2> QED BY <1>0, <1>2, <2>1 DEF Post, TypeData
<1>4. Entries(c, req[c]) \subseteq LedgerRows
  <2>1. req[c].amt \in Int
    BY <1>1, RequestAssumption DEF Claimed, Amounts
  <2> QED BY <1>1, <2>1 DEF Entries, LedgerRows, Claimed, From, To
<1>5. /\ wLedger'[c] = Entries(c, req[c])
      /\ \A d \in Calls \ {c} : wLedger'[d] = wLedger[d]
      /\ wLedger' \in [Calls -> SUBSET LedgerRows]
  BY <1>0, <1>4 DEF Post, TypeData
<1>6. \A d \in Calls : \A w \in Wallets : Wrote(d, w)' <=> Wrote(d, w)
  BY DEF Post, Wrote
<1>7. TypeData'
  BY <1>0, <1>3, <1>5 DEF TypeData, Post, tables
<1>8. KeyInv'
  <2>1. \A t \in wTransfer'[c] : \E u \in wTransfer[c] : t.user = u.user /\ t.key = u.key
    BY <1>1, <1>3 DEF Claimed, Row
  <2> QED BY <1>0, <1>3, <2>1, KeyFrame DEF Post, tables
<1>9. "commit" \in Labels /\ Goto(c, "commit")
  BY DEF Labels, InTx, Post
<1>10. TypeCalls' /\ pc'[c] = "commit" /\ ret'[c] = ret[c] /\ OnlyCall(c)
  BY <1>0, <1>9, GotoTyped DEF TypeCalls, Post, OnlyCall
<1>11. Rest(c)
  BY <1>0, <1>3, <1>5, <1>6, <1>7, <1>8, <1>10, OwnStep DEF Post, RowInv
<1>12. AnswerOf(c)'
  BY <1>0, <1>10, AnswerGoto
<1>13. SuccessReady(c)'
  <2>1. Claimed(c, "succeeded")' /\ wLedger'[c] = Entries(c, req[c])'
    BY <1>0, <1>1, <1>3, <1>5 DEF AtPost, Claimed, Post, From, To, Row, Fingerprint, Entries
  <2>2. Held(c)' = {From(c), To(c)}' /\ Debited(c)' /\ Credited(c)'
    BY <1>0, <1>6 DEF AtPost, Held, Debited, Credited, Post, From, To, tables
  <2> QED BY <2>1, <2>2 DEF SuccessReady
<1> QED BY <1>10, <1>11, <1>12, <1>13, Assemble DEF TxOf, AtCommit

\* UPDATE wallets on a row that nobody else holds.
LEMMA UpdateStep ==
    ASSUME IInv, NEW c \in Calls, NEW w \in Wallets, NEW x \in 0..MaxInt, NEW l \in Labels,
           CanLock(c, w, "NoKeyUpdate"), Update(c, w, x), Goto(c, l), pc[c] # "done",
           UNCHANGED <<tables, wTransfer, wLedger, wMint, read, req, attempt, faults>>
    PROVE  /\ Rest(c) /\ TypeCalls'
           /\ pc'[c] = l /\ ret'[c] = ret[c]
           /\ Held(c)' = Held(c) \cup {w}
           /\ live'[w] = x
           /\ \A v \in Wallets \ {w} : live'[v] = live[v]
<1>0. TypeCalls /\ TypeData /\ RowInv /\ KeyInv
  BY TypeParts DEF IInv
<1>1. \A d \in Calls \ {c} : ~Wrote(d, w)
  BY CanLockExcludes
<1>2. \A d \in Calls \ {c} : \A v \in Wallets : Wrote(d, v)' <=> Wrote(d, v)
  BY DEF Wrote, Update
<1>3. \A v \in Wallets : Wrote(c, v)' <=> Wrote(c, v) \/ v = w
  BY DEF Wrote, Update
<1>4. /\ live'[w] = x
      /\ \A v \in Wallets \ {w} : live'[v] = live[v]
      /\ live' \in [Wallets -> 0..MaxInt]
  BY <1>0 DEF Update, TypeData
<1>5. TypeData'
  <2>1. locks' \subseteq Wallets \X Modes \X Calls
    BY <1>0 DEF TypeData, Modes, Update
  <2> QED BY <1>0, <1>4, <2>1 DEF TypeData, tables
<1>6. KeyInv'
  BY <1>0, KeyFrame DEF tables
<1>7. TypeCalls' /\ pc'[c] = l /\ ret'[c] = ret[c] /\ OnlyCall(c)
  BY <1>0, GotoTyped DEF TypeCalls, OnlyCall
<1>8. \A v \in Wallets : Wrote(c, v)' => \A d \in Calls \ {c} : ~Wrote(d, v)
  BY <1>0, <1>1, <1>3 DEF RowInv
<1>9. Rest(c)
  BY <1>2, <1>3, <1>4, <1>5, <1>6, <1>7, <1>8, OwnStep
<1>10. Held(c)' = Held(c) \cup {w}
  BY <1>3 DEF Held
<1> QED BY <1>4, <1>7, <1>9, <1>10

\* The debit.  A sufficient balance can only have been read from the row itself,
\* under its canonical id, and the row is still what was read: the conditional
\* UPDATE matches.
LEMMA DebitStep ==
    ASSUME IInv, NEW c \in Calls, Debit(c)
    PROVE  IInv'
<1>0. TypeData /\ pc[c] = "decide" /\ AtDecide(c)
  BY TypeParts DEF IInv, Debit, TxInv, TxOf
<1>1. Claimed(c, "pending")
  BY <1>0 DEF AtDecide
<1>2. req[c].amt \in 1..MaxInt /\ req[c].from \in Refs
  BY <1>1, RequestAssumption DEF Claimed, Amounts
<1>3. From(c) \in Wallets /\ Wrote(c, From(c)) /\ Wrote(c, To(c)) /\ To(c) \in Wallets
  BY <1>0, <1>1 DEF AtDecide, Claimed, Held
<1>4. Visible(c, From(c)) = live[From(c)] /\ live[From(c)] \in 0..MaxInt
  BY <1>0, <1>3 DEF Visible, TypeData
<1>5. live[From(c)] >= req[c].amt
  <2>1. read[c][req[c].from] \in 0..MaxInt
    BY <1>0, <1>2 DEF TypeData
  <2>2. read[c][req[c].from] >= req[c].amt /\ read[c][req[c].from] # 0
    BY <1>2, <2>1, BoundAssumption DEF Debit, Short
  <2>3. PICK w \in Held(c) : req[c].from = Canon[w]
    BY <1>0, <1>2, <2>2 DEF AtDecide, MapIsCurrent
  <2>4. w = From(c)
    BY <2>3, RefAssumption DEF From, Held
  <2> QED BY <1>0, <2>2, <2>3, <2>4 DEF AtDecide, MapIsCurrent
<1>6. "credit" \in Labels
  BY DEF Labels, InTx
<1>7. /\ CanLock(c, From(c), "NoKeyUpdate")
      /\ Update(c, From(c), live[From(c)] - req[c].amt)
      /\ Goto(c, "credit")
      /\ UNCHANGED <<tables, wTransfer, wLedger, wMint, read, req, attempt, faults>>
  BY <1>4, <1>5 DEF Debit, From
<1>8. live[From(c)] - req[c].amt \in 0..MaxInt
  BY <1>2, <1>4, <1>5, BoundAssumption
<1>9. /\ Rest(c) /\ TypeCalls' /\ pc'[c] = "credit" /\ ret'[c] = ret[c]
      /\ Held(c)' = Held(c) \cup {From(c)}
      /\ live'[From(c)] = live[From(c)] - req[c].amt
      /\ \A v \in Wallets \ {From(c)} : live'[v] = live[v]
  BY <1>0, <1>3, <1>6, <1>7, <1>8, UpdateStep
<1>10. AnswerOf(c)'
  BY <1>0, <1>9, AnswerGoto
<1>11. From(c)' = From(c) /\ To(c)' = To(c) /\ req' = req /\ balance' = balance
  BY <1>7 DEF From, To, tables
<1>12. AtCredit(c)'
  <2>1. Claimed(c, "pending")' /\ wLedger'[c] = {}
    BY <1>0, <1>1, <1>7, <1>11 DEF AtDecide, Claimed, Row, Fingerprint
  <2>2. Held(c)' = {From(c), To(c)}
    BY <1>0, <1>9 DEF AtDecide
  <2>3. Debited(c)' /\ Unwritten(To(c))'
    BY <1>0, <1>1, <1>5, <1>9, <1>11 DEF AtDecide, Debited, Unwritten, Claimed
  <2> QED BY <1>11, <2>1, <2>2, <2>3 DEF AtCredit
<1> QED BY <1>9, <1>10, <1>12, Assemble DEF TxOf

\* The credit, or its abort at the end of bigint.
LEMMA CreditStep ==
    ASSUME IInv, NEW c \in Calls, Credit(c)
    PROVE  IInv'
<1>0. TypeData /\ pc[c] = "credit" /\ AtCredit(c)
  BY TypeParts DEF IInv, Credit, TxInv, TxOf
<1>1. Claimed(c, "pending")
  BY <1>0 DEF AtCredit
<1>2. req[c].amt \in 1..MaxInt
  BY <1>1, RequestAssumption DEF Claimed, Amounts
<1>3. To(c) \in Wallets /\ Wrote(c, To(c)) /\ From(c) \in Wallets /\ From(c) # To(c)
  BY <1>0, <1>1 DEF AtCredit, Claimed, Held
<1>4. Visible(c, To(c)) = live[To(c)] /\ live[To(c)] \in 0..MaxInt
  BY <1>0, <1>3 DEF Visible, TypeData
<1>5. CASE Fail(c, "outOfRange")
  <2>1. "outOfRange" \in Refusals
    BY DEF Refusals, Kinds
  <2> QED BY <1>0, <1>5, <2>1, FailStep
<1>6. CASE ~Fail(c, "outOfRange")
  <2>1. /\ CanLock(c, To(c), "NoKeyUpdate")
        /\ live[To(c)] + req[c].amt <= MaxInt
        /\ Update(c, To(c), live[To(c)] + req[c].amt)
        /\ Goto(c, "post")
        /\ UNCHANGED <<tables, wTransfer, wLedger, wMint, read, req, attempt, faults>>
    BY <1>4, <1>6 DEF Credit, To
  <2>2. live[To(c)] + req[c].amt \in 0..MaxInt /\ "post" \in Labels
    BY <1>2, <1>4, <2>1, BoundAssumption DEF Labels, InTx
  <2>3. /\ Rest(c) /\ TypeCalls' /\ pc'[c] = "post" /\ ret'[c] = ret[c]
        /\ Held(c)' = Held(c) \cup {To(c)}
        /\ live'[To(c)] = live[To(c)] + req[c].amt
        /\ \A v \in Wallets \ {To(c)} : live'[v] = live[v]
    BY <1>0, <1>3, <2>1, <2>2, UpdateStep
  <2>4. AnswerOf(c)'
    BY <1>0, <2>3, AnswerGoto
  <2>5. From(c)' = From(c) /\ To(c)' = To(c) /\ req' = req /\ balance' = balance
    BY <2>1 DEF From, To, tables
  <2>6. Claimed(c, "pending")' /\ wLedger'[c] = {}
    BY <1>0, <1>1, <2>1, <2>5 DEF AtCredit, Claimed, Row, Fingerprint
  <2>7. Held(c)' = {From(c), To(c)}
    BY <1>0, <2>3 DEF AtCredit
  <2>8. Debited(c)' /\ Credited(c)'
    BY <1>0, <1>3, <2>1, <2>3, <2>5 DEF AtCredit, Debited, Credited, Unwritten
  <2>9. AtPost(c)'
    BY <2>5, <2>6, <2>7, <2>8 DEF AtPost
  <2> QED BY <2>3, <2>4, <2>9, Assemble DEF TxOf
<1> QED BY <1>5, <1>6

\* The mint's UPDATE, or its abort at the end of bigint.
LEMMA FundStep ==
    ASSUME IInv, NEW c \in Calls, Fund(c)
    PROVE  IInv'
<1> DEFINE w == RefRow[req[c].wallet]
<1>0. TypeData /\ RowInv /\ pc[c] = "fund" /\ AtFund(c)
  BY TypeParts DEF IInv, Fund, TxInv, TxOf
<1>1. w \in Wallets /\ ~Wrote(c, w) /\ req[c] \in MintReqs
  BY <1>0 DEF AtFund, Held
<1>2. req[c].amt \in 1..MaxInt
  BY <1>1, RequestAssumption DEF Amounts
<1>3. CanLock(c, w, "NoKeyUpdate")
  BY DEF Fund
<1>4. Visible(c, w) = balance[w] /\ Unwritten(w) /\ balance[w] \in 0..MaxInt
  BY <1>0, <1>1, <1>3, CanLockExcludes DEF Visible, RowInv, TypeData
<1>5. CASE Fail(c, "outOfRange")
  <2>1. "outOfRange" \in Refusals
    BY DEF Refusals, Kinds
  <2> QED BY <1>0, <1>5, <2>1, FailStep
<1>6. CASE ~Fail(c, "outOfRange")
  <2>1. /\ balance[w] + req[c].amt <= MaxInt
        /\ Update(c, w, balance[w] + req[c].amt)
        /\ Goto(c, "commit")
        /\ UNCHANGED <<tables, wTransfer, wLedger, wMint, read, req, attempt, faults>>
    BY <1>4, <1>6 DEF Fund
  <2>2. balance[w] + req[c].amt \in 0..MaxInt /\ "commit" \in Labels
    BY <1>2, <1>4, <2>1, BoundAssumption DEF Labels, InTx
  <2>3. /\ Rest(c) /\ TypeCalls' /\ pc'[c] = "commit" /\ ret'[c] = ret[c]
        /\ Held(c)' = Held(c) \cup {w}
        /\ live'[w] = balance[w] + req[c].amt
    BY <1>0, <1>1, <1>3, <2>1, <2>2, UpdateStep
  <2>4. AnswerOf(c)'
    BY <1>0, <2>3, AnswerGoto
  <2>5. MintReady(c)'
    BY <1>0, <1>1, <2>1, <2>3 DEF AtFund, MintReady, NewMint, tables
  <2> QED BY <2>3, <2>4, <2>5, Assemble DEF TxOf, AtCommit
<1> QED BY <1>5, <1>6

-----------------------------------------------------------------------------
(* The invariant, and what follows from it.                                *)

\* The invariant holds initially.
LEMMA InitStep == Init => IInv
<1> SUFFICES ASSUME Init PROVE IInv
  OBVIOUS
<1>1. SeedMints \subseteq MintRows
  <2>1. \A w \in Wallets : Seed[w] > 0 => Seed[w] \in Amounts
    BY BoundAssumption DEF Amounts
  <2> QED BY <2>1 DEF SeedMints, MintRows
<1>2. TypeOK
  <2>1. TypeData
    BY <1>1, BoundAssumption DEF Init, TypeData, NoBalances
  <2>2. NoAnswer \in [kind : Kinds, rows : SUBSET TransferRows, refs : SUBSET (Refs \X Refs)]
    BY DEF NoAnswer, Kinds
  <2>3. TypeCalls
    BY <2>2 DEF Init, TypeCalls, Labels
  <2> QED BY <2>1, <2>3, TypeParts
<1>3. TxInv
  <2> SUFFICES ASSUME NEW c \in Calls PROVE TxOf(c)
    BY DEF TxInv
  <2>1. Held(c) = {}
    BY DEF Init, Held, Wrote
  <2> QED BY <2>1 DEF Init, TxOf, Empty
<1>4. RowInv
  BY DEF Init, RowInv, Wrote, Unwritten
<1>5. KeyInv
  BY DEF Init, KeyInv, SeedMints
<1>6. RecordInv
  BY RefAssumption DEF Init, RecordInv, SeedMints, LedgerMatchesTransfers
<1>7. AnswerInv
  BY DEF Init, AnswerInv, AnswerOf, NoAnswer, Accepted, Refused
<1> QED BY <1>2, <1>3, <1>4, <1>5, <1>6, <1>7 DEF IInv

\* The invariant speaks of the variables only.
LEMMA StutterStep == ASSUME IInv, UNCHANGED vars PROVE IInv'
<1>1. TypeOK'
  BY DEF IInv, TypeOK, vars
<1>2. TxInv'
  <2> SUFFICES ASSUME NEW d \in Calls PROVE TxOf(d)'
    BY DEF TxInv
  <2> QED BY TxFrame DEF IInv, TxInv, Wrote, vars
<1>3. RowInv'
  BY DEF IInv, RowInv, Wrote, Unwritten, vars
<1>4. KeyInv'
  BY DEF IInv, KeyInv, SameIndexEntry, vars
<1>5. RecordInv'
  BY TypeParts, RecordFrame DEF IInv, vars, tables
<1>6. AnswerInv'
  BY AnswerFrame DEF IInv, AnswerInv, vars
<1> QED BY <1>1, <1>2, <1>3, <1>4, <1>5, <1>6 DEF IInv

\* The invariant is inductive.
LEMMA NextStep == IInv /\ [Next]_vars => IInv'
<1> SUFFICES ASSUME IInv, [Next]_vars PROVE IInv'
  OBVIOUS
<1>1. ASSUME NEW c \in Calls, Arrive(c) PROVE IInv'
  BY <1>1, StartTransferStep, StartMintStep DEF Arrive
<1>2. ASSUME NEW c \in Calls, Step(c) PROVE IInv'
  BY <1>2, BeginStep, CommitStep, ClaimStep, ClaimRefusedStep, ClaimLostStep,
     LockLoStep, LockHiStep, DeclineStep, DebitStep, CreditStep, PostStep, ReplayStep,
     MintInsertStep, MintLostStep, FundStep, DeadlockVictimStep DEF Step
<1>3. ASSUME NEW c \in Calls, Fault(c) PROVE IInv'
  BY <1>3, ConnLostStep, CommitReplyLostStep DEF Fault
<1>4. ASSUME UNCHANGED vars PROVE IInv'
  BY <1>4, StutterStep
<1> QED BY <1>1, <1>2, <1>3, <1>4 DEF Next, Quiescent

\* Every reachable state of the store satisfies the inductive invariant.
THEOREM Invariance == Spec => []IInv
BY InitStep, NextStep, PTL DEF Spec

\* Type correctness.  No balance, committed or not, ever leaves 0..MaxInt: there
\* is no overdraft, and what would overflow a bigint is refused, not stored.
THEOREM TypeCorrect == Spec => []TypeOK
<1>1. IInv => TypeOK
  BY DEF IInv
<1> QED BY <1>1, Invariance, PTL

\* errDebitLost is unreachable: the conditional debit always matches its row.
THEOREM DebitSafe == Spec => []DebitNeverLost
<1>1. IInv => DebitNeverLost
  BY DEF IInv, AnswerInv, AnswerOf, DebitNeverLost
<1> QED BY <1>1, Invariance, PTL

\* The loser of the race for a key always finds the winner's decided row.
THEOREM ReplaySafe == Spec => []ReplayIsDecided
<1>1. IInv => ReplayIsDecided
  <2> SUFFICES ASSUME IInv, NEW c \in Calls
               PROVE  /\ pc[c] = "replay" => \E t \in Stored(req[c]) : t.status # "pending"
                      /\ ret[c].kind # "transferNotFound"
    BY DEF ReplayIsDecided
  <2>1. AnswerOf(c)
    BY DEF IInv, AnswerInv
  <2>2. \A t \in Stored(req[c]) : t.status # "pending"
    BY DEF IInv, RecordInv, Stored
  <2> QED BY <2>1, <2>2 DEF AnswerOf
<1> QED BY <1>1, Invariance, PTL

\* One idempotency key, one transfer: whatever the interleaving, the retries
\* and the failures, for every set of requests and every spelling in them.
THEOREM Idempotent == Spec => []ExactlyOnce
<1>1. IInv => ExactlyOnce
  <2> SUFFICES ASSUME IInv PROVE ExactlyOnce
    OBVIOUS
  <2>1. \A t, u \in transfers : t.user = u.user /\ t.key = u.key => t = u
    BY DEF IInv, KeyInv, SameIndexEntry
  <2>2. ASSUME NEW c \in Calls, NEW d \in Calls, Accepted(c), Accepted(d), SameKey(c, d)
        PROVE  /\ ret[c].rows = ret[d].rows
               /\ ret[c].kind = "ok" /\ ret[d].kind = "ok" => c = d
    <3>1. AnswerOf(c) /\ AnswerOf(d)
      BY DEF IInv, AnswerInv
    <3>2. Stored(req[c]) = Stored(req[d])
      BY <2>2 DEF Stored, SameKey
    <3> QED BY <2>2, <3>1, <3>2 DEF AnswerOf
  <2> QED BY <2>1, <2>2 DEF ExactlyOnce
<1> QED BY <1>1, Invariance, PTL

\* What a caller is told is committed, final and what the caller asked for.
THEOREM AnswersCommitted == Spec => []AnswerIsCommitted
<1>1. IInv => AnswerIsCommitted
  <2> SUFFICES ASSUME IInv, NEW c \in Calls, Accepted(c)
               PROVE  /\ ret[c].rows # {}
                      /\ ret[c].rows \subseteq transfers
                      /\ \A t \in ret[c].rows :
                            /\ t.status # "pending"
                            /\ t.user = req[c].user /\ t.key = req[c].key
                            /\ <<t.from, t.to, t.amt>> = Meaning(req[c])
    BY DEF AnswerIsCommitted
  <2>1. AnswerOf(c)
    BY DEF IInv, AnswerInv
  <2>2. /\ ret[c].rows = Stored(req[c]) /\ ret[c].rows # {}
        /\ \A t \in ret[c].rows : t.fp = Fingerprint(req[c])
    BY <2>1 DEF AnswerOf
  <2>3. \A t \in transfers : t.status # "pending" /\ FingerprintOf(t)
    BY DEF IInv, RecordInv
  <2>4. \A t \in ret[c].rows : <<t.from, t.to, t.amt>> = Meaning(req[c])
    BY <2>2, <2>3 DEF Stored, FingerprintOf, Fingerprint, Meaning
  <2> QED BY <2>2, <2>3, <2>4 DEF Stored
<1> QED BY <1>1, Invariance, PTL

\* An error answer means that nothing was written.
THEOREM RefusalsClean == Spec => []RefusalLeavesNoTrace
<1>1. IInv => RefusalLeavesNoTrace
  <2> SUFFICES ASSUME IInv, NEW c \in Calls, Refused(c)
               PROVE  /\ \A t \in transfers : t.id # c
                      /\ \A e \in ledger : e.transfer # c
                      /\ \A m \in mints : m.id # c
    BY DEF RefusalLeavesNoTrace
  <2>1. AnswerOf(c) /\ RecordInv
    BY DEF IInv, AnswerInv
  <2> QED BY <2>1 DEF AnswerOf, RecordInv, LedgerMatchesTransfers
<1> QED BY <1>1, Invariance, PTL

\* Double entry, row by row.
THEOREM LedgerMatches == Spec => []LedgerMatchesTransfers
<1>1. IInv => LedgerMatchesTransfers
  BY DEF IInv, RecordInv
<1> QED BY <1>1, Invariance, PTL

-----------------------------------------------------------------------------
(* Answers that depend on more than IInv says.                             *)

\* The errors that no statement about stored rows comes with.
PlainErrors == {"sameWallet", "walletNotFound", "checkViolation", "debitLost",
                "outOfRange", "attempts", "connLost"}

\* c goes on, or returns such an error, and the tables stay as they are.
Quiet(c) ==
    /\ UNCHANGED tables
    /\ \/ pc'[c] # "done" /\ ret'[c] = ret[c]
       \/ pc'[c] = "done" /\ ret'[c].kind \in PlainErrors
    /\ pc'[c] = "commit" => wMint'[c] # {} \/ req'[c] \in TransferReqs

\* A call that moves on leaves the other calls alone.
LEMMA GotoShape ==
    ASSUME IInv, NEW c \in Calls, NEW l \in Labels \ {"done"}, Goto(c, l), pc[c] # "done",
           l = "commit" => wMint'[c] # {} \/ req'[c] \in TransferReqs,
           UNCHANGED tables, \A d \in Calls \ {c} : req'[d] = req[d]
    PROVE  OnlyCall(c) /\ Quiet(c)
BY GotoTyped, TypeParts DEF IInv, OnlyCall, Quiet

\* So does a call that returns an error.
LEMMA ErrorShape ==
    ASSUME IInv, NEW c \in Calls, NEW k \in PlainErrors, Refuse(c, k), pc[c] # "done",
           UNCHANGED tables, \A d \in Calls \ {c} : req'[d] = req[d]
    PROVE  OnlyCall(c) /\ Quiet(c)
<1>1. k \in Kinds
  BY DEF PlainErrors, Kinds
<1> QED BY <1>1, RefuseTyped, TypeParts DEF IInv, OnlyCall, Quiet

\* A rollback with an error touches the call and its own rows only.
LEMMA FailShape ==
    ASSUME IInv, NEW c \in Calls, NEW k \in PlainErrors, Fail(c, k), pc[c] # "done"
    PROVE  OnlyCall(c) /\ Quiet(c)
BY ErrorShape DEF Fail, Rollback

Telling(c) == Commit(c) \/ CommitReplyLost(c) \/ Replay(c) \/ MintLost(c)

\* Only three kinds of step make a call say something about stored rows, and one
\* makes a mint rely on somebody else's.
LEMMA StepShape ==
    ASSUME IInv, NEW c \in Calls, Arrive(c) \/ Step(c) \/ Fault(c)
    PROVE  OnlyCall(c) /\ pc[c] # "done" /\ (Quiet(c) \/ Telling(c))
<1>0. TypeCalls /\ TypeData /\ TxOf(c)
  BY TypeParts DEF IInv, TxInv
<1>1. {"begin", "claim", "mint", "lockLo", "lockHi", "decide", "credit", "post", "fund",
       "replay", "commit"} \subseteq Labels \ {"done"}
  BY DEF Labels, InTx
<1>2. CASE Arrive(c)
  <2>1. pc[c] = "idle" /\ UNCHANGED tables /\ \A d \in Calls \ {c} : req'[d] = req[d]
    BY <1>0, <1>2 DEF Arrive, StartTransfer, StartMint, TypeCalls
  <2>2. Refuse(c, "sameWallet") \/ Goto(c, "begin")
    BY <1>2 DEF Arrive, StartTransfer, StartMint
  <2>3. "sameWallet" \in PlainErrors
    BY DEF PlainErrors
  <2> QED BY <1>1, <2>1, <2>2, <2>3, ErrorShape, GotoShape
<1>3. CASE Begin(c)
  <2>1. Goto(c, "mint") \/ Goto(c, "claim")
    BY <1>3 DEF Begin
  <2> QED BY <1>1, <1>3, <2>1, GotoShape DEF Begin
<1>4. CASE ClaimNoWallet(c) \/ ClaimSelf(c) \/ MintNoWallet(c)
  BY <1>4, FailShape DEF ClaimNoWallet, ClaimSelf, MintNoWallet, PlainErrors
<1>5. CASE Claim(c) \/ LockLo(c) \/ LockHi(c) \/ ClaimLost(c)
  BY <1>1, <1>5, GotoShape DEF Claim, LockLo, LockHi, LockRow, ClaimLost, Rollback
<1>6. CASE MintInsert(c)
  BY <1>1, <1>6, GotoShape DEF MintInsert
<1>7. CASE Decline(c) \/ Post(c)
  <2>1. req[c] \in TransferReqs
    BY <1>0, <1>7 DEF Decline, Post, TxOf, AtDecide, AtPost, Claimed
  <2> QED BY <1>1, <1>7, <2>1, GotoShape DEF Decline, Post
<1>8. CASE Debit(c) \/ Credit(c)
  <2>1. "debitLost" \in PlainErrors /\ "outOfRange" \in PlainErrors
    BY DEF PlainErrors
  <2>2. pc[c] # "done"
    BY <1>8 DEF Debit, Credit
  <2>3. \/ Fail(c, "debitLost") \/ Fail(c, "outOfRange")
        \/ (Goto(c, "credit") \/ Goto(c, "post")) /\ UNCHANGED <<tables, req>>
    BY <1>8 DEF Debit, Credit
  <2> QED BY <1>1, <2>1, <2>2, <2>3, FailShape, GotoShape
<1>9. CASE Fund(c)
  <2>1. "outOfRange" \in PlainErrors
    BY DEF PlainErrors
  <2>2. wMint[c] # {}
    BY <1>0, <1>9 DEF Fund, TxOf, AtFund
  <2>3. \/ Fail(c, "outOfRange")
        \/ Goto(c, "commit") /\ UNCHANGED <<tables, wMint, req>>
    BY <1>9 DEF Fund
  <2>4. pc[c] # "done"
    BY <1>9 DEF Fund
  <2> QED BY <1>1, <2>1, <2>2, <2>3, <2>4, FailShape, GotoShape
<1>10. CASE DeadlockVictim(c)
  <2>1. "attempts" \in PlainErrors /\ pc[c] # "done"
    BY <1>10 DEF DeadlockVictim, PlainErrors, InTx
  <2>2. (Refuse(c, "attempts") \/ Goto(c, "begin")) /\ UNCHANGED <<tables, req>>
    BY <1>10 DEF DeadlockVictim, Rollback
  <2> QED BY <1>1, <2>1, <2>2, ErrorShape, GotoShape
<1>11. CASE ConnLost(c)
  <2>1. "connLost" \in PlainErrors /\ pc[c] # "done"
    BY <1>11 DEF ConnLost, PlainErrors, InTx
  <2> QED BY <1>11, <2>1, ErrorShape DEF ConnLost, Rollback
<1>12. CASE Telling(c)
  <2>1. pc[c] # "done" /\ UNCHANGED req
    BY <1>12 DEF Telling, Commit, CommitReplyLost, Replay, MintLost
  <2>2. \A d \in Calls \ {c} : pc'[d] = pc[d] /\ ret'[d] = ret[d]
    BY <1>0, <1>12 DEF Telling, Commit, CommitReplyLost, Replay, MintLost, Answer, Refuse, Goto,
                       TypeCalls
  <2> QED BY <1>12, <2>1, <2>2 DEF OnlyCall
<1> QED BY <1>2, <1>3, <1>4, <1>5, <1>6, <1>7, <1>8, <1>9, <1>10, <1>11, <1>12
        DEF Step, Fault, Telling

\* Nobody touches the uncommitted mint of another call.
LEMMA MintRowsKept ==
    ASSUME TypeData, NEW c \in Calls, Arrive(c) \/ Step(c) \/ Fault(c), NEW d \in Calls \ {c}
    PROVE  wMint'[d] = wMint[d]
<1>1. CASE wMint' = [wMint EXCEPT ![c] = {}] \/ UNCHANGED wMint
  BY <1>1 DEF TypeData
<1>2. \A k : Fail(c, k) => wMint' = [wMint EXCEPT ![c] = {}]
  BY DEF Fail, Rollback, EndTx
<1>3. CASE MintInsert(c)
  BY <1>3 DEF MintInsert, TypeData
<1>4. CASE Arrive(c) \/ Begin(c) \/ Replay(c) \/ MintLost(c)
  BY <1>1, <1>4 DEF Arrive, StartTransfer, StartMint, Begin, Replay, MintLost, txVars
<1>5. CASE Commit(c) \/ ClaimLost(c) \/ DeadlockVictim(c) \/ Fault(c)
  BY <1>1, <1>5 DEF Commit, ClaimLost, DeadlockVictim, Fault, ConnLost, CommitReplyLost,
                    Install, Rollback, EndTx
<1>6. CASE ClaimNoWallet(c) \/ ClaimSelf(c) \/ MintNoWallet(c)
  BY <1>1, <1>2, <1>6 DEF ClaimNoWallet, ClaimSelf, MintNoWallet
<1>7. CASE Claim(c) \/ LockLo(c) \/ LockHi(c) \/ Decline(c) \/ Post(c)
  BY <1>1, <1>7 DEF Claim, LockLo, LockHi, LockRow, Decline, Post
<1>8. CASE Debit(c) \/ Credit(c) \/ Fund(c)
  BY <1>1, <1>2, <1>8 DEF Debit, Credit, Fund
<1> QED BY <1>3, <1>4, <1>5, <1>6, <1>7, <1>8 DEF Step

\* What a call was told about its mint stays true while rows of others are added.
LEMMA MintAnswerFrame ==
    ASSUME NEW d \in Calls, MintAnswerOf(d), mints \subseteq mints',
           \A m \in mints' \ mints : m.id # d,
           pc'[d] = pc[d], req'[d] = req[d], ret'[d] = ret[d], wMint'[d] = wMint[d]
    PROVE  MintAnswerOf(d)'
<1>1. MintTaken(req[d]) => MintTaken(req[d])'
  BY DEF MintTaken
<1>2. NewMint(d, req[d])' = NewMint(d, req[d])
  BY DEF NewMint
<1> QED BY <1>1, <1>2 DEF MintAnswerOf, MintTaken

\* A committed mint adds at most the row of its own call.
LEMMA InstalledMint ==
    ASSUME IInv, NEW c \in Calls, pc[c] = "commit", Install(c)
    PROVE  /\ mints' = mints \cup wMint[c]
           /\ wMint[c] # {} => NewMint(c, req[c]) \in mints'
           /\ \A m \in mints' \ mints : m.id = c
           /\ \A m \in mints : m.id # c
<1>1. \A m \in wMint[c] : m = NewMint(c, req[c])
  BY CommitShape
<1>2. NewMint(c, req[c]).id = c
  BY DEF NewMint
<1>3. mints' = mints \cup wMint[c]
  BY DEF Install
<1>4. \A m \in mints : m.id # c
  BY DEF IInv, RecordInv
<1> QED BY <1>1, <1>2, <1>3, <1>4

\* The answers to mints stay right.
LEMMA MintStep ==
    ASSUME IInv, MintInv, NEW c \in Calls, Arrive(c) \/ Step(c) \/ Fault(c)
    PROVE  MintInv'
<1>0. TypeData /\ TypeCalls /\ TxOf(c)
  BY TypeParts DEF IInv, TxInv
<1>1. OnlyCall(c) /\ pc[c] # "done" /\ (Quiet(c) \/ Telling(c))
  BY StepShape
<1>2. ret[c] = NoAnswer /\ NoAnswer.kind = "none"
  BY <1>1 DEF IInv, AnswerInv, AnswerOf, NoAnswer
<1>3. UNCHANGED mints \/ (pc[c] = "commit" /\ Install(c))
  BY <1>1 DEF Quiet, Telling, Commit, CommitReplyLost, Replay, MintLost, tables
<1>4. mints \subseteq mints' /\ \A m \in mints' \ mints : m.id = c
  BY <1>3, InstalledMint
<1>5. ASSUME NEW d \in Calls \ {c} PROVE MintAnswerOf(d)'
  BY <1>0, <1>1, <1>4, <1>5, MintRowsKept, MintAnswerFrame DEF OnlyCall, MintInv
<1>6. MintAnswerOf(c)'
  <2>1. CASE Quiet(c)
    <3>1. ret'[c].kind \notin {"minted", "mintReplay"}
      BY <1>2, <2>1 DEF Quiet, PlainErrors
    <3>2. \A r \in TransferReqs : r \notin MintReqs
      BY RequestAssumption
    <3> QED BY <2>1, <3>1, <3>2 DEF Quiet, MintAnswerOf
  <2>2. CASE Replay(c) \/ CommitReplyLost(c)
    <3>1. /\ pc'[c] = "done"
          /\ ret'[c].kind \notin {"minted", "mintReplay"}
      BY <1>0, <2>2 DEF Replay, CommitReplyLost, Refuse, Answer, TypeCalls
    <3> QED BY <3>1 DEF MintAnswerOf
  <2>3. CASE MintLost(c)
    <3>1. ret'[c] = ret[c] /\ req' = req /\ mints' = mints /\ MintTaken(req[c])
      BY <2>3 DEF MintLost, Goto, tables
    <3>2. MintTaken(req[c])'
      BY <3>1 DEF MintTaken
    <3> QED BY <1>2, <3>1, <3>2 DEF MintAnswerOf
  <2>4. CASE Commit(c)
    <3>1. /\ pc[c] = "commit" /\ Install(c) /\ req' = req /\ pc'[c] = "done"
      BY <1>0, <2>4 DEF Commit, Answer, TypeCalls
    <3>2. CASE req[c].op = "mint"
      <4>1. ret'[c].kind = IF wMint[c] = {} THEN "mintReplay" ELSE "minted"
        BY <1>0, <2>4, <3>2 DEF Commit, Answer, TypeCalls
      <4>2. req[c] \in MintReqs
        BY <3>1, <3>2, CommitShape, RequestAssumption
      <4>3. wMint[c] = {} => MintTaken(req[c])' /\ \A m \in mints' : m.id # c
        <5>1. wMint[c] = {} => MintTaken(req[c])
          BY <3>1, <4>2 DEF MintInv, MintAnswerOf
        <5> QED BY <3>1, <5>1, InstalledMint DEF MintTaken
      <4>4. wMint[c] # {} => NewMint(c, req[c])' \in mints'
        BY <3>1, InstalledMint DEF NewMint
      <4> QED BY <3>1, <4>1, <4>3, <4>4 DEF MintAnswerOf
    <3>3. CASE req[c].op # "mint"
      <4>1. ret'[c].kind = "ok"
        BY <1>0, <2>4, <3>3 DEF Commit, Answer, TypeCalls
      <4> QED BY <3>1, <4>1 DEF MintAnswerOf
    <3> QED BY <3>2, <3>3
  <2> QED BY <1>1, <2>1, <2>2, <2>3, <2>4 DEF Telling
<1> QED BY <1>5, <1>6 DEF MintInv

\* A mint key puts money in once, and every caller is told the truth about it:
\* "applied" to the one call whose row is there, "replay" to calls that added
\* nothing, over retries, races for the key and lost replies.
THEOREM MintKeyOnce == Spec => []MintOnce
<1>1. Init => MintInv
  BY DEF Init, MintInv, MintAnswerOf, NoAnswer
<1>2. IInv /\ MintInv /\ [Next]_vars => MintInv'
  <2>1. ASSUME MintInv, UNCHANGED vars PROVE MintInv'
    BY <2>1, MintAnswerFrame DEF MintInv, vars
  <2> QED BY <2>1, MintStep DEF Next, Quiescent
<1>3. IInv /\ MintInv => MintOnce
  BY DEF IInv, KeyInv, MintInv, MintAnswerOf, MintOnce
<1> QED BY <1>1, <1>2, <1>3, Invariance, PTL DEF Spec

-----------------------------------------------------------------------------
(* What the committed tables see of a step.                                *)

\* A step that installs nothing is invisible.
LEMMA OtherStepsStutter ==
    ASSUME NEW c \in Calls,
           Arrive(c) \/ (Step(c) /\ ~Commit(c)) \/ ConnLost(c)
    PROVE  UNCHANGED tables
<1>1. \A k : Fail(c, k) => UNCHANGED tables
  BY DEF Fail, Rollback
<1>2. CASE Arrive(c)
  BY <1>2 DEF Arrive, StartTransfer, StartMint
<1>3. CASE Begin(c) \/ Replay(c) \/ MintLost(c)
  BY <1>3 DEF Begin, Replay, MintLost
<1>4. CASE Claim(c) \/ MintInsert(c) \/ Decline(c) \/ Post(c)
  BY <1>4 DEF Claim, MintInsert, Decline, Post
<1>5. CASE ClaimNoWallet(c) \/ ClaimSelf(c) \/ MintNoWallet(c)
  BY <1>1, <1>5 DEF ClaimNoWallet, ClaimSelf, MintNoWallet
<1>6. CASE ClaimLost(c) \/ DeadlockVictim(c) \/ ConnLost(c)
  BY <1>6 DEF ClaimLost, DeadlockVictim, ConnLost, Rollback
<1>7. CASE LockLo(c) \/ LockHi(c)
  BY <1>7 DEF LockLo, LockHi, LockRow
<1>8. CASE Debit(c) \/ Credit(c) \/ Fund(c)
  BY <1>1, <1>8 DEF Debit, Credit, Fund
<1> QED BY <1>2, <1>3, <1>4, <1>5, <1>6, <1>7, <1>8 DEF Step

\* Rows of the transaction carry the newest version, all other rows stay.
LEMMA InstalledBalance ==
    ASSUME IInv, NEW c \in Calls, Install(c)
    PROVE  /\ balance' \in [Wallets -> 0..MaxInt]
           /\ \A w \in Wallets : balance'[w] = IF w \in Held(c) THEN live[w] ELSE balance[w]
BY TypeParts DEF IInv, Install, Visible, Held, TypeData
=============================================================================
