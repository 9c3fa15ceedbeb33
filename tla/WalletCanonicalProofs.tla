----------------------- MODULE WalletCanonicalProofs ------------------------
(***************************************************************************)
(* What holds of the store when clients write wallet ids the way Postgres  *)
(* prints them, and does not hold otherwise: it implements WalletLedger,   *)
(* its declines and conflicts are justified, a replay is the identical     *)
(* document, and no transactions wait for each other in a circle.          *)
(***************************************************************************)
EXTENDS WalletStoreProofs, NaturalsInduction, WellFoundedInduction

\* Both wallets of every transfer are written in their canonical form.
CanonicalRequests ==
    \A r \in TransferReqs : \A ref \in {r.from, r.to} :
        RefRow[ref] \in Wallets => ref = Canon[RefRow[ref]]

\* The source wallet of every transfer is written in its canonical form.
CanonicalSources ==
    \A r \in TransferReqs : RefRow[r.from] \in Wallets => r.from = Canon[RefRow[r.from]]

-----------------------------------------------------------------------------
(* Refinement.                                                             *)

\* The empty store is the empty ledger.
LEMMA InitRefines == Init => Ledger!Init
BY DEF Init, Ledger!Init, SeedMints, Ledger!SeedMints

\* A commit is one step of the ledger, or changes nothing.
LEMMA CommitRefines ==
    ASSUME CanonicalSources, IInv, NEW c \in Calls, pc[c] = "commit", Install(c)
    PROVE  Ledger!Next \/ UNCHANGED tables
<1> DEFINE r == req[c]
           o == OrderOf(r)
<1>0. AtCommit(c) /\ KeyInv /\ TypeData
  BY TypeParts DEF IInv, TxInv, TxOf
<1>1. \A w \in Wallets : balance'[w] = IF w \in Held(c) THEN live[w] ELSE balance[w]
  BY InstalledBalance
<1>2. balance \in [Wallets -> 0..MaxInt] /\ balance' \in [Wallets -> 0..MaxInt]
  BY <1>0, InstalledBalance DEF TypeData
<1>3. /\ transfers' = transfers \cup wTransfer[c] /\ ledger' = ledger \cup wLedger[c]
      /\ mints' = mints \cup wMint[c]
  BY DEF Install
<1>4. ASSUME NEW s, Claimed(c, s)
      PROVE  /\ o \in Orders
             /\ o.from = From(c) /\ o.to = To(c) /\ o.amt = r.amt /\ o.from # o.to
             /\ Ledger!TransferRow(c, o, s) = Row(c, r, s)
             /\ Ledger!KeyIsFree(o)
             /\ wTransfer[c] = {Row(c, r, s)} /\ wMint[c] = {}
  <2>1. o \in Orders
    BY <1>4 DEF Claimed, Orders, From, To
  <2>2. /\ o.from = From(c) /\ o.to = To(c) /\ o.amt = r.amt
        /\ o.user = r.user /\ o.key = r.key /\ o.fp = Fingerprint(r)
    BY DEF OrderOf, From, To
  <2>3. Ledger!TransferRow(c, o, s) = Row(c, r, s)
    BY <2>2 DEF Ledger!TransferRow, Row, From, To
  <2>4. Row(c, r, s).user = r.user /\ Row(c, r, s).key = r.key
    BY DEF Row
  <2>5. Ledger!KeyIsFree(o)
    BY <1>0, <1>4, <2>2, <2>4 DEF Ledger!KeyIsFree, KeyInv, SameIndexEntry, Claimed
  <2> QED BY <1>4, <2>1, <2>2, <2>3, <2>5 DEF Claimed
<1>5. CASE DeclineReady(c)
  <2>1. Claimed(c, "declined") /\ wLedger[c] = {}
    BY <1>5 DEF DeclineReady
  <2>2. balance' = balance
    <3>1. \A w \in Wallets : balance'[w] = balance[w]
      BY <1>1, <1>5 DEF DeclineReady, Unwritten
    <3> QED BY <1>2, <3>1
  <2>3. balance[o.from] < o.amt
    <3>1. r.from = Canon[From(c)]
      BY <2>1 DEF Claimed, CanonicalSources, From
    <3> QED BY <1>4, <1>5, <2>1, <3>1 DEF DeclineReady
  <2>4. transfers' = transfers \cup {Ledger!TransferRow(c, o, "declined")} /\ o \in Orders
        /\ UNCHANGED <<ledger, mints>>
    BY <1>3, <1>4, <2>1
  <2>5. Ledger!Decline(c, o)
    BY <1>4, <2>1, <2>2, <2>3, <2>4 DEF Ledger!Decline
  <2> QED BY <2>4, <2>5 DEF Ledger!Next
<1>6. CASE SuccessReady(c)
  <2> DEFINE t == Ledger!TransferRow(c, o, "succeeded")
  <2>1. Claimed(c, "succeeded") /\ wLedger[c] = Entries(c, r)
    BY <1>6 DEF SuccessReady
  <2>2. t = Row(c, r, "succeeded")
    BY <1>4, <2>1
  <2>3. t.id = c /\ t.from = From(c) /\ t.to = To(c) /\ t.amt = r.amt
    BY <2>2 DEF Row, From, To
  <2>4. Ledger!LedgerRows(t) = Entries(c, r)
    BY <2>3 DEF Ledger!LedgerRows, Entries, From, To
  <2>5. /\ From(c) \in Wallets /\ To(c) \in Wallets /\ From(c) # To(c)
        /\ balance[From(c)] >= r.amt /\ balance[To(c)] + r.amt <= MaxInt
        /\ balance'[From(c)] = balance[From(c)] - r.amt
        /\ balance'[To(c)] = balance[To(c)] + r.amt
        /\ \A w \in Wallets \ {From(c), To(c)} : balance'[w] = balance[w]
    BY <1>1, <1>6 DEF SuccessReady, Claimed, Debited, Credited
  <2>6. balance' = Ledger!Moved(balance, t)
    <3> HIDE DEF t, r
    <3> QED BY <1>2, <2>3, <2>5 DEF Ledger!Moved
  <2>7. /\ transfers' = transfers \cup {t} /\ o \in Orders
        /\ ledger' = ledger \cup Ledger!LedgerRows(t) /\ mints' = mints
    BY <1>3, <1>4, <2>1, <2>2, <2>4
  <2>8. Ledger!Succeed(c, o)
    BY <1>4, <2>1, <2>5, <2>6, <2>7 DEF Ledger!Succeed
  <2> QED BY <2>7, <2>8 DEF Ledger!Next
<1>7. CASE MintReady(c)
  <2> DEFINE w == RefRow[r.wallet]
             g == [key |-> r.key, wallet |-> w, amt |-> r.amt]
  <2>1. g \in Grants
    BY <1>7 DEF MintReady, Grants
  <2>2. \A m \in mints : m.key # g.key
    <3>1. NewMint(c, r) \in wMint[c]
      BY <1>7 DEF MintReady
    <3>2. NewMint(c, r).key = g.key
      BY DEF NewMint
    <3> QED BY <1>0, <3>1, <3>2 DEF KeyInv
  <2>3. /\ w \in Wallets /\ balance[w] + r.amt <= MaxInt
        /\ balance'[w] = balance[w] + r.amt
        /\ \A v \in Wallets \ {w} : balance'[v] = balance[v]
    BY <1>1, <1>7 DEF MintReady
  <2>4. balance' = [balance EXCEPT ![w] = @ + r.amt]
    <3> HIDE DEF w, r
    <3> QED BY <1>2, <2>3
  <2>5. /\ mints' = mints \cup {[id |-> c, key |-> g.key, wallet |-> g.wallet, amt |-> g.amt]}
        /\ UNCHANGED <<transfers, ledger>>
    BY <1>3, <1>7 DEF MintReady, NewMint
  <2>6. Ledger!Grant(c, g)
    BY <2>2, <2>3, <2>4, <2>5 DEF Ledger!Grant
  <2> QED BY <2>1, <2>6 DEF Ledger!Next
<1>8. CASE Empty(c)
  <2>1. balance' = balance
    <3>1. \A w \in Wallets : balance'[w] = balance[w]
      BY <1>1, <1>8 DEF Empty
    <3> QED BY <1>2, <3>1
  <2> QED BY <1>3, <1>8, <2>1 DEF Empty, tables
<1> QED BY <1>0, <1>5, <1>6, <1>7, <1>8 DEF AtCommit

\* Every step of the store is a step of the ledger or invisible.
LEMMA NextRefines ==
    ASSUME CanonicalSources, IInv, [Next]_vars
    PROVE  [Ledger!Next]_(Ledger!ledgerVars)
<1> USE DEF tables, Ledger!ledgerVars
<1>1. ASSUME NEW c \in Calls, Commit(c) \/ CommitReplyLost(c)
      PROVE  Ledger!Next \/ UNCHANGED tables
  BY <1>1, CommitRefines DEF Commit, CommitReplyLost
<1>2. ASSUME UNCHANGED vars PROVE UNCHANGED tables
  BY <1>2 DEF vars
<1> QED BY <1>1, <1>2, OtherStepsStutter DEF Next, Quiescent, Fault

\* The store implements the atomic ledger, for every number of calls and every
\* instance: debit, credit, ledger rows, idempotency key and outcome appear
\* together or not at all, a decline only while the wallet is really short.
THEOREM Refinement ==
    ASSUME CanonicalSources
    PROVE  Spec => ImplementsLedger
<1>1. Init => Ledger!Init
  BY InitRefines
<1>2. IInv /\ [Next]_vars => [Ledger!Next]_(Ledger!ledgerVars)
  BY NextRefines
<1> QED BY <1>1, <1>2, Invariance, PTL DEF Spec, ImplementsLedger, Ledger!Spec

\* A transfer is recorded as declined only while its source wallet is short.
THEOREM DeclinesJustified ==
    ASSUME CanonicalSources
    PROVE  Spec => DeclineJustified
<1>1. ASSUME IInv, [Next]_vars, NEW t \in transfers' \ transfers, t.status = "declined"
      PROVE  balance[t.from] < t.amt
  <2>1. PICK c \in Calls : pc[c] = "commit" /\ Install(c)
    <3>1. ~UNCHANGED tables
      BY <1>1 DEF tables
    <3> QED BY <1>1, <3>1, OtherStepsStutter
            DEF Next, Quiescent, Fault, Commit, CommitReplyLost, vars, tables
  <2>2. t \in wTransfer[c]
    BY <1>1, <2>1 DEF Install
  <2>3. t = Row(c, req[c], "declined")
    BY <1>1, <2>1, <2>2, CommitShape
  <2>4. AtCommit(c)
    BY <1>1, <2>1 DEF IInv, TxInv, TxOf
  <2>5. DeclineReady(c)
    <3>1. ~SuccessReady(c)
      <4>1. Row(c, req[c], "succeeded") # Row(c, req[c], "declined")
        <5>1. Row(c, req[c], "succeeded").status = "succeeded"
          BY DEF Row
        <5>2. Row(c, req[c], "declined").status = "declined"
          BY DEF Row
        <5> QED BY <5>1, <5>2
      <4> QED BY <2>2, <2>3, <4>1 DEF SuccessReady, Claimed
    <3> QED BY <2>2, <2>4, <3>1 DEF AtCommit, MintReady, Empty
  <2>6. req[c].from = Canon[From(c)]
    BY <2>5 DEF DeclineReady, Claimed, CanonicalSources, From
  <2>7. t.from = From(c) /\ t.amt = req[c].amt
    BY <2>3 DEF Row, From
  <2> QED BY <2>5, <2>6, <2>7 DEF DeclineReady
<1>2. IInv /\ [Next]_vars => [\A t \in transfers' \ transfers :
           t.status = "declined" => balance[t.from] < t.amt]_vars
  BY <1>1
<1> QED BY <1>2, Invariance, PTL DEF Spec, DeclineJustified

-----------------------------------------------------------------------------
(* What a replay and a conflict say.                                       *)

\* A document names the wallets of its row as Postgres prints them.  A conflict
\* was answered because the stored row, which there is, has another fingerprint.
SpellingOf(c) ==
    /\ Accepted(c) => ret[c].refs = Printed(ret[c].rows)
    /\ ret[c].kind = "conflict" =>
          /\ req[c] \in TransferReqs
          /\ Stored(req[c]) # {}
          /\ \A t \in Stored(req[c]) : t.fp # Fingerprint(req[c])

\* Every stored fingerprint is the one of a request.
SpellingInv ==
    /\ \A c \in Calls : SpellingOf(c)
    /\ \A t \in transfers : \E r \in TransferReqs : t.fp = Fingerprint(r)

\* A key that has a row gets no other.
LEMMA StoredStays ==
    ASSUME KeyInv', transfers \subseteq transfers', NEW r, Stored(r) # {}
    PROVE  { t \in transfers' : t.user = r.user /\ t.key = r.key } = Stored(r)
BY DEF KeyInv, SameIndexEntry, Stored

\* What another call was told stays true: rows are never changed or removed.
LEMMA SpellingFrame ==
    ASSUME KeyInv', transfers \subseteq transfers', NEW d \in Calls, SpellingOf(d),
           req'[d] = req[d], ret'[d] = ret[d]
    PROVE  SpellingOf(d)'
<1>1. Accepted(d)' = Accepted(d)
  BY DEF Accepted
<1>2. Printed(ret[d].rows)' = Printed(ret[d].rows)
  BY DEF Printed
<1>3. Stored(req[d]) # {} => Stored(req[d])' = Stored(req[d])
  BY StoredStays DEF Stored
<1> QED BY <1>1, <1>2, <1>3 DEF SpellingOf, Fingerprint

\* Commit and replay are the only steps that hand out a document or a conflict.
LEMMA SpellingStep ==
    ASSUME CanonicalRequests, IInv, IInv', SpellingInv, NEW c \in Calls,
           Arrive(c) \/ Step(c) \/ Fault(c)
    PROVE  SpellingInv'
<1>0. TypeData /\ TypeCalls /\ TxOf(c) /\ KeyInv /\ KeyInv' /\ AnswerOf(c)
  BY TypeParts DEF IInv, TxInv, AnswerInv
<1>1. OnlyCall(c) /\ pc[c] # "done" /\ (Quiet(c) \/ Telling(c))
  BY StepShape
<1>2. ret[c].kind = "none"
  BY <1>0, <1>1 DEF AnswerOf, NoAnswer
<1>3. UNCHANGED transfers \/ (pc[c] = "commit" /\ Install(c))
  BY <1>1 DEF Quiet, Telling, Commit, CommitReplyLost, Replay, MintLost, tables
<1>4. transfers \subseteq transfers'
  BY <1>3 DEF Install
<1>5. ASSUME NEW d \in Calls \ {c} PROVE SpellingOf(d)'
  BY <1>0, <1>1, <1>4, <1>5, SpellingFrame DEF OnlyCall, SpellingInv
<1>6. \A t \in transfers' : \E r \in TransferReqs : t.fp = Fingerprint(r)
  <2>1. CASE UNCHANGED transfers
    BY <2>1 DEF SpellingInv
  <2>2. CASE pc[c] = "commit" /\ Install(c)
    <3>1. \A t \in wTransfer[c] : t.fp = Fingerprint(req[c]) /\ req[c] \in TransferReqs
      BY <2>2, CommitShape DEF Row
    <3> QED BY <2>2, <3>1 DEF SpellingInv, Install
  <2> QED BY <1>3, <2>1, <2>2
<1>7. SpellingOf(c)'
  <2>1. CASE ret'[c].kind \notin {"ok", "replay", "conflict"}
    BY <2>1 DEF SpellingOf, Accepted
  <2>2. CASE Replay(c)
    <3> DEFINE found == Stored(req[c])
    <3>1. UNCHANGED <<transfers, req>> /\ req[c] \in TransferReqs /\ found # {}
      BY <1>0, <2>2 DEF Replay, TxOf, AnswerOf, tables
    <3>2. CASE \A t \in found : t.fp = Fingerprint(req[c])
      <4>1. ret'[c].kind = "replay" /\ ret'[c].rows = found /\ ret'[c].refs = Printed(found)
        BY <1>0, <2>2, <3>1, <3>2 DEF Replay, Answer, TypeCalls
      <4> QED BY <4>1 DEF SpellingOf, Printed
    <3>3. CASE ~(\A t \in found : t.fp = Fingerprint(req[c]))
      <4>1. ret'[c].kind = "conflict"
        BY <1>0, <2>2, <3>1, <3>3 DEF Replay, Refuse, Answer, TypeCalls
      <4>2. \A t, u \in found : t = u
        BY <1>0 DEF KeyInv, SameIndexEntry, Stored
      <4>3. Stored(req[c])' = found
        BY <3>1 DEF Stored
      <4>4. \A t \in found : t.fp # Fingerprint(req[c])
        BY <3>3, <4>2
      <4>5. ~Accepted(c)'
        BY <4>1 DEF Accepted
      <4> QED BY <3>1, <4>1, <4>3, <4>4, <4>5 DEF SpellingOf, Fingerprint
    <3> QED BY <3>2, <3>3
  <2>3. CASE Commit(c) /\ ret'[c].kind = "ok"
    <3>1. req[c] \in TransferReqs /\ pc[c] = "commit"
      <4>1. pc[c] = "commit" /\ req[c].op # "mint"
        BY <1>0, <2>3 DEF Commit, Answer, TypeCalls
      <4> QED BY <4>1, CommitShape, RequestAssumption
    <3>2. ret'[c].rows = wTransfer[c] /\ ret'[c].refs = {<<req[c].from, req[c].to>>}
      BY <1>0, <2>3, <3>1, RequestAssumption DEF Commit, Answer, TypeCalls
    <3>3. \A t \in wTransfer[c] : t.from = RefRow[req[c].from] /\ t.to = RefRow[req[c].to]
      BY <3>1, CommitShape DEF Row
    <3>4. wTransfer[c] # {} /\ wTransfer[c] \subseteq TransferRows
      BY <1>0, <3>1, CommitShape DEF TypeData
    <3>5. RefRow[req[c].from] \in Wallets /\ RefRow[req[c].to] \in Wallets
      BY <3>3, <3>4 DEF TransferRows
    <3>6. req[c].from = Canon[RefRow[req[c].from]] /\ req[c].to = Canon[RefRow[req[c].to]]
      BY <3>1, <3>5 DEF CanonicalRequests
    <3>7. Printed(wTransfer[c]) = {<<req[c].from, req[c].to>>}
      BY <3>3, <3>4, <3>6 DEF Printed
    <3> QED BY <2>3, <3>2, <3>7 DEF SpellingOf, Printed
  <2>4. Quiet(c) \/ MintLost(c) \/ CommitReplyLost(c)
          => ret'[c].kind \notin {"ok", "replay", "conflict"}
    BY <1>0, <1>2 DEF Quiet, PlainErrors, MintLost, Goto, CommitReplyLost, Refuse, Answer, TypeCalls
  <2>5. Commit(c) => ret'[c].kind \in {"ok", "minted", "mintReplay"}
    BY <1>0 DEF Commit, Answer, TypeCalls
  <2> QED BY <1>1, <2>1, <2>2, <2>3, <2>4, <2>5 DEF Telling
<1> QED BY <1>5, <1>6, <1>7 DEF SpellingInv

\* Documents and conflicts are what SpellingInv says in every reachable state.
LEMMA Spelling ==
    ASSUME CanonicalRequests
    PROVE  Spec => []SpellingInv
<1>1. Init => SpellingInv
  BY DEF Init, SpellingInv, SpellingOf, NoAnswer, Accepted
<1>2. IInv /\ IInv' /\ SpellingInv /\ [Next]_vars => SpellingInv'
  <2>1. ASSUME IInv', SpellingInv, UNCHANGED vars PROVE SpellingInv'
    BY <2>1, SpellingFrame DEF SpellingInv, vars, IInv
  <2> QED BY <2>1, SpellingStep DEF Next, Quiescent
<1> QED BY <1>1, <1>2, Invariance, PTL DEF Spec

\* The retry of a transfer gets the document the first call got, wallet ids
\* included.
THEOREM SameDocument ==
    ASSUME CanonicalRequests
    PROVE  Spec => []IdenticalDocument
<1>1. ExactlyOnce /\ SpellingInv => IdenticalDocument
  BY DEF ExactlyOnce, SpellingInv, SpellingOf, IdenticalDocument
<1> QED BY <1>1, Idempotent, Spelling, PTL

\* A 409 is answered only to a request that means something else than the one its
\* key was used for.
THEOREM ConflictsReal ==
    ASSUME CanonicalRequests
    PROVE  Spec => []ConflictIsReal
<1>1. IInv /\ SpellingInv => ConflictIsReal
  <2> SUFFICES ASSUME IInv, SpellingInv, NEW c \in Calls, ret[c].kind = "conflict",
                      NEW t \in Stored(req[c]), <<t.from, t.to, t.amt>> = Meaning(req[c])
               PROVE  FALSE
    BY DEF ConflictIsReal
  <2>1. req[c] \in TransferReqs /\ t.fp # Fingerprint(req[c])
    BY DEF SpellingInv, SpellingOf
  <2>2. t \in transfers /\ FingerprintOf(t) /\ t.from \in Wallets /\ t.to \in Wallets
    BY TypeParts DEF IInv, RecordInv, Stored, TypeData, TransferRows
  <2>3. PICK r \in TransferReqs : t.fp = Fingerprint(r)
    BY <2>2 DEF SpellingInv
  <2>4. RefRow[r.from] = t.from /\ RefRow[r.to] = t.to /\ r.amt = t.amt
    BY <2>2, <2>3 DEF FingerprintOf, Fingerprint
  <2>5. /\ RefRow[req[c].from] = t.from /\ RefRow[req[c].to] = t.to /\ req[c].amt = t.amt
    BY DEF Meaning
  <2>6. r.from = req[c].from /\ r.to = req[c].to
    BY <2>1, <2>2, <2>3, <2>4, <2>5 DEF CanonicalRequests
  <2> QED BY <2>1, <2>3, <2>4, <2>5, <2>6 DEF Fingerprint
<1> QED BY <1>1, Invariance, Spelling, PTL

-----------------------------------------------------------------------------
(* No circle of waiting transactions.                                      *)

\* Transfers and mints never lock a row FOR UPDATE.
NoUpdateLocks == \A w, d : <<w, "Update", d>> \notin locks

\* The SELECT ... FOR NO KEY UPDATE and the foreign keys take weaker locks.
LEMMA NoUpdateLocksStep == NoUpdateLocks /\ [Next]_vars => NoUpdateLocks'
<1> SUFFICES ASSUME NoUpdateLocks, [Next]_vars PROVE NoUpdateLocks'
  OBVIOUS
<1>1. ASSUME NEW c \in Calls, locks' = { l \in locks : l[3] # c } PROVE NoUpdateLocks'
  BY <1>1 DEF NoUpdateLocks
<1>2. ASSUME UNCHANGED locks PROVE NoUpdateLocks'
  BY <1>2 DEF NoUpdateLocks
<1>3. ASSUME NEW c \in Calls, NEW w, locks' = locks \cup {<<w, "NoKeyUpdate", c>>}
      PROVE  NoUpdateLocks'
  BY <1>3 DEF NoUpdateLocks
<1>4. ASSUME NEW c \in Calls, NEW S, locks' = locks \cup { <<w, "KeyShare", c>> : w \in S }
      PROVE  NoUpdateLocks'
  BY <1>4 DEF NoUpdateLocks
<1>5. ASSUME NEW c \in Calls, NEW k, Fail(c, k) PROVE NoUpdateLocks'
  BY <1>1, <1>5 DEF Fail, Rollback, EndTx
<1>6. ASSUME NEW c \in Calls, Arrive(c) PROVE NoUpdateLocks'
  BY <1>2, <1>6 DEF Arrive, StartTransfer, StartMint, txVars
<1>7. ASSUME NEW c \in Calls, Fault(c) \/ Commit(c) \/ ClaimLost(c) \/ DeadlockVictim(c)
      PROVE  NoUpdateLocks'
  BY <1>1, <1>7 DEF Fault, ConnLost, CommitReplyLost, Commit, ClaimLost, DeadlockVictim,
                    Rollback, Install, EndTx
<1>8. ASSUME NEW c \in Calls,
             Begin(c) \/ Replay(c) \/ MintLost(c) \/ Decline(c) \/ Post(c)
      PROVE  NoUpdateLocks'
  BY <1>2, <1>8 DEF Begin, Replay, MintLost, Decline, Post, txVars
<1>9. ASSUME NEW c \in Calls, LockLo(c) \/ LockHi(c) PROVE NoUpdateLocks'
  BY <1>3, <1>9 DEF LockLo, LockHi, LockRow, RowLock
<1>10. ASSUME NEW c \in Calls, Debit(c) \/ Credit(c) \/ Fund(c) PROVE NoUpdateLocks'
  BY <1>3, <1>5, <1>10 DEF Debit, Credit, Fund, Update
<1>11. ASSUME NEW c \in Calls, ClaimNoWallet(c) \/ ClaimSelf(c) \/ MintNoWallet(c)
       PROVE  NoUpdateLocks'
  BY <1>5, <1>11 DEF ClaimNoWallet, ClaimSelf, MintNoWallet
<1>12. ASSUME NEW c \in Calls, Claim(c) PROVE NoUpdateLocks'
  BY <1>4, <1>12 DEF Claim
<1>13. ASSUME NEW c \in Calls, MintInsert(c) PROVE NoUpdateLocks'
  <2>1. locks' = locks \cup {<<RefRow[req[c].wallet], "KeyShare", c>>}
    BY <1>13 DEF MintInsert
  <2> QED BY <2>1 DEF NoUpdateLocks
<1>14. CASE UNCHANGED vars
  BY <1>2, <1>14 DEF vars
<1> QED BY <1>6, <1>7, <1>8, <1>9, <1>10, <1>11, <1>12, <1>13, <1>14
        DEF Next, Step, Quiescent

\* Where a call stands in the order of locks: what it waits for, before any row
\* a unique index entry.
Rank(c) ==
    CASE pc[c] = "lockLo" -> Lo(req[c]) + 1
      [] pc[c] = "lockHi" -> Hi(req[c]) + 1
      [] pc[c] = "fund"   -> Canon[RefRow[req[c].wallet]] + 1
      [] OTHER            -> 0

\* Who keeps others from a row has written or locked it.
LEMMA HoldersWrote ==
    ASSUME NoUpdateLocks, NEW c \in Calls, NEW w \in Wallets
    PROVE  \A d \in Holders(c, w, "NoKeyUpdate") : d \in Calls \ {c} /\ Wrote(d, w)
BY DEF NoUpdateLocks, Holders, Conflicts, Wrote

\* A transaction that holds a row and waits is about to lock its second row.
LEMMA HolderWaits ==
    ASSUME IInv, NoUpdateLocks, NEW d \in Calls, NEW w \in Wallets, Wrote(d, w),
           WaitsFor(d) # {}
    PROVE  pc[d] = "lockHi" /\ w = RefRow[Lo(req[d])]
<1>0. TxOf(d) /\ RowInv /\ pc[d] \in Labels
  BY TypeParts DEF IInv, TxInv, TypeCalls
<1>1. w \in Held(d)
  BY DEF Held
<1>2. pc[d] \in {"lockHi", "decide", "credit", "post", "commit"}
  BY <1>0, <1>1 DEF TxOf, Empty, AtLockLo, AtFund, Labels, InTx
<1>3. \A v \in Held(d) : Holders(d, v, "NoKeyUpdate") = {}
  BY <1>0, HoldersWrote DEF RowInv, Held
<1>4. pc[d] \notin {"post", "commit"}
  BY DEF WaitsFor
<1>5. pc[d] # "decide"
  <2> SUFFICES ASSUME pc[d] = "decide" PROVE FALSE
    OBVIOUS
  <2>1. RefRow[req[d].from] \in Held(d)
    BY <1>0 DEF TxOf, AtDecide, From
  <2>2. Holders(d, RefRow[req[d].from], "NoKeyUpdate") = {}
    BY <1>3, <2>1
  <2> QED BY <2>2 DEF WaitsFor
<1>6. pc[d] # "credit"
  <2> SUFFICES ASSUME pc[d] = "credit" PROVE FALSE
    OBVIOUS
  <2>1. RefRow[req[d].to] \in Held(d)
    BY <1>0 DEF TxOf, AtCredit, To
  <2>2. Holders(d, RefRow[req[d].to], "NoKeyUpdate") = {}
    BY <1>3, <2>1
  <2> QED BY <2>2 DEF WaitsFor
<1>7. pc[d] = "lockHi"
  BY <1>2, <1>4, <1>5, <1>6
<1> QED BY <1>0, <1>1, <1>7 DEF TxOf, AtLockHi

\* The two references of a claimed transfer, in the order of their locks.
LEMMA Sorted ==
    ASSUME CanonicalRequests, IInv, NEW c \in Calls, pc[c] \in {"lockLo", "lockHi"}
    PROVE  /\ Lo(req[c]) \in Nat /\ Hi(req[c]) \in Nat /\ Lo(req[c]) < Hi(req[c])
           /\ RefRow[Lo(req[c])] \in Wallets /\ RefRow[Hi(req[c])] \in Wallets
           /\ Lo(req[c]) = Canon[RefRow[Lo(req[c])]]
           /\ Hi(req[c]) = Canon[RefRow[Hi(req[c])]]
<1> DEFINE f == req[c].from
           t == req[c].to
<1>1. Claimed(c, "pending")
  BY DEF IInv, TxInv, TxOf, AtLockLo, AtLockHi
<1>2. f \in Nat /\ t \in Nat
  BY <1>1, RequestAssumption, RefAssumption DEF Claimed
<1>3. RefRow[f] \in Wallets /\ RefRow[t] \in Wallets /\ f # t
  BY <1>1 DEF Claimed, From, To
<1>4. f = Canon[RefRow[f]] /\ t = Canon[RefRow[t]]
  BY <1>1, <1>3 DEF Claimed, CanonicalRequests
<1>5. Lo(req[c]) = (IF f > t THEN t ELSE f) /\ Hi(req[c]) = (IF f > t THEN f ELSE t)
  BY DEF Lo, Hi
<1> HIDE DEF f, t
<1> QED BY <1>2, <1>3, <1>4, <1>5

\* Who waits for a call that waits stands before it.
LEMMA WaitsUp ==
    ASSUME CanonicalRequests, IInv, NoUpdateLocks, NEW c \in Calls, NEW d \in WaitsFor(c),
           WaitsFor(d) # {}
    PROVE  d \in Calls /\ Rank(c) < Rank(d)
<1>0. TxOf(c) /\ pc[c] \in Labels
  BY TypeParts DEF IInv, TxInv, TypeCalls
<1>1. ASSUME NEW w \in Wallets, d \in Holders(c, w, "NoKeyUpdate"), Rank(c) = Canon[w] + 1
      PROVE  d \in Calls /\ Rank(c) < Rank(d)
  <2>1. d \in Calls /\ Wrote(d, w)
    BY <1>1, HoldersWrote
  <2>2. pc[d] = "lockHi" /\ w = RefRow[Lo(req[d])]
    BY <2>1, HolderWaits
  <2>3. Rank(d) = Hi(req[d]) + 1
    BY <2>2 DEF Rank
  <2> QED BY <1>1, <2>1, <2>2, <2>3, Sorted
<1>2. ASSUME NEW e \in Calls, pc[e] \in {"lockLo", "lockHi", "fund"} PROVE 0 < Rank(e)
  <2>1. CASE pc[e] = "lockLo"
    BY <2>1, Sorted DEF Rank
  <2>2. CASE pc[e] = "lockHi"
    BY <2>2, Sorted DEF Rank
  <2>3. CASE pc[e] = "fund"
    <3>1. Canon[RefRow[req[e].wallet]] \in Nat
      BY <2>3, RefAssumption DEF IInv, TxInv, TxOf, AtFund
    <3>2. Rank(e) = Canon[RefRow[req[e].wallet]] + 1
      BY <2>3 DEF Rank
    <3> QED BY <3>1, <3>2
  <2> QED BY <1>2, <2>1, <2>2, <2>3
<1>3. ASSUME NEW e \in Calls, WaitsFor(e) # {}
      PROVE  pc[e] \in {"claim", "mint", "lockLo", "lockHi", "fund"}
  <2>1. pc[e] \in {"claim", "mint", "lockLo", "lockHi", "fund", "decide", "credit"}
    BY <1>3 DEF WaitsFor
  <2>2. ASSUME pc[e] \in {"decide", "credit"} PROVE FALSE
    <3>1. From(e) \in Wallets /\ Wrote(e, From(e))
      BY <2>2 DEF IInv, TxInv, TxOf, AtDecide, AtCredit, Claimed, Held
    <3> QED BY <1>3, <2>2, <3>1, HolderWaits
  <2> QED BY <2>1, <2>2
<1>4. CASE pc[c] = "lockLo"
  <2>1. WaitsFor(c) = Holders(c, RefRow[Lo(req[c])], "NoKeyUpdate") /\ Rank(c) = Lo(req[c]) + 1
    BY <1>4 DEF WaitsFor, RowLock, Rank
  <2> QED BY <1>1, <1>4, <2>1, Sorted
<1>5. CASE pc[c] = "lockHi"
  <2>1. WaitsFor(c) = Holders(c, RefRow[Hi(req[c])], "NoKeyUpdate") /\ Rank(c) = Hi(req[c]) + 1
    BY <1>5 DEF WaitsFor, RowLock, Rank
  <2> QED BY <1>1, <1>5, <2>1, Sorted
<1>6. CASE pc[c] = "fund"
  <2>1. /\ WaitsFor(c) = Holders(c, RefRow[req[c].wallet], "NoKeyUpdate")
        /\ Rank(c) = Canon[RefRow[req[c].wallet]] + 1
    BY <1>6 DEF WaitsFor, Rank
  <2>2. RefRow[req[c].wallet] \in Wallets
    BY <1>0, <1>6 DEF TxOf, AtFund
  <2> QED BY <1>1, <2>1, <2>2
<1>7. CASE pc[c] = "claim"
  <2>1. d \in KeyHolders(c, req[c]) /\ Rank(c) = 0
    BY <1>7 DEF WaitsFor, Rank
  <2>2. d \in Calls /\ wTransfer[d] # {}
    BY <2>1 DEF KeyHolders
  <2>3. pc[d] \in {"lockLo", "lockHi"}
    BY <1>3, <2>2 DEF IInv, TxInv, TxOf, Empty, AtFund
  <2> QED BY <1>2, <2>1, <2>2, <2>3
<1>8. CASE pc[c] = "mint"
  <2>1. d \in MintHolders(c, req[c]) /\ Rank(c) = 0
    BY <1>8 DEF WaitsFor, Rank
  <2>2. d \in Calls /\ wMint[d] # {}
    BY <2>1 DEF MintHolders
  <2>3. pc[d] \in {"lockLo", "lockHi", "fund"}
    BY <1>3, <2>2 DEF IInv, TxInv, TxOf, Empty
  <2> QED BY <1>2, <2>1, <2>2, <2>3
<1> QED BY <1>3, <1>4, <1>5, <1>6, <1>7, <1>8

\* A rank is a number, so that a chain of waiting calls cannot descend for ever.
LEMMA RankType ==
    ASSUME CanonicalRequests, IInv, NEW c \in Calls
    PROVE  Rank(c) \in Nat
<1>1. CASE pc[c] = "lockLo"
  BY <1>1, Sorted DEF Rank
<1>2. CASE pc[c] = "lockHi"
  BY <1>2, Sorted DEF Rank
<1>3. CASE pc[c] = "fund"
  <2>1. Canon[RefRow[req[c].wallet]] \in Nat
    BY <1>3, RefAssumption DEF IInv, TxInv, TxOf, AtFund
  <2>2. Rank(c) = Canon[RefRow[req[c].wallet]] + 1
    BY <1>3 DEF Rank
  <2> QED BY <2>1, <2>2
<1>4. CASE pc[c] \notin {"lockLo", "lockHi", "fund"}
  <2>1. Rank(c) = 0
    BY <1>4 DEF Rank
  <2> QED BY <2>1
<1> QED BY <1>1, <1>2, <1>3, <1>4

\* Around a circle the rank would have to grow for ever: the call of smallest
\* rank has a predecessor of smaller rank.
LEMMA NoCircle ==
    ASSUME CanonicalRequests, IInv, NoUpdateLocks
    PROVE  NoDeadlock
<1> SUFFICES ASSUME NEW c \in Calls, Deadlocked(c) PROVE FALSE
  BY DEF NoDeadlock
<1>0. PICK n \in 1..Cardinality(Calls) : \E q \in [1..n -> Calls] :
         \A i \in 1..n : q[(i % n) + 1] \in WaitsFor(q[i])
  BY DEF Deadlocked
<1>1. PICK p \in [1..n -> Calls] : \A i \in 1..n : p[(i % n) + 1] \in WaitsFor(p[i])
  BY <1>0
<1>2. n \in Nat /\ n >= 1
  BY <1>0
<1>3. ASSUME NEW i \in 1..n PROVE (i % n) + 1 = IF i = n THEN 1 ELSE i + 1
  BY <1>2
<1>4. \A i \in 1..n : WaitsFor(p[i]) # {} /\ p[i] \in Calls
  BY <1>1
<1>5. ASSUME NEW i \in 1..n PROVE \E j \in 1..n : Rank(p[j]) < Rank(p[i])
  <2>1. PICK j \in 1..n : i = IF j = n THEN 1 ELSE j + 1
    <3>1. CASE i = 1
      BY <1>2, <3>1
    <3>2. CASE i # 1
      <4>1. i - 1 \in 1..n /\ i - 1 # n /\ i = (i - 1) + 1
        BY <1>2, <3>2
      <4> QED BY <4>1
    <3> QED BY <3>1, <3>2
  <2>2. p[i] \in WaitsFor(p[j])
    BY <1>1, <1>3, <2>1
  <2> QED BY <1>4, <2>1, <2>2, WaitsUp
<1> DEFINE R == { Rank(p[i]) : i \in 1..n }
<1>6. R \subseteq Nat /\ R # {}
  BY <1>2, <1>4, RankType
<1>7. PICK x \in R : \A y \in R : ~(<<y, x>> \in OpToRel(<, Nat))
  <2> HIDE DEF R
  <2> QED BY <1>6, NatLessThanWellFounded, WFMin
<1>8. \A y \in R : ~(y < x)
  <2>1. \A y \in R : y < x => <<y, x>> \in OpToRel(<, Nat)
    BY <1>6, <1>7 DEF OpToRel
  <2> QED BY <1>7, <2>1
<1> QED BY <1>5, <1>8

\* Sorted row locks: as long as clients write wallet ids the way Postgres prints
\* them, no number of transfers and mints ever wait for each other in a circle.
THEOREM DeadlockFree ==
    ASSUME CanonicalRequests
    PROVE  Spec => []NoDeadlock
<1>1. Init => NoUpdateLocks
  BY DEF Init, NoUpdateLocks
<1>2. IInv /\ NoUpdateLocks => NoDeadlock
  BY NoCircle
<1> QED BY <1>1, <1>2, NoUpdateLocksStep, Invariance, PTL DEF Spec
=============================================================================
