------------------------- MODULE WalletAuditProofs --------------------------
(***************************************************************************)
(* Money is conserved in WalletStore, for every finite set of wallets: the *)
(* audit of CheckInvariants holds between any two statements, and every    *)
(* single wallet reconciles with its mints and its ledger rows.            *)
(***************************************************************************)
EXTENDS WalletAudit, WalletStoreProofs, FiniteSums

-----------------------------------------------------------------------------
(* The books: both money tables are finite and add up.                     *)

MintsOf(w) == { m \in mints : m.wallet = w }
EntriesOf(w) == { e \in ledger : e.wallet = w }

BooksInv ==
    /\ IsFiniteSet(mints) /\ IsFiniteSet(ledger)
    /\ Sum(balance, Wallets) = Sum(Amt(mints), mints)
    /\ Sum(Delta(ledger), ledger) = 0
    /\ \A w \in Wallets :
          balance[w] = Sum(Amt(MintsOf(w)), MintsOf(w))
                     + Sum(Delta(EntriesOf(w)), EntriesOf(w))

\* The transfer of an amount: its two ledger rows are new, the balances of the
\* two wallets move by their deltas, and no mint is added.
Moves(e, f) ==
    /\ e \in LedgerRows /\ f \in LedgerRows
    /\ e \notin ledger /\ f \notin ledger
    /\ e.wallet # f.wallet /\ e.delta = 0 - f.delta
    /\ ledger' = ledger \cup {e} \cup {f}
    /\ balance'[e.wallet] = balance[e.wallet] + e.delta
    /\ balance'[f.wallet] = balance[f.wallet] + f.delta
    /\ \A w \in Wallets \ {e.wallet, f.wallet} : balance'[w] = balance[w]
    /\ UNCHANGED mints

\* Money enters: one new row of mints, and its wallet has that much more.
Enters(m) ==
    /\ m \in MintRows /\ m \notin mints
    /\ mints' = mints \cup {m}
    /\ balance'[m.wallet] = balance[m.wallet] + m.amt
    /\ \A w \in Wallets \ {m.wallet} : balance'[w] = balance[w]
    /\ UNCHANGED ledger

\* A commit moves an amount, brings one in, or leaves all money where it is.
LEMMA CommitEffect ==
    ASSUME IInv, NEW c \in Calls, pc[c] = "commit", Install(c)
    PROVE  \/ UNCHANGED <<balance, ledger, mints>>
           \/ \E e, f \in LedgerRows : Moves(e, f)
           \/ \E m \in MintRows : Enters(m)
<1> DEFINE r == req[c]
<1>0. AtCommit(c) /\ KeyInv /\ RecordInv /\ TypeData
  BY TypeParts DEF IInv, TxInv, TxOf
<1>1. \A w \in Wallets : balance'[w] = IF w \in Held(c) THEN live[w] ELSE balance[w]
  BY InstalledBalance
<1>2. balance \in [Wallets -> 0..MaxInt] /\ balance' \in [Wallets -> 0..MaxInt]
  BY <1>0, InstalledBalance DEF TypeData
<1>3. /\ ledger' = ledger \cup wLedger[c]
      /\ mints' = mints \cup wMint[c]
  BY DEF Install
<1>4. CASE DeclineReady(c)
  <2>1. \A w \in Wallets : balance'[w] = balance[w]
    BY <1>1, <1>4 DEF DeclineReady, Unwritten
  <2>2. balance' = balance
    BY <1>2, <2>1
  <2> QED BY <1>3, <1>4, <2>2 DEF DeclineReady, Claimed
<1>5. CASE SuccessReady(c)
  <2> DEFINE e == [transfer |-> c, wallet |-> RefRow[r.from], delta |-> 0 - r.amt]
             f == [transfer |-> c, wallet |-> RefRow[r.to], delta |-> r.amt]
  <2>1. /\ From(c) \in Wallets /\ To(c) \in Wallets /\ From(c) # To(c)
        /\ r \in TransferReqs /\ wMint[c] = {}
    BY <1>5 DEF SuccessReady, Claimed
  <2>2. r.amt \in Int
    BY <2>1, BoundAssumption, RequestAssumption DEF Amounts
  <2>3. e \in LedgerRows /\ f \in LedgerRows
    BY <2>1, <2>2 DEF LedgerRows, From, To
  <2>4. \A x \in ledger : x.transfer # c
    <3>1. \A t \in transfers : t.id # c
      BY <1>0 DEF RecordInv
    <3> QED BY <1>0, <3>1 DEF RecordInv, LedgerMatchesTransfers
  <2>5. ledger' = ledger \cup {e} \cup {f}
    BY <1>3, <1>5 DEF SuccessReady, Entries
  <2>6. /\ balance'[From(c)] = balance[From(c)] + (0 - r.amt)
        /\ balance'[To(c)] = balance[To(c)] + r.amt
        /\ \A w \in Wallets \ {From(c), To(c)} : balance'[w] = balance[w]
    BY <1>1, <1>2, <1>5, <2>1, <2>2, BoundAssumption DEF SuccessReady, Debited, Credited
  <2>7. Moves(e, f)
    BY <1>3, <2>1, <2>2, <2>3, <2>4, <2>5, <2>6 DEF Moves, From, To
  <2> QED BY <2>3, <2>7
<1>6. CASE MintReady(c)
  <2> DEFINE m == NewMint(c, r)
             w == RefRow[r.wallet]
  <2>1. /\ w \in Wallets /\ r \in MintReqs /\ wMint[c] = {m} /\ wLedger[c] = {}
        /\ Held(c) = {w} /\ live[w] = balance[w] + r.amt
    BY <1>6 DEF MintReady
  <2>2. m \in MintRows /\ m.wallet = w /\ m.amt = r.amt
    BY <1>0, <2>1 DEF TypeData, NewMint
  <2>3. m \notin mints
    BY <1>0, <2>1 DEF KeyInv
  <2>4. Enters(m)
    BY <1>1, <1>3, <2>1, <2>2, <2>3 DEF Enters
  <2> QED BY <2>2, <2>4
<1>7. CASE r \in MintReqs /\ Empty(c)
  <2>1. balance' = balance
    BY <1>1, <1>2, <1>7 DEF Empty
  <2> QED BY <1>3, <1>7, <2>1 DEF Empty
<1> QED BY <1>0, <1>4, <1>5, <1>6, <1>7 DEF AtCommit

\* A transfer leaves the books in balance.
LEMMA MovesKeepsBooks ==
    ASSUME IInv, BooksInv, NEW e \in LedgerRows, NEW f \in LedgerRows, Moves(e, f)
    PROVE  BooksInv'
<1> DEFINE S == ledger \cup {e}
<1>0. /\ balance \in [Wallets -> 0..MaxInt] /\ ledger \subseteq LedgerRows
      /\ MaxInt \in Nat /\ IsFiniteSet(Wallets)
  BY BoundAssumption, FiniteAssumption DEF IInv, TypeOK
<1>1. /\ e.wallet \in Wallets /\ f.wallet \in Wallets /\ e.delta \in Int /\ f.delta \in Int
      /\ \A r \in ledger : r.delta \in Int
  BY <1>0 DEF LedgerRows
<1>2. e # f /\ f \notin S /\ ledger' = S \cup {f} /\ mints' = mints
  BY DEF Moves
<1>3. IsFiniteSet(mints) /\ IsFiniteSet(ledger) /\ IsFiniteSet(S) /\ IsFiniteSet(S \cup {f})
  BY FS_AddElement DEF BooksInv
<1>4. Sum(balance', Wallets) = Sum(balance, Wallets)
  <2> DEFINE b == [balance EXCEPT ![e.wallet] = @ + e.delta]
  <2>1. Sum(b, Wallets) = Sum(balance, Wallets) + e.delta
    <3>1. /\ \A x \in Wallets : balance[x] \in Int
          /\ b[e.wallet] = balance[e.wallet] + e.delta
          /\ \A x \in Wallets \ {e.wallet} : b[x] = balance[x]
      BY <1>0, <1>1
    <3> HIDE DEF b
    <3> QED BY <1>0, <1>1, <3>1, ChangeOne
  <2>2. Sum(balance', Wallets) = Sum(b, Wallets) + f.delta
    <3>1. \A x \in Wallets : b[x] \in Int
      BY <1>0, <1>1
    <3>2. balance'[f.wallet] = b[f.wallet] + f.delta
      BY <1>0, <1>1 DEF Moves
    <3>3. \A x \in Wallets \ {f.wallet} : balance'[x] = b[x]
      BY <1>0, <1>1 DEF Moves
    <3> HIDE DEF b
    <3> QED BY <1>0, <1>1, <3>1, <3>2, <3>3, ChangeOne
  <2>3. Sum(balance, Wallets) \in Int
    BY <1>0, SumType
  <2> HIDE DEF b
  <2> QED BY <1>1, <2>1, <2>2, <2>3 DEF Moves
<1>5. Sum(Delta(S \cup {f}), S \cup {f}) = 0
  <2>1. Sum(Delta(S), S) = e.delta + Sum(Delta(ledger), ledger)
    BY <1>1, <1>3, AddDelta DEF Moves
  <2>2. \A r \in S \cup {f} : r.delta \in Int
    BY <1>1
  <2> HIDE DEF S
  <2>3. Sum(Delta(S \cup {f}), S \cup {f}) = f.delta + Sum(Delta(S), S)
    BY <1>2, <1>3, <2>2, AddDelta
  <2> QED BY <1>1, <2>1, <2>3 DEF BooksInv, Moves
<1>6. ASSUME NEW w \in Wallets
      PROVE  balance'[w] = Sum(Amt(MintsOf(w)'), MintsOf(w)')
                         + Sum(Delta(EntriesOf(w)'), EntriesOf(w)')
  <2> DEFINE M == MintsOf(w)
             L == EntriesOf(w)
  <2>1. MintsOf(w)' = M
    BY <1>2 DEF MintsOf
  <2>2. balance[w] = Sum(Amt(M), M) + Sum(Delta(L), L)
    BY DEF BooksInv
  <2>3. IsFiniteSet(M) /\ IsFiniteSet(L) /\ e \notin L /\ f \notin L
    BY <1>3, FS_Subset DEF MintsOf, EntriesOf, Moves
  <2>4. Sum(Amt(M), M) \in Int /\ Sum(Delta(L), L) \in Int
    <3>1. \A x \in M : Amt(M)[x] \in Int
      BY BoundAssumption DEF IInv, TypeOK, MintsOf, MintRows, Amounts, Amt
    <3>2. \A x \in L : Delta(L)[x] \in Int
      BY <1>1 DEF EntriesOf, Delta
    <3> QED BY <2>3, <3>1, <3>2, SumType
  <2>5. ASSUME NEW x \in {e, f}, w = x.wallet, EntriesOf(w)' = L \cup {x},
               balance'[w] = balance[w] + x.delta
        PROVE  balance'[w] = Sum(Amt(MintsOf(w)'), MintsOf(w)')
                           + Sum(Delta(EntriesOf(w)'), EntriesOf(w)')
    <3>1. x \notin L /\ \A r \in L \cup {x} : r.delta \in Int
      BY <1>1, <2>3 DEF EntriesOf
    <3>2. Sum(Delta(L \cup {x}), L \cup {x}) = x.delta + Sum(Delta(L), L)
      <4> HIDE DEF L
      <4> QED BY <2>3, <3>1, AddDelta
    <3>3. x.delta \in Int
      BY <1>1
    <3> HIDE DEF L, M
    <3> QED BY <2>1, <2>2, <2>4, <2>5, <3>2, <3>3
  <2>6. CASE w = e.wallet
    <3>1. EntriesOf(w)' = L \cup {e} /\ balance'[w] = balance[w] + e.delta
      BY <1>2, <2>6 DEF EntriesOf, Moves
    <3> QED BY <2>5, <2>6, <3>1
  <2>7. CASE w = f.wallet
    <3>1. EntriesOf(w)' = L \cup {f} /\ balance'[w] = balance[w] + f.delta
      BY <1>2, <2>7 DEF EntriesOf, Moves
    <3> QED BY <2>5, <2>7, <3>1
  <2>8. CASE w # e.wallet /\ w # f.wallet
    <3>1. EntriesOf(w)' = L /\ balance'[w] = balance[w]
      BY <1>2, <2>8 DEF EntriesOf, Moves
    <3> QED BY <2>1, <2>2, <3>1
  <2> QED BY <2>6, <2>7, <2>8
<1> HIDE DEF S
<1> QED BY <1>2, <1>3, <1>4, <1>5, <1>6 DEF BooksInv

\* A mint leaves the books in balance.
LEMMA EntersKeepsBooks ==
    ASSUME IInv, BooksInv, NEW m \in MintRows, Enters(m)
    PROVE  BooksInv'
<1>0. /\ balance \in [Wallets -> 0..MaxInt] /\ mints \subseteq MintRows
      /\ MaxInt \in Nat /\ IsFiniteSet(Wallets)
  BY BoundAssumption, FiniteAssumption DEF IInv, TypeOK
<1>1. m.wallet \in Wallets /\ m.amt \in Int /\ \A r \in mints : r.amt \in Int
  BY <1>0 DEF MintRows, Amounts
<1>2. m \notin mints /\ mints' = mints \cup {m} /\ ledger' = ledger
  BY DEF Enters
<1>3. IsFiniteSet(mints) /\ IsFiniteSet(ledger) /\ IsFiniteSet(mints \cup {m})
  BY FS_AddElement DEF BooksInv
<1>4. Sum(balance', Wallets) = Sum(balance, Wallets) + m.amt
  <2>1. /\ \A x \in Wallets : balance[x] \in Int
        /\ balance'[m.wallet] = balance[m.wallet] + m.amt
        /\ \A x \in Wallets \ {m.wallet} : balance'[x] = balance[x]
    BY <1>0 DEF Enters
  <2> QED BY <1>0, <1>1, <2>1, ChangeOne
<1>5. Sum(Amt(mints \cup {m}), mints \cup {m}) = m.amt + Sum(Amt(mints), mints)
  BY <1>1, <1>2, <1>3, AddAmount
<1>6. Sum(balance, Wallets) \in Int
  BY <1>0, SumType
<1>7. ASSUME NEW w \in Wallets
      PROVE  balance'[w] = Sum(Amt(MintsOf(w)'), MintsOf(w)')
                         + Sum(Delta(EntriesOf(w)'), EntriesOf(w)')
  <2> DEFINE M == MintsOf(w)
             L == EntriesOf(w)
  <2>1. EntriesOf(w)' = L
    BY <1>2 DEF EntriesOf
  <2>2. balance[w] = Sum(Amt(M), M) + Sum(Delta(L), L)
    BY DEF BooksInv
  <2>3. IsFiniteSet(M) /\ IsFiniteSet(L) /\ m \notin M
    BY <1>2, <1>3, FS_Subset DEF MintsOf, EntriesOf
  <2>4. Sum(Amt(M), M) \in Int /\ Sum(Delta(L), L) \in Int
    <3>1. \A x \in M : Amt(M)[x] \in Int
      BY <1>1 DEF MintsOf, Amt
    <3>2. \A x \in L : Delta(L)[x] \in Int
      BY DEF IInv, TypeOK, EntriesOf, LedgerRows, Delta
    <3> QED BY <2>3, <3>1, <3>2, SumType
  <2>5. CASE w = m.wallet
    <3>1. MintsOf(w)' = M \cup {m} /\ balance'[w] = balance[w] + m.amt
      BY <1>2, <2>5 DEF MintsOf, Enters
    <3>2. \A r \in M \cup {m} : r.amt \in Int
      BY <1>1 DEF MintsOf
    <3> HIDE DEF L, M
    <3>3. Sum(Amt(M \cup {m}), M \cup {m}) = m.amt + Sum(Amt(M), M)
      BY <2>3, <3>2, AddAmount
    <3> QED BY <1>1, <2>1, <2>2, <2>4, <3>1, <3>3
  <2>6. CASE w # m.wallet
    <3>1. MintsOf(w)' = M /\ balance'[w] = balance[w]
      BY <1>2, <2>6 DEF MintsOf, Enters
    <3> QED BY <2>1, <2>2, <3>1
  <2> QED BY <2>5, <2>6
<1> QED BY <1>1, <1>2, <1>3, <1>4, <1>5, <1>6, <1>7 DEF BooksInv

\* The rows of mints for the wallets of T that start with money, and the sum of
\* what they start with.
SeedRow(w) == [id |-> w, key |-> w, wallet |-> w, amt |-> Seed[w]]
SeedRows(T) == { SeedRow(w) : w \in { v \in T : Seed[v] > 0 } }

\* The store starts with books in balance.
LEMMA InitBooks == Init => BooksInv
<1> SUFFICES ASSUME Init PROVE BooksInv
  OBVIOUS
<1>0. Seed \in [Wallets -> 0..MaxInt] /\ MaxInt \in Nat /\ IsFiniteSet(Wallets)
  BY BoundAssumption, FiniteAssumption
<1>1. balance = Seed /\ ledger = {} /\ mints = SeedRows(Wallets)
  BY DEF Init, SeedMints, SeedRows, SeedRow
<1>2. \A T \in SUBSET Wallets : /\ IsFiniteSet(SeedRows(T))
                                /\ Sum(Amt(SeedRows(T)), SeedRows(T)) = Sum(Seed, T)
  <2> DEFINE Good(T) == /\ IsFiniteSet(SeedRows(T))
                        /\ Sum(Amt(SeedRows(T)), SeedRows(T)) = Sum(Seed, T)
             Bad == { T \in SUBSET Wallets : ~Good(T) }
  <2> SUFFICES ASSUME Bad # {} PROVE FALSE
    OBVIOUS
  <2> HIDE DEF Good
  <2>1. PICK m \in Bad : \A t \in SUBSET m : t # m => t \notin Bad
    <3>1. Bad \subseteq SUBSET Wallets
      OBVIOUS
    <3> HIDE DEF Bad
    <3> QED BY <1>0, <3>1, SmallestSubset
  <2>2. m \in SUBSET Wallets /\ IsFiniteSet(m) /\ ~Good(m)
    BY <1>0, <2>1, FS_Subset
  <2>3. CASE m = {}
    <3>1. SeedRows(m) = {}
      BY <2>3 DEF SeedRows
    <3> QED BY <2>2, <2>3, <3>1, SumEmpty, FS_EmptySet DEF Good
  <2>4. CASE m # {}
    <3>1. PICK a \in m : TRUE
      BY <2>4
    <3> DEFINE t == m \ {a}
    <3>2. t \in SUBSET m /\ t # m /\ a \notin t /\ IsFiniteSet(t) /\ m = t \cup {a}
      BY <2>2, <3>1, FS_RemoveElement
    <3>3. Good(t)
      BY <2>1, <2>2, <3>2
    <3> HIDE DEF t
    <3>4. Sum(Seed, m) = Seed[a] + Sum(Seed, t)
      <4>1. \A x \in t \cup {a} : Seed[x] \in Int
        BY <1>0, <2>2, <3>2
      <4> QED BY <3>2, <4>1, SumAdd
    <3>5. Seed[a] \in Nat /\ Sum(Seed, t) \in Int
      <4>1. \A x \in t : Seed[x] \in Int
        BY <1>0, <2>2, <3>2
      <4> QED BY <1>0, <2>2, <3>1, <3>2, <4>1, SumType
    <3>6. CASE Seed[a] > 0
      <4>1. SeedRows(m) = SeedRows(t) \cup {SeedRow(a)}
        BY <3>2, <3>6 DEF SeedRows
      <4>2. SeedRow(a) \notin SeedRows(t)
        BY <3>2 DEF SeedRows, SeedRow
      <4>3. \A r \in SeedRows(t) \cup {SeedRow(a)} : r.amt \in Int
        BY <1>0, <2>2, <3>1, <3>2 DEF SeedRows, SeedRow
      <4>4. IsFiniteSet(SeedRows(t))
        BY <3>3 DEF Good
      <4>5. Sum(Amt(SeedRows(m)), SeedRows(m)) = SeedRow(a).amt + Sum(Amt(SeedRows(t)), SeedRows(t))
        BY <4>1, <4>2, <4>3, <4>4, AddAmount
      <4>6. IsFiniteSet(SeedRows(t) \cup {SeedRow(a)})
        BY <4>4, FS_AddElement
      <4>7. SeedRow(a).amt = Seed[a]
        BY DEF SeedRow
      <4> QED BY <2>2, <3>3, <3>4, <4>1, <4>5, <4>6, <4>7 DEF Good
    <3>7. CASE ~(Seed[a] > 0)
      <4>1. SeedRows(m) = SeedRows(t)
        BY <3>2, <3>7 DEF SeedRows
      <4>2. Sum(Seed, m) = Sum(Seed, t)
        BY <3>4, <3>5, <3>7
      <4> QED BY <2>2, <3>3, <4>1, <4>2 DEF Good
    <3> QED BY <3>6, <3>7
  <2> QED BY <2>3, <2>4
<1>3. ASSUME NEW w \in Wallets
      PROVE  balance[w] = Sum(Amt(MintsOf(w)), MintsOf(w))
                        + Sum(Delta(EntriesOf(w)), EntriesOf(w))
  <2>1. EntriesOf(w) = {} /\ MintsOf(w) = SeedRows({w})
    BY <1>1 DEF EntriesOf, MintsOf, SeedRows, SeedRow
  <2>2. Sum(Amt(MintsOf(w)), MintsOf(w)) = Sum(Seed, {w})
    BY <1>2, <2>1
  <2>3. Sum(Seed, {w}) = Seed[w] + Sum(Seed, {})
    <3>1. IsFiniteSet({}) /\ {} \cup {w} = {w} /\ w \notin {} /\ \A x \in {} \cup {w} : Seed[x] \in Int
      BY <1>0, FS_EmptySet
    <3> QED BY <3>1, SumAdd
  <2> QED BY <1>0, <1>1, <2>1, <2>2, <2>3, SumEmpty
<1> QED BY <1>1, <1>2, <1>3, SumEmpty, FS_EmptySet DEF BooksInv

\* Every step leaves the books in balance: only a commit touches them.
LEMMA BooksStep == IInv /\ BooksInv /\ [Next]_vars => BooksInv'
<1> SUFFICES ASSUME IInv, BooksInv, [Next]_vars PROVE BooksInv'
  OBVIOUS
<1>1. \/ UNCHANGED <<balance, ledger, mints>>
      \/ \E c \in Calls : pc[c] = "commit" /\ Install(c)
  <2>1. ASSUME NEW c \in Calls, Arrive(c) \/ Step(c) \/ Fault(c)
        PROVE  UNCHANGED tables \/ (pc[c] = "commit" /\ Install(c))
    BY <2>1, OtherStepsStutter DEF Fault, Commit, CommitReplyLost
  <2> QED BY <2>1 DEF Next, Quiescent, vars, tables
<1>2. CASE UNCHANGED <<balance, ledger, mints>>
  BY <1>2 DEF BooksInv, MintsOf, EntriesOf
<1>3. CASE \E e, f \in LedgerRows : Moves(e, f)
  BY <1>3, MovesKeepsBooks
<1>4. CASE \E m \in MintRows : Enters(m)
  BY <1>4, EntersKeepsBooks
<1> QED BY <1>1, <1>2, <1>3, <1>4, CommitEffect

\* The sums the audit reads are the sums of the books.
LEMMA AuditedSums ==
    ASSUME IInv, BooksInv
    PROVE  /\ SumBalances = Sum(balance, Wallets)
           /\ SumMinted = Sum(Amt(mints), mints)
           /\ SumLedger = Sum(Delta(ledger), ledger)
BY SumOfValues, SumOfAmounts, SumOfDeltas DEF SumBalances, SumMinted, SumLedger, BooksInv

\* The audit of GET /invariants, taken between any two statements of any calls,
\* finds all money accounted for, no negative balance and nothing pending; the
\* answer is an error exactly when more was minted than an int64 can count.
THEOREM AuditSound == Spec => []AuditHolds
<1>1. IInv /\ BooksInv => AuditHolds
  <2> SUFFICES ASSUME IInv, BooksInv PROVE AuditHolds
    OBVIOUS
  <2>1. Conservation
    BY AuditedSums DEF BooksInv, Conservation
  <2>2. NoOverdraft
    BY BoundAssumption DEF IInv, TypeOK, NoOverdraft, NegativeBalances
  <2>3. PendingTransfers = {}
    BY DEF IInv, RecordInv, PendingTransfers
  <2>4. SumMinted \in Nat
    <3>1. \A m \in mints : Amt(mints)[m] \in Nat
      BY BoundAssumption DEF IInv, TypeOK, MintRows, Amounts, Amt
    <3> QED BY <3>1, SumNat, AuditedSums DEF BooksInv
  <2>5. Scans <=> SumMinted <= MaxInt
    BY <2>1, <2>4, BoundAssumption DEF Scans, Conservation
  <2>6. MaxInt \in Nat
    BY BoundAssumption
  <2> QED BY <2>1, <2>2, <2>3, <2>4, <2>5, <2>6 DEF AuditHolds, AllHold, InvariantsStatus
<1> QED BY <1>1, InitBooks, BooksStep, Invariance, PTL DEF Spec

\* Every single wallet holds what was minted into it plus what its ledger rows
\* say, at every moment: no commit, replay or failure loses or invents a paisa.
THEOREM Reconciled == Spec => []WalletsReconcile
<1>1. IInv /\ BooksInv => WalletsReconcile
  <2> SUFFICES ASSUME IInv, BooksInv, NEW w \in Wallets
               PROVE  balance[w] = MapThenSumSet(LAMBDA m : m.amt, MintsOf(w))
                                 + MapThenSumSet(LAMBDA e : e.delta, EntriesOf(w))
    BY DEF WalletsReconcile, MintsOf, EntriesOf
  <2>1. IsFiniteSet(MintsOf(w)) /\ IsFiniteSet(EntriesOf(w))
    BY FS_Subset DEF BooksInv, MintsOf, EntriesOf
  <2> QED BY <2>1, SumOfAmounts, SumOfDeltas DEF BooksInv
<1> QED BY <1>1, InitBooks, BooksStep, Invariance, PTL DEF Spec
=============================================================================
