---------------------------- MODULE WalletAudit -----------------------------
(***************************************************************************)
(* CheckInvariants: the audit behind GET /invariants and the background    *)
(* sampler.  It is one SELECT, hence one snapshot of the committed tables  *)
(* taken while any number of transfers and mints are half done.            *)
(***************************************************************************)
EXTENDS WalletStoreInv, FiniteSetsExt

\* A table has finitely many rows.
ASSUME FiniteAssumption == IsFiniteSet(Wallets)

SumBalances == MapThenSumSet(LAMBDA w : balance[w], Wallets)
SumMinted == MapThenSumSet(LAMBDA m : m.amt, mints)
SumLedger == MapThenSumSet(LAMBDA e : e.delta, ledger)
NegativeBalances == { w \in Wallets : balance[w] < 0 }
PendingTransfers == { t \in transfers : t.status = "pending" }

Conservation == SumBalances = SumMinted /\ SumLedger = 0
NoOverdraft == NegativeBalances = {}
AllHold == Conservation /\ NoOverdraft /\ PendingTransfers = {}

\* Each sum is scanned into an int64.
Scans == \A sum \in {SumBalances, SumMinted, SumLedger} : sum \in (0 - MaxInt)..MaxInt

\* handleInvariants: 500 if the audit fails or finds something.
InvariantsStatus == IF Scans /\ AllHold THEN 200 ELSE 500

\* Whenever the audit runs, between any two statements of any calls, it comes
\* out true: money is conserved, nothing is negative, nothing is pending.  The
\* answer is 500 all the same once more has been minted than an int64 can count,
\* although no single balance ever overflows, and only then.
AuditHolds == AllHold /\ (InvariantsStatus = 500 <=> SumMinted > MaxInt)

\* Stronger than conservation: each single wallet holds exactly what was minted
\* into it plus what the ledger says came and went.
WalletsReconcile ==
    \A w \in Wallets :
        balance[w] = MapThenSumSet(LAMBDA m : m.amt, { m \in mints : m.wallet = w })
                   + MapThenSumSet(LAMBDA e : e.delta, { e \in ledger : e.wallet = w })
=============================================================================
