----------------------- MODULE WalletProvisionProofs ------------------------
(***************************************************************************)
(* Logins cost the transfers nothing but time: whatever is proved of       *)
(* WalletStore holds while users log in.                                   *)
(***************************************************************************)
EXTENDS WalletProvision, WalletAuditProofs, TLAPS

\* To the store's own state, a login is a stutter.
LEMMA LoginsStutter == [ProvisionNext]_allVars => [Next]_vars
  <1> SUFFICES ASSUME [ProvisionNext]_allVars PROVE [Next]_vars
      OBVIOUS
  <1>1. CASE UNCHANGED allVars \/ AllDone
      BY <1>1 DEF allVars, AllDone
  <1>2. ASSUME NEW c \in Calls, Outside(c) \/ CallStep(c) PROVE Next
      BY <1>2 DEF Outside, CallStep, Next
  <1>3. ASSUME NEW p \in Logins, LoginArrives(p) \/ LoginStep(p) PROVE UNCHANGED vars
      BY <1>3 DEF LoginArrives, LoginStep, Connect, UpsertUser, GetOrCreateWallet
  <1> QED
      BY <1>1, <1>2, <1>3 DEF ProvisionNext

\* The store beside logins (authenticate, POST /wallets) is the store.
LEMMA ProvisionImplementsStore == ProvisionSpec => Spec
  <1>1. ProvisionInit => Init
      BY DEF ProvisionInit
  <1> QED
      BY <1>1, LoginsStutter, PTL DEF ProvisionSpec, Spec

\* UpsertUser and GetOrCreateWallet lock rows that transfers use, and share their
\* pool: the inductive invariant of Transfer and Mint survives any number of them.
THEOREM InvariantBesideLogins == ProvisionSpec => []IInv
  BY ProvisionImplementsStore, Invariance, PTL

\* The audit of GET /invariants holds beside them as well: a login that waits for a
\* transfer's rows, or takes its connection, costs nobody a paisa.
THEOREM AuditBesideLogins == ProvisionSpec => []AuditHolds
  BY ProvisionImplementsStore, AuditSound, PTL
=============================================================================
