------------------------------ MODULE AccountReview ------------------------------
(***************************************************************************)
(* When a broker account may be armed: the snapshots of the six adapters,   *)
(* the evidence kept of the last one (Verification), the review the console *)
(* shows of it, and the gates of authorize and of a credential change.      *)
(*                                                                         *)
(* One account of one provider; its own lane is selected while an operation *)
(* needs that, and every operation holds the account's locks, so one is in  *)
(* progress at a time.  Here a snapshot is one step (BrokerAccount has its  *)
(* two requests apart); the orders and plans of an armed account are two    *)
(* words: whether the ledger has rows, and whether they are settled.        *)
(***************************************************************************)
EXTENDS Naturals

CONSTANTS
  Providers,   \* brokers the account may be at
  MaxRevision  \* bound: revisions of the profile

ReviewAssumption ==
  /\ Providers \subseteq {"alpaca", "tiger", "ibkr", "longport", "futu", "schwab"}
  /\ MaxRevision \in Nat \ {0}

VARIABLES
  provider,   \* the account's broker
  account,    \* what the broker holds for it
  revision,   \* of the profile: the hash of its contents
  ledger,     \* "empty", "settled" or "unsettled"
  authority,  \* authority.json
  record,     \* verification.json
  writing,    \* an authorize that has saved its evidence and not yet the authority
  last        \* history: what the last probe that was recorded found

vars == <<provider, account, revision, ledger, authority, record, writing, last>>

--------------------------------------------------------------------------------
\* held: shares; working: the orders at work, by when they were entered (in this
\* session, in the last 60 days, before); granted: the broker says that the
\* account may trade.
Holdings == [held : BOOLEAN, working : SUBSET {"today", "recent", "old"}, granted : BOOLEAN]

Snapshots == [identity : BOOLEAN, permitted : BOOLEAN, preview : BOOLEAN,
              held : BOOLEAN, orders : BOOLEAN]
Flat(s) == ~s.held /\ ~s.orders

\* snapshot() of each adapter, from the positions and the orders it asks for.
AlpacaSnapshot ==
  [identity |-> TRUE, permitted |-> account.granted, preview |-> FALSE,
   held |-> account.held, orders |-> account.working # {}]
TigerSnapshot ==
  [identity |-> TRUE, permitted |-> TRUE, preview |-> FALSE,
   held |-> account.held, orders |-> account.working # {}]
\* Permission is proved by the preview of each order.
IbkrSnapshot ==
  [identity |-> TRUE, permitted |-> FALSE, preview |-> TRUE,
   held |-> account.held, orders |-> account.working # {}]
\* Nothing in the answers names the account; only today's orders.
LongportSnapshot ==
  [identity |-> FALSE, permitted |-> FALSE, preview |-> FALSE,
   held |-> account.held, orders |-> "today" \in account.working]
\* Only the current session's orders.
FutuSnapshot ==
  [identity |-> TRUE, permitted |-> account.granted, preview |-> FALSE,
   held |-> account.held, orders |-> "today" \in account.working]
\* Orders of the last 60 days; a token to read proves no permission.
SchwabSnapshot ==
  [identity |-> TRUE, permitted |-> FALSE, preview |-> FALSE,
   held |-> account.held, orders |-> account.working \cap {"today", "recent"} # {}]

Snapshot ==
  [alpaca |-> AlpacaSnapshot, tiger |-> TigerSnapshot, ibkr |-> IbkrSnapshot,
   longport |-> LongportSnapshot, futu |-> FutuSnapshot, schwab |-> SchwabSnapshot][provider]

\* engine._permission
Permission(s) == s.permitted \/ (provider = "ibkr" /\ s.preview)

\* engine._snapshot, and what authorize asks of it.
Gate(s) == s.identity /\ Permission(s) /\ Flat(s)

--------------------------------------------------------------------------------
NoSnapshot == [identity |-> FALSE, permitted |-> FALSE, preview |-> FALSE,
               held |-> FALSE, orders |-> FALSE]
Records == [status : {"none", "failed", "verified"}, revision : 0 .. MaxRevision,
            snapshot : Snapshots, fresh : BOOLEAN]
Empty(status) == [status |-> status, revision |-> 0, snapshot |-> NoSnapshot, fresh |-> FALSE]

TypeOK ==
  /\ provider \in Providers /\ account \in Holdings
  /\ revision \in 1 .. MaxRevision
  /\ ledger \in {"empty", "settled", "unsettled"}
  /\ authority \in [mode : {"off", "entries", "close_only"}, revision : 0 .. MaxRevision]
  /\ record \in Records /\ last \in Records
  /\ writing \in BOOLEAN

Init ==
  /\ provider \in Providers /\ account \in Holdings
  /\ revision = 1
  /\ ledger = "empty"
  /\ authority = [mode |-> "off", revision |-> 0]
  /\ record = Empty("none") /\ last = Empty("none")
  /\ writing = FALSE

--------------------------------------------------------------------------------
\* The evidence

\* Mutant: a probe that fails leaves the record alone.
FailureForgotten == record
\* Verification.failed
Failed == [Empty("failed") EXCEPT !.revision = revision]

\* Verification.save
Saved(s) == [status |-> "verified", revision |-> revision, snapshot |-> s, fresh |-> TRUE]

\* A probe that got an answer, or none.
Probed == record' = Saved(Snapshot) /\ last' = Saved(Snapshot)

\* Mutant: the review takes evidence of any age.
AnyAge == record.status = "verified" /\ record.revision = revision

\* Verification.state: fresh evidence of the profile as it is now.
Fresh == record.status = "verified" /\ record.revision = revision /\ record.fresh

\* authorization_review
Eligible ==
  /\ Fresh
  /\ record.snapshot.identity /\ Permission(record.snapshot) /\ Flat(record.snapshot)
  /\ ledger # "unsettled"

--------------------------------------------------------------------------------
\* The broker, the operator's own trading there, and time

Trade ==
  /\ ~writing
  /\ \/ account' = [account EXCEPT !.held = ~@]
     \/ \E age \in {"today", "recent", "old"} :
          account' = [account EXCEPT !.working =
                        IF age \in @ THEN @ \ {age} ELSE @ \cup {age}]
     \/ account' = [account EXCEPT !.granted = ~@]
  /\ UNCHANGED <<provider, revision, ledger, authority, record, writing, last>>

\* Thirty seconds pass.
Age ==
  /\ record.fresh
  /\ record' = [record EXCEPT !.fresh = FALSE]
  /\ last' = [last EXCEPT !.fresh = FALSE]
  /\ UNCHANGED <<provider, account, revision, ledger, authority, writing>>

--------------------------------------------------------------------------------
\* The operator's child processes

\* connect raises, for verify, authorize and reconcile alike, or engine.verify's
\* snapshot does.
ProbeFails ==
  /\ ~writing
  /\ record' = Failed
  /\ last' = Empty("failed")
  /\ UNCHANGED <<provider, account, revision, ledger, authority, writing>>

\* engine.verify: an account without proof is still shown.
Verify ==
  /\ ~writing
  /\ Probed
  /\ UNCHANGED <<provider, account, revision, ledger, authority, writing>>

\* engine.authorize, up to the evidence it saves.
Authorize ==
  /\ ~writing
  /\ Gate(Snapshot) /\ ledger # "unsettled"
  /\ Probed
  /\ writing' = TRUE
  /\ UNCHANGED <<provider, account, revision, ledger, authority>>

Authorized ==
  /\ writing
  /\ authority' = [mode |-> "entries", revision |-> revision]
  /\ writing' = FALSE
  /\ UNCHANGED <<provider, account, revision, ledger, record, last>>

\* The child dies in between.
Die == writing /\ writing' = FALSE
         /\ UNCHANGED <<provider, account, revision, ledger, authority, record, last>>

Revoke ==
  /\ ~writing
  /\ authority' = [mode |-> IF ledger = "unsettled" THEN "close_only" ELSE "off",
                   revision |-> revision]
  /\ UNCHANGED <<provider, account, revision, ledger, record, writing, last>>

\* An armed account sends an order: engine.submit takes a snapshot of its own,
\* which it does not keep.
Submit ==
  /\ ~writing
  /\ authority.mode = "entries" /\ authority.revision = revision
  /\ ledger # "unsettled"
  /\ Gate(Snapshot)
  /\ ledger' = "unsettled"
  /\ UNCHANGED <<provider, account, revision, authority, record, writing, last>>

\* engine.reconcile: the rows were found, no order is at work and the positions
\* are those of the book, which is empty once the ledger is settled.
Reconcile ==
  /\ ~writing
  /\ Snapshot.identity /\ ~Snapshot.orders
  /\ ledger' \in (IF ledger = "unsettled" THEN {"unsettled", "settled"} ELSE {ledger})
  /\ ledger' # "unsettled" => ~Snapshot.held
  /\ Probed
  /\ authority' = IF authority.mode = "close_only" /\ ~Snapshot.held
                    THEN [mode |-> "off", revision |-> revision] ELSE authority
  /\ UNCHANGED <<provider, account, revision, writing>>

\* The research process looks its last order up: no snapshot is taken.
Settle ==
  /\ ~writing
  /\ ledger = "unsettled" /\ ledger' = "settled"
  /\ UNCHANGED <<provider, account, revision, authority, record, writing, last>>

\* Profiles.save of new credentials for the account: one that has traded must
\* have been seen flat in the last thirty seconds.
Rotate ==
  /\ ~writing
  /\ revision < MaxRevision
  /\ authority.mode = "off" /\ ledger # "unsettled"
  /\ ledger # "empty" => Fresh /\ record.snapshot.identity /\ Flat(record.snapshot)
  /\ revision' = revision + 1
  /\ authority' = [mode |-> "off", revision |-> revision']
  /\ UNCHANGED <<provider, account, ledger, record, writing, last>>

Next ==
  \/ Trade \/ Age
  \/ Verify \/ ProbeFails
  \/ Authorize \/ Authorized \/ Die \/ Revoke
  \/ Submit \/ Settle \/ Reconcile \/ Rotate

Spec == Init /\ [][Next]_vars

--------------------------------------------------------------------------------
\* Properties

\* The review calls an account eligible only on what the last recorded probe found
\* of it, with the credentials it has now and in the last thirty seconds, and
\* then authorize's own gates let that through.
EligibleIsCurrent ==
  Eligible => /\ last.status = "verified" /\ last.revision = revision /\ last.fresh
              /\ Gate(last.snapshot) /\ ledger # "unsettled"

\* No account is armed, or called eligible, by an adapter that cannot prove which
\* account it is or that it may trade; authority is for the credentials of now.
ArmedOnProof ==
  /\ authority.mode # "off" => authority.revision = revision
  /\ authority.mode = "entries" \/ writing \/ ledger # "empty" \/ Eligible =>
       provider \notin {"longport", "schwab"}

ReviewTruthful == EligibleIsCurrent /\ ArmedOnProof
================================================================================
