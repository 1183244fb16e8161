--------------------------- MODULE AccountService ---------------------------
(***************************************************************************)
(* The Account Service: its SQLite table of applied transactions and the   *)
(* handler of POST /accounts/{account_id}/transactions                     *)
(* (src/src/account_service/main.py, src/src/account_service/db.py).       *)
(*                                                                         *)
(* The route is an `async def' without an await, so the service's event    *)
(* loop runs one handler to its end before the next: a request is one      *)
(* step.  Committed rows survive a restart of the process.                 *)
(***************************************************************************)
EXTENDS EventContract, SequencesExt

VARIABLE transactions   \* rows of the table, in insertion order

accountVars == <<transactions>>

AccountInit == transactions = << >>

-----------------------------------------------------------------------------
(* Queries of AccountRepository.                                           *)

\* The rows `SELECT ... WHERE event_id = ?' matches.
GetTransaction(id) == {t \in ToSet(transactions) : t.eventId = id}

AccountRows(a) == {t \in ToSet(transactions) : t.accountId = a}

\* Mutant: the currency of the account is never looked up.
MutCurrencyAllows(p) == TRUE

\* `SELECT currency ... LIMIT 1' has no ORDER BY: any row of the account.
AccountCurrencyAllows(p) ==
    \/ AccountRows(p.accountId) = {}
    \/ \E t \in AccountRows(p.accountId) : t.currency = p.currency

AccountCurrencyForbids(p) ==
    \E t \in AccountRows(p.accountId) : t.currency # p.currency

\* Mutant: the sign of a debit is forgotten.
MutBalance(a) ==
    LET Add(t, n) == IF t.accountId = a THEN n + t.amount ELSE n
    IN  FoldRight(Add, transactions, 0)

\* get_balance: credits add, everything else subtracts, over all the rows.
Balance(a) ==
    LET Signed(t)  == IF t.type = "CREDIT" THEN t.amount ELSE 0 - t.amount
        Add(t, n)  == IF t.accountId = a THEN Signed(t) + n ELSE n
    IN  FoldRight(Add, transactions, 0)

-----------------------------------------------------------------------------
(* The handler: one disjunct per way it can answer a payload p posted to   *)
(* the account id `path' of the URL.                                       *)

\* The body fails EventPayload validation before the handler is entered.
Unprocessable(path, p, status) ==
    /\ ~Valid(p)
    /\ status = "422"
    /\ UNCHANGED transactions

PathMismatch(path, p, status) ==
    /\ Valid(p)
    /\ p.accountId # path
    /\ status = "400"
    /\ UNCHANGED transactions

\* What every outcome of AccountRepository.apply_transaction presupposes.
Reached(path, p) == Valid(p) /\ p.accountId = path

\* Mutant: a duplicate is refused instead of replayed.
MutReplayTransaction(path, p, status) ==
    /\ Reached(path, p)
    /\ status = "409"
    /\ \E t \in GetTransaction(p.eventId) : SameEvent(t, p)
    /\ UNCHANGED transactions

ReplayTransaction(path, p, status) ==
    /\ Reached(path, p)
    /\ status = "200"
    /\ \E t \in GetTransaction(p.eventId) : SameEvent(t, p)
    /\ UNCHANGED transactions

DuplicateConflict(path, p, status) ==
    /\ Reached(path, p)
    /\ status = "409"
    /\ \E t \in GetTransaction(p.eventId) : ~SameEvent(t, p)
    /\ UNCHANGED transactions

CurrencyMismatch(path, p, status) ==
    /\ Reached(path, p)
    /\ status = "409"
    /\ GetTransaction(p.eventId) = {}
    /\ AccountCurrencyForbids(p)
    /\ UNCHANGED transactions

\* Mutant: no lookup of the event id, and no primary key behind it.
MutInsertTransaction(path, p, status) ==
    /\ Reached(path, p)
    /\ status = "201"
    /\ AccountCurrencyAllows(p)
    /\ transactions' = Append(transactions, p)

InsertTransaction(path, p, status) ==
    /\ Reached(path, p)
    /\ status = "201"
    /\ GetTransaction(p.eventId) = {}
    /\ AccountCurrencyAllows(p)
    /\ transactions' = Append(transactions, p)

\* SQLite raises while the handler runs: the INSERT is rolled back, or it has
\* been committed and only the read back of the row fails.
StorageFault(path, p, status) ==
    /\ Reached(path, p)
    /\ status = "500"
    /\ \/ UNCHANGED transactions
       \/ InsertTransaction(path, p, "201")

ApplyTransaction(path, p, status) ==
    \/ Unprocessable(path, p, status)
    \/ PathMismatch(path, p, status)
    \/ ReplayTransaction(path, p, status)
    \/ DuplicateConflict(path, p, status)
    \/ CurrencyMismatch(path, p, status)
    \/ InsertTransaction(path, p, status)

AccountStatus == {"200", "201", "400", "409", "422", "500"}

AccountNext ==
    \E path \in AccountId, p \in WirePayload, status \in AccountStatus :
        \/ ApplyTransaction(path, p, status)
        \/ StorageFault(path, p, status)

AccountSpec == AccountInit /\ [][AccountNext]_accountVars

-----------------------------------------------------------------------------
(* Properties.                                                             *)

\* Every row of the table is a well-formed, valid payload.
AccountTypeOK ==
    transactions \in Seq({p \in WirePayload : Valid(p)})

\* apply_transaction applies an eventId exactly once: the lookup under the
\* lock is enough, so the INSERT never meets the PRIMARY KEY (whose
\* IntegrityError nobody catches).
EventAppliedOnce ==
    \A i, j \in DOMAIN transactions :
        transactions[i].eventId = transactions[j].eventId => i = j

\* ADR 007: one account never holds rows in two currencies, so get_balance
\* never adds incompatible units whichever row its LIMIT 1 lookup returned.
SingleCurrency ==
    \A t, u \in ToSet(transactions) :
        t.accountId = u.accountId => t.currency = u.currency

\* The balance is credits minus debits of the distinct events applied to the
\* account, whatever was retried, replayed, refused or half failed.
BalanceIsNetOfEvents ==
    \A a \in AccountId :
        LET Total(k) == LET rows == {t \in AccountRows(a) : t.type = k}
                            ids  == {t.eventId : t \in rows}
                            Of(id) == (CHOOSE t \in rows : t.eventId = id).amount
                        IN  MapThenSumSet(Of, ids)
        IN  Balance(a) = Total("CREDIT") - Total("DEBIT")
=============================================================================
