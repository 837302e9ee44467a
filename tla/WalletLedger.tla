----------------------------- MODULE WalletLedger -----------------------------
(***************************************************************************)
(* The wallet ledger: packages/payments/service.py (LedgerService) and the *)
(* reservations of packages/payments/economics.py (WalletHoldService).     *)
(*                                                                         *)
(* Every database session is one transaction at a time.  What it has       *)
(* flushed is in pend[s] and hpend[s] and is invisible to the others until *)
(* Commit(s); Rollback(s) is an exception that reaches the caller, a crash *)
(* of the process, or a deadlock victim.  A wallet row that pend[s] has    *)
(* locked is locked FOR UPDATE (or was inserted, or updated) by s.  A      *)
(* transaction may make several ledger calls, on one wallet or on several. *)
(* Amounts are whole cents.                                                *)
(***************************************************************************)
EXTENDS Integers, Sequences, FiniteSets

CONSTANTS
    Sessions,       \* concurrent database sessions
    Wallets,        \* (tenant, user, currency) wallet identities
    Holds,          \* hold idempotency keys
    Refs,           \* ids of payment intents, reversals, deposits and orders
    Amounts,        \* the amounts callers ask for
    MaxBalance,     \* the largest value of the Numeric(14, 2) balance column
    MaxEntries      \* bound: ledger rows of one wallet

ASSUME LedgerConstants ==
    /\ IsFiniteSet(Holds)
    /\ MaxBalance \in Nat
    /\ MaxEntries \in Nat
    /\ Amounts \subseteq 1 .. MaxBalance

VARIABLES
    wallet,         \* committed wallet rows
    ledger,         \* committed ledger rows of each wallet, in created_at order
    hold,           \* committed hold rows
    pend,           \* pend[s][w]: the wallet row and the new ledger rows of s
    hpend,          \* hpend[s][h]: the hold row that s has locked or inserted
    capturing       \* capturing[s]: the hold marked CAPTURED and not yet debited

vars == <<wallet, ledger, hold, pend, hpend, capturing>>

TransactionType == {"CREDIT", "DEBIT", "REFUND", "ADJUSTMENT"}

RefundTypes == {"ORDER_FULFILLMENT_REFUND", "PAYMENT_REFUND"}

ReferenceType == RefundTypes \cup
    {"OTHER", "PAYMENT_SETTLEMENT", "WALLET_TOPUP_REVERSAL",
     "FLEXIBLE_DEPOSIT_SETTLEMENT", "WALLET_HOLD_CAPTURE", "MANUAL_ADJUSTMENT"}

LedgerTransaction ==
    [transaction_type : TransactionType, amount : Nat,
     balance_before : Int, balance_after : Int,
     reference_type : ReferenceType, reference_id : Refs \cup Holds \cup {"NONE"}]

Wallet == [exists : BOOLEAN, balance : Int, is_active : BOOLEAN]

NoHold == [status |-> "NONE"]

WalletHold ==
    [status : {"ACTIVE", "CAPTURED", "RELEASED"}, wallet : Wallets, amount : Amounts]

PendingRow ==
    [locked : BOOLEAN, balance : Int, is_active : BOOLEAN, rows : Seq(LedgerTransaction)]

NotLocked == [locked |-> FALSE, balance |-> 0, is_active |-> TRUE, rows |-> <<>>]

NewWallet == [locked |-> TRUE, balance |-> 0, is_active |-> TRUE, rows |-> <<>>]

Init ==
    /\ wallet = [w \in Wallets |-> [exists |-> FALSE, balance |-> 0, is_active |-> TRUE]]
    /\ ledger = [w \in Wallets |-> <<>>]
    /\ hold = [h \in Holds |-> NoHold]
    /\ pend = [s \in Sessions |-> [w \in Wallets |-> NotLocked]]
    /\ hpend = [s \in Sessions |-> [h \in Holds |-> NoHold]]
    /\ capturing = [s \in Sessions |-> {}]

-----------------------------------------------------------------------------
(***************************************************************************)
(* What a session sees: its own flushed rows over the committed ones.      *)
(***************************************************************************)

\* The row s works on once it holds the lock.  populate_existing makes the first
\* lock of a transaction read the committed balance.
Locked(s, w) ==
    IF pend[s][w].locked
    THEN pend[s][w]
    ELSE [locked |-> TRUE, balance |-> wallet[w].balance,
          is_active |-> wallet[w].is_active, rows |-> <<>>]

HoldView(s, h) == IF hpend[s][h] = NoHold THEN hold[h] ELSE hpend[s][h]

\* The cents that the ACTIVE holds of v reserve on w; their number is the SQL sum.
HeldUnits(v, w) ==
    {u \in Holds \X (1 .. MaxBalance) :
        /\ v[u[1]].status = "ACTIVE"
        /\ v[u[1]].wallet = w
        /\ u[2] <= v[u[1]].amount}

active_total(s, w) ==
    Cardinality(HeldUnits([h \in Holds |-> HoldView(s, h)], w))

lock_wallet_stale(s, w) == wallet[w].exists \/ pend[s][w].locked

\* SELECT ... FOR UPDATE waits until no other session has the row.
lock_wallet(s, w) ==
    /\ wallet[w].exists \/ pend[s][w].locked
    /\ \A t \in Sessions \ {s} : ~pend[t][w].locked

Matches(e, ty, rt, rid) ==
    /\ e.transaction_type = ty
    /\ e.reference_type = rt
    /\ e.reference_id = rid

Existing(s, w, ty, rt, rid) ==
    \/ \E i \in DOMAIN ledger[w] : Matches(ledger[w][i], ty, rt, rid)
    \/ \E i \in DOMAIN Locked(s, w).rows : Matches(Locked(s, w).rows[i], ty, rt, rid)

-----------------------------------------------------------------------------
(***************************************************************************)
(* Steps that the ledger calls share.                                      *)
(***************************************************************************)

\* Write the new balance and flush the ledger row.
Post(s, w, ty, amt, after, rt, rid) ==
    LET row == Locked(s, w)
        entry == [transaction_type |-> ty, amount |-> amt,
                  balance_before |-> row.balance, balance_after |-> after,
                  reference_type |-> rt, reference_id |-> rid]
    IN /\ after <= MaxBalance
       /\ Len(ledger[w]) + Len(row.rows) < MaxEntries
       /\ pend' = [pend EXCEPT ![s][w] =
                      [row EXCEPT !.balance = after, !.rows = Append(row.rows, entry)]]

\* The call returns an existing row or raises: only the row lock stays.
KeepLock(s, w) == pend' = [pend EXCEPT ![s][w] = Locked(s, w)]

hvars == <<hold, hpend, capturing>>

-----------------------------------------------------------------------------
(***************************************************************************)
(* LedgerService.                                                          *)
(***************************************************************************)

\* The loser of two concurrent INSERTs waits for the winner, then reads its row.
get_or_create_wallet(s, w) ==
    /\ ~wallet[w].exists
    /\ \A t \in Sessions : ~pend[t][w].locked
    /\ pend' = [pend EXCEPT ![s][w] = NewWallet]
    /\ UNCHANGED <<wallet, ledger, hvars>>

credit(s, w, amt) ==
    /\ lock_wallet(s, w)
    /\ Post(s, w, "CREDIT", amt, Locked(s, w).balance + amt, "OTHER", "NONE")
    /\ UNCHANGED <<wallet, ledger, hvars>>

settle_payment_blind(s, w, amt, r) ==
    /\ lock_wallet(s, w)
    /\ Post(s, w, "CREDIT", amt, Locked(s, w).balance + amt, "PAYMENT_SETTLEMENT", r)
    /\ UNCHANGED <<wallet, ledger, hvars>>

settle_payment(s, w, amt, r) ==
    /\ lock_wallet(s, w)
    /\ IF Existing(s, w, "CREDIT", "PAYMENT_SETTLEMENT", r)
       THEN KeepLock(s, w)
       ELSE Post(s, w, "CREDIT", amt, Locked(s, w).balance + amt, "PAYMENT_SETTLEMENT", r)
    /\ UNCHANGED <<wallet, ledger, hvars>>

reserve_topup_reversal_unfunded(s, w, amt, r) ==
    /\ lock_wallet(s, w)
    /\ IF Existing(s, w, "DEBIT", "WALLET_TOPUP_REVERSAL", r)
       THEN KeepLock(s, w)
       ELSE Post(s, w, "DEBIT", amt, Locked(s, w).balance - amt, "WALLET_TOPUP_REVERSAL", r)
    /\ UNCHANGED <<wallet, ledger, hvars>>

\* Neither is_active nor the active holds stop a reversal.
reserve_topup_reversal(s, w, amt, r) ==
    /\ lock_wallet(s, w)
    /\ IF \/ Existing(s, w, "DEBIT", "WALLET_TOPUP_REVERSAL", r)
          \/ Locked(s, w).balance < amt
       THEN KeepLock(s, w)
       ELSE Post(s, w, "DEBIT", amt, Locked(s, w).balance - amt, "WALLET_TOPUP_REVERSAL", r)
    /\ UNCHANGED <<wallet, ledger, hvars>>

settle_flexible_deposit(s, w, amt, r) ==
    /\ lock_wallet(s, w)
    /\ IF Existing(s, w, "CREDIT", "FLEXIBLE_DEPOSIT_SETTLEMENT", r)
       THEN KeepLock(s, w)
       ELSE Post(s, w, "CREDIT", amt, Locked(s, w).balance + amt,
                 "FLEXIBLE_DEPOSIT_SETTLEMENT", r)
    /\ UNCHANGED <<wallet, ledger, hvars>>

Spendable_held(s, w, amt) ==
    /\ Locked(s, w).is_active
    /\ Locked(s, w).balance >= amt

\* Spendable: the wallet is active and the balance less the active holds covers amt.
Spendable(s, w, amt) ==
    /\ Locked(s, w).is_active
    /\ Locked(s, w).balance - active_total(s, w) >= amt

debit(s, w, amt) ==
    /\ lock_wallet(s, w)
    /\ IF Spendable(s, w, amt)
       THEN Post(s, w, "DEBIT", amt, Locked(s, w).balance - amt, "OTHER", "NONE")
       ELSE KeepLock(s, w)
    /\ UNCHANGED <<wallet, ledger, hvars>>

\* A refund without a reference is not looked up, and never idempotent.
refund(s, w, amt, rt, rid) ==
    /\ lock_wallet(s, w)
    /\ IF rid # "NONE" /\ Existing(s, w, "REFUND", rt, rid)
       THEN KeepLock(s, w)
       ELSE Post(s, w, "REFUND", amt, Locked(s, w).balance + amt, rt, rid)
    /\ UNCHANGED <<wallet, ledger, hvars>>

adjust_signed(s, w, target) ==
    /\ lock_wallet(s, w)
    /\ Post(s, w, "ADJUSTMENT", target - Locked(s, w).balance, target,
            "MANUAL_ADJUSTMENT", "NONE")
    /\ UNCHANGED <<wallet, ledger, hvars>>

adjust(s, w, target) ==
    LET before == Locked(s, w).balance
        diff == IF target >= before THEN target - before ELSE before - target
    IN /\ lock_wallet(s, w)
       /\ Post(s, w, "ADJUSTMENT", diff, target, "MANUAL_ADJUSTMENT", "NONE")
       /\ UNCHANGED <<wallet, ledger, hvars>>

\* Freezing and unfreezing write one column; the UPDATE waits for the row lock.
set_is_active(s, w, b) ==
    /\ lock_wallet(s, w)
    /\ pend' = [pend EXCEPT ![s][w] = [Locked(s, w) EXCEPT !.is_active = b]]
    /\ UNCHANGED <<wallet, ledger, hvars>>

-----------------------------------------------------------------------------
(***************************************************************************)
(* WalletHoldService.                                                      *)
(***************************************************************************)

reserve(s, w, h, amt) ==
    /\ lock_wallet(s, w)
    /\ \/ /\ HoldView(s, h) # NoHold
          /\ hpend' = hpend
       \/ /\ HoldView(s, h) = NoHold
          /\ Locked(s, w).balance - active_total(s, w) < amt
          /\ hpend' = hpend
       \/ /\ HoldView(s, h) = NoHold
          /\ \A t \in Sessions : hpend[t][h] = NoHold
          /\ Locked(s, w).balance - active_total(s, w) >= amt
          /\ hpend' = [hpend EXCEPT ![s][h] =
                          [status |-> "ACTIVE", wallet |-> w, amount |-> amt]]
    /\ KeepLock(s, w)
    /\ UNCHANGED <<wallet, ledger, hold, capturing>>

lock_hold_stale(s, h) == HoldView(s, h) # NoHold

\* SELECT ... FOR UPDATE on the hold row.
lock_hold(s, h) ==
    /\ HoldView(s, h) # NoHold
    /\ \A t \in Sessions \ {s} : hpend[t][h] = NoHold

\* capture, up to the flush of status CAPTURED.
capture_mark(s, h) ==
    /\ lock_hold(s, h)
    /\ IF HoldView(s, h).status = "ACTIVE"
       THEN /\ hpend' = [hpend EXCEPT ![s][h] = [HoldView(s, h) EXCEPT !.status = "CAPTURED"]]
            /\ capturing' = [capturing EXCEPT ![s] = {h}]
       ELSE /\ hpend' = [hpend EXCEPT ![s][h] = HoldView(s, h)]
            /\ UNCHANGED capturing
    /\ UNCHANGED <<wallet, ledger, hold, pend>>

\* The debit that ends capture.  When it raises, the transaction is rolled back.
capture_debit(s, h) ==
    LET w == hpend[s][h].wallet
        amt == hpend[s][h].amount
    IN /\ h \in capturing[s]
       /\ lock_wallet(s, w)
       /\ Spendable(s, w, amt)
       /\ Post(s, w, "DEBIT", amt, Locked(s, w).balance - amt, "WALLET_HOLD_CAPTURE", h)
       /\ capturing' = [capturing EXCEPT ![s] = {}]
       /\ UNCHANGED <<wallet, ledger, hold, hpend>>

release(s, h) ==
    /\ lock_hold(s, h)
    /\ hpend' = [hpend EXCEPT ![s][h] =
                    IF HoldView(s, h).status = "ACTIVE"
                    THEN [HoldView(s, h) EXCEPT !.status = "RELEASED"]
                    ELSE HoldView(s, h)]
    /\ UNCHANGED <<wallet, ledger, hold, pend, capturing>>

-----------------------------------------------------------------------------
(***************************************************************************)
(* The end of a transaction.                                               *)
(***************************************************************************)

Ended(s) ==
    /\ pend' = [pend EXCEPT ![s] = [w \in Wallets |-> NotLocked]]
    /\ hpend' = [hpend EXCEPT ![s] = [h \in Holds |-> NoHold]]
    /\ capturing' = [capturing EXCEPT ![s] = {}]

Commit_half_captured(s) ==
    /\ wallet' = [w \in Wallets |->
                    IF pend[s][w].locked
                    THEN [exists |-> TRUE, balance |-> pend[s][w].balance,
                          is_active |-> pend[s][w].is_active]
                    ELSE wallet[w]]
    /\ ledger' = [w \in Wallets |-> ledger[w] \o pend[s][w].rows]
    /\ hold' = [h \in Holds |-> HoldView(s, h)]
    /\ Ended(s)

Commit(s) ==
    /\ capturing[s] = {}
    /\ wallet' = [w \in Wallets |->
                    IF pend[s][w].locked
                    THEN [exists |-> TRUE, balance |-> pend[s][w].balance,
                          is_active |-> pend[s][w].is_active]
                    ELSE wallet[w]]
    /\ ledger' = [w \in Wallets |-> ledger[w] \o pend[s][w].rows]
    /\ hold' = [h \in Holds |-> HoldView(s, h)]
    /\ Ended(s)

Rollback(s) ==
    /\ Ended(s)
    /\ UNCHANGED <<wallet, ledger, hold>>

LedgerCall(s, w) ==
    \/ get_or_create_wallet(s, w)
    \/ \E amt \in Amounts : credit(s, w, amt)
    \/ \E amt \in Amounts, r \in Refs : settle_payment(s, w, amt, r)
    \/ \E amt \in Amounts, r \in Refs : reserve_topup_reversal(s, w, amt, r)
    \/ \E amt \in Amounts, r \in Refs : settle_flexible_deposit(s, w, amt, r)
    \/ \E amt \in Amounts : debit(s, w, amt)
    \/ \E amt \in Amounts, rt \in RefundTypes, rid \in Refs \cup {"NONE"} :
          refund(s, w, amt, rt, rid)
    \/ \E target \in Amounts \cup {0} : adjust(s, w, target)
    \/ \E b \in BOOLEAN : set_is_active(s, w, b)
    \/ \E h \in Holds, amt \in Amounts : reserve(s, w, h, amt)

\* A session between the two halves of capture does nothing else.
Step(s) ==
    \/ capturing[s] = {} /\ \E w \in Wallets : LedgerCall(s, w)
    \/ capturing[s] = {} /\ \E h \in Holds : capture_mark(s, h)
    \/ capturing[s] = {} /\ \E h \in Holds : release(s, h)
    \/ \E h \in Holds : capture_debit(s, h)
    \/ Commit(s)
    \/ Rollback(s)

Next == \E s \in Sessions : Step(s)

Spec == Init /\ [][Next]_vars

-----------------------------------------------------------------------------
(***************************************************************************)
(* Properties.                                                             *)
(***************************************************************************)

\* The types of the rows, committed and pending.
TypeOK ==
    /\ wallet \in [Wallets -> Wallet]
    /\ ledger \in [Wallets -> Seq(LedgerTransaction)]
    /\ hold \in [Holds -> WalletHold \cup {NoHold}]
    /\ pend \in [Sessions -> [Wallets -> PendingRow]]
    /\ hpend \in [Sessions -> [Holds -> WalletHold \cup {NoHold}]]
    /\ capturing \in [Sessions -> SUBSET Holds]

\* The balance after ledger row e, from the balance before it.
Applied(e, before) ==
    CASE e.transaction_type \in {"CREDIT", "REFUND"} -> before + e.amount
      [] e.transaction_type = "DEBIT" -> before - e.amount
      [] OTHER -> e.balance_after

reconstruct(l) ==
    LET reconstructed[i \in 0 .. Len(l)] ==
            IF i = 0 THEN 0 ELSE Applied(l[i], reconstructed[i - 1])
    IN reconstructed[Len(l)]

\* reconstruct_and_verify_balance never raises: replaying the committed ledger rows
\* gives the stored balance, whatever sessions interleave, roll back or crash.
BalanceReconstructs == \A w \in Wallets : reconstruct(ledger[w]) = wallet[w].balance

\* The balance before row i of l.
BalanceBefore(l, i) == IF i = 1 THEN 0 ELSE l[i - 1].balance_after

Chained(l) ==
    \A i \in DOMAIN l :
        /\ l[i].balance_before = BalanceBefore(l, i)
        /\ l[i].balance_after = Applied(l[i], l[i].balance_before)

LastBalance(l) == IF l = <<>> THEN 0 ELSE l[Len(l)].balance_after

\* The committed rows of a wallet are one unbroken chain from 0 to the stored balance:
\* no row was computed from a balance that another session had already replaced.
LedgerIsChain ==
    \A w \in Wallets : Chained(ledger[w]) /\ LastBalance(ledger[w]) = wallet[w].balance

\* No committed balance is negative: two sessions never spend the same funds.
NoOverdraft == \A w \in Wallets : wallet[w].balance >= 0

\* The rows that the partial unique indexes of ledger_transactions cover.
Indexed(e) ==
    /\ e.reference_id # "NONE"
    /\ \/ e.transaction_type = "REFUND"
       \/ e.transaction_type = "CREDIT"
          /\ e.reference_type \in {"PAYMENT_SETTLEMENT", "FLEXIBLE_DEPOSIT_SETTLEMENT"}
       \/ e.transaction_type = "DEBIT"
          /\ e.reference_type \in {"WALLET_TOPUP_REVERSAL", "WALLET_HOLD_CAPTURE"}

Distinct(l) ==
    \A i, j \in DOMAIN l :
        /\ Indexed(l[i])
        /\ Matches(l[i], l[j].transaction_type, l[j].reference_type, l[j].reference_id)
        => i = j

\* A payment intent, reversal, deposit, refund or hold is posted at most once per
\* wallet, and the lookup under the row lock decides it: the rows that any session is
\* about to commit never hit a unique index of ledger_transactions.
PostedAtMostOnce ==
    \A w \in Wallets, s \in Sessions : Distinct(ledger[w] \o pend[s][w].rows)

CaptureRows(l, h) ==
    {i \in DOMAIN l : Matches(l[i], "DEBIT", "WALLET_HOLD_CAPTURE", h)}

\* A hold is CAPTURED exactly when its wallet has the one debit of its amount, and no
\* other wallet has one: "Captured hold is missing its ledger debit" is never raised.
CapturedIffDebited ==
    \A h \in Holds, w \in Wallets :
        LET rows == CaptureRows(ledger[w], h)
        IN IF hold[h].status = "CAPTURED" /\ hold[h].wallet = w
           THEN \E i \in rows : rows = {i} /\ ledger[w][i].amount = hold[h].amount
           ELSE rows = {}

\* A hold ends once: after CAPTURED or RELEASED is committed, no later transaction
\* changes the row, and none ever changes its wallet or its amount.
HoldEndsOnce ==
    [][\A h \in Holds : hold[h] # NoHold =>
          /\ hold[h].status # "ACTIVE" => hold'[h] = hold[h]
          /\ hold'[h] # NoHold
          /\ hold'[h].wallet = hold[h].wallet
          /\ hold'[h].amount = hold[h].amount]_vars

\* No call that ignores the holds has changed the wallet.
HoldAware(l) ==
    \A i \in DOMAIN l :
        l[i].reference_type \notin {"WALLET_TOPUP_REVERSAL", "MANUAL_ADJUSTMENT"}

\* The funds of the active holds are in the wallet as long as no top-up reversal and no
\* manual adjustment took from it: concurrent reserve, debit, capture and release never
\* promise the same cent twice.
HoldsStayFunded ==
    \A w \in Wallets :
        HoldAware(ledger[w]) => Cardinality(HeldUnits(hold, w)) <= wallet[w].balance

\* docs/architecture/commerce-economics.md: a hold "reserves spendable fiat balance",
\* so the funds of every active hold are in the wallet.
ActiveHoldsFunded ==
    \A w \in Wallets : Cardinality(HeldUnits(hold, w)) <= wallet[w].balance
=============================================================================
