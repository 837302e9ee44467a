-------------------------- MODULE WalletLedgerProofs --------------------------
(***************************************************************************)
(* Proofs about WalletLedger.                                              *)
(*                                                                         *)
(* StepShapes reduces the fourteen operations to eight shapes of step; the *)
(* invariants are then proved one layer at a time, each from the earlier   *)
(* ones: types, locks, the ledger chain, and in WalletHoldProofs the       *)
(* captures, the unique rows and the held funds.                           *)
(***************************************************************************)
EXTENDS WalletLedger, FiniteSetTheorems, SequenceTheorems, TLAPS

-----------------------------------------------------------------------------
(***************************************************************************)
(* The shapes of a step of session s.                                      *)
(***************************************************************************)

\* s holds the lock of w and has changed neither the balance nor the ledger.
Held(s, w) ==
    /\ \E row \in PendingRow :
          /\ row.locked
          /\ row.balance = Locked(s, w).balance
          /\ row.rows = Locked(s, w).rows
          /\ pend' = [pend EXCEPT ![s][w] = row]
    /\ lock_wallet(s, w)
    /\ UNCHANGED <<wallet, ledger, hold>>

\* s inserts the wallet row.
Created(s, w) ==
    /\ ~wallet[w].exists
    /\ \A t \in Sessions : ~pend[t][w].locked
    /\ pend' = [pend EXCEPT ![s][w] = NewWallet]
    /\ UNCHANGED <<wallet, ledger, hvars>>

\* s writes ledger row e of w.
Posted(s, w, e) ==
    /\ lock_wallet(s, w)
    /\ e.balance_before = Locked(s, w).balance
    /\ e.balance_after = Applied(e, e.balance_before)
    /\ pend' = [pend EXCEPT ![s][w] =
                  [Locked(s, w) EXCEPT !.balance = e.balance_after,
                                       !.rows = Append(Locked(s, w).rows, e)]]
    /\ UNCHANGED <<wallet, ledger, hold, hpend>>

\* What the guards say of the row a ledger call other than capture posts.
Guarded(s, w, e) ==
    /\ e.reference_type # "WALLET_HOLD_CAPTURE"
    /\ Indexed(e) => ~Existing(s, w, e.transaction_type, e.reference_type, e.reference_id)
    /\ \/ e.transaction_type \in {"CREDIT", "REFUND"}
       \/ e.reference_type = "MANUAL_ADJUSTMENT" /\ e.balance_after >= 0
       \/ e.reference_type = "WALLET_TOPUP_REVERSAL" /\ e.balance_after >= 0
       \/ e.transaction_type = "DEBIT" /\ e.balance_after >= active_total(s, w)

\* s locks h, and may end it.
HoldLocked(s, h) ==
    /\ lock_hold(s, h)
    /\ \E st \in {"CAPTURED", "RELEASED"} :
          /\ HoldView(s, h).status \in {"ACTIVE", st}
          /\ hpend' = [hpend EXCEPT ![s][h] = [HoldView(s, h) EXCEPT !.status = st]]
          /\ capturing' = [capturing EXCEPT ![s] =
                             IF st = "CAPTURED" /\ HoldView(s, h).status = "ACTIVE"
                             THEN {h} ELSE capturing[s]]
    /\ UNCHANGED <<wallet, ledger, hold, pend>>

\* s inserts hold h.
Inserted(s, w, h, amt) ==
    /\ HoldView(s, h) = NoHold
    /\ \A t \in Sessions : hpend[t][h] = NoHold
    /\ Locked(s, w).balance - active_total(s, w) >= amt
    /\ hpend' = [hpend EXCEPT ![s][h] = [status |-> "ACTIVE", wallet |-> w, amount |-> amt]]
    /\ UNCHANGED capturing

\* Every ledger call has one of three shapes.
CallShape(s, w) ==
    \/ Held(s, w) /\ UNCHANGED <<hpend, capturing>>
    \/ Created(s, w)
    \/ \E e \in LedgerTransaction :
          Posted(s, w, e) /\ Guarded(s, w, e) /\ UNCHANGED capturing
    \/ \E h \in Holds, amt \in Amounts : Held(s, w) /\ Inserted(s, w, h, amt)

\* s posts the debit that ends its capture of h.
Captured(s, h, w, e) ==
    /\ h \in capturing[s]
    /\ hpend[s][h].wallet = w
    /\ hpend[s][h].amount = e.amount
    /\ Posted(s, w, e)
    /\ Matches(e, "DEBIT", "WALLET_HOLD_CAPTURE", h)
    /\ e.balance_after >= active_total(s, w)
    /\ capturing' = [capturing EXCEPT ![s] = {}]

StepShape(s) ==
    \/ \E w \in Wallets : capturing[s] = {} /\ CallShape(s, w)
    \/ \E h \in Holds : capturing[s] = {} /\ HoldLocked(s, h)
    \/ \E h \in Holds, w \in Wallets, e \in LedgerTransaction : Captured(s, h, w, e)
    \/ Commit(s)
    \/ Rollback(s)

\* A session that captures has marked exactly that hold.
CapturingMarked ==
    \A s \in Sessions, h \in Holds : h \in capturing[s] =>
        /\ capturing[s] = {h}
        /\ hpend[s][h] # NoHold
        /\ hpend[s][h].status = "CAPTURED"

TypeInv == TypeOK /\ CapturingMarked

-----------------------------------------------------------------------------

\* The row a session works on is a wallet row with its ledger rows.
LEMMA LockedType ==
    ASSUME TypeOK, NEW s \in Sessions, NEW w \in Wallets
    PROVE  /\ Locked(s, w) \in PendingRow
           /\ Locked(s, w).locked
  <1>1. CASE pend[s][w].locked
    BY <1>1 DEF TypeOK, Locked
  <1>2. CASE ~pend[s][w].locked
    <2>1. <<>> \in Seq(LedgerTransaction)
      OBVIOUS
    <2>. QED
      BY <1>2, <2>1 DEF TypeOK, Locked, PendingRow, Wallet
  <1>. QED
    BY <1>1, <1>2

\* The hold a session sees is a hold row or none.
LEMMA HoldViewType ==
    ASSUME TypeOK, NEW s \in Sessions, NEW h \in Holds
    PROVE  HoldView(s, h) \in WalletHold \cup {NoHold}
  BY DEF TypeOK, HoldView

\* Callers ask for positive amounts.
LEMMA AmountsPositive == \A amt \in Amounts : amt \in Nat /\ amt > 0 /\ amt <= MaxBalance
  BY LedgerConstants

\* The sum of the active holds is a natural number.
LEMMA HeldUnitsFinite ==
    ASSUME NEW v, NEW w
    PROVE  /\ IsFiniteSet(HeldUnits(v, w))
           /\ Cardinality(HeldUnits(v, w)) \in Nat
  <1>1. IsFiniteSet(Holds \X (1 .. MaxBalance))
    <2>1. IsFiniteSet(Holds) /\ MaxBalance \in Int /\ 1 \in Int
      BY LedgerConstants
    <2>2. IsFiniteSet(1 .. MaxBalance)
      BY <2>1, FS_Interval
    <2>. QED
      BY <2>1, <2>2, FS_Product
  <1>2. HeldUnits(v, w) \in SUBSET (Holds \X (1 .. MaxBalance))
    BY DEF HeldUnits
  <1>3. IsFiniteSet(HeldUnits(v, w))
    BY <1>1, <1>2, FS_Subset
  <1>. QED
    BY <1>3, FS_CardinalityType

\* Post with a good row is the shape Posted.
LEMMA PostShape ==
    ASSUME TypeOK, NEW s \in Sessions, NEW w \in Wallets,
           NEW ty \in TransactionType, NEW amt \in Nat, NEW after \in Int,
           NEW rt \in ReferenceType, NEW rid \in Refs \cup Holds \cup {"NONE"},
           lock_wallet(s, w), Post(s, w, ty, amt, after, rt, rid),
           ty \in {"CREDIT", "REFUND"} => after = Locked(s, w).balance + amt,
           ty = "DEBIT" => after = Locked(s, w).balance - amt,
           UNCHANGED <<wallet, ledger, hold, hpend>>
    PROVE  \E e \in LedgerTransaction :
              /\ Posted(s, w, e)
              /\ e.transaction_type = ty
              /\ e.amount = amt
              /\ e.balance_after = after
              /\ e.reference_type = rt
              /\ e.reference_id = rid
  <1>. DEFINE row == Locked(s, w)
              e == [transaction_type |-> ty, amount |-> amt,
                    balance_before |-> row.balance, balance_after |-> after,
                    reference_type |-> rt, reference_id |-> rid]
  <1>1. row \in PendingRow
    BY LockedType
  <1>2. row.balance \in Int
    BY <1>1 DEF PendingRow
  <1>. HIDE DEF row
  <1>3. e \in LedgerTransaction
    BY <1>2 DEF LedgerTransaction
  <1>4. e.balance_after = Applied(e, e.balance_before)
    BY <1>2 DEF Applied, TransactionType, row
  <1>5. Posted(s, w, e)
    BY <1>4 DEF Posted, Post, row
  <1>. QED
    BY <1>3, <1>5

\* Keeping the lock is the shape Held.
LEMMA KeepLockShape ==
    ASSUME TypeOK, NEW s \in Sessions, NEW w \in Wallets,
           lock_wallet(s, w), KeepLock(s, w), UNCHANGED <<wallet, ledger, hold>>
    PROVE  Held(s, w)
  BY LockedType DEF Held, KeepLock

\* Each ledger call has one of the shapes of CallShape.
LEMMA LedgerCallShape ==
    ASSUME TypeOK, NEW s \in Sessions, NEW w \in Wallets, LedgerCall(s, w)
    PROVE  CallShape(s, w)
  <1>. DEFINE bal == Locked(s, w).balance
  <1>0. /\ bal \in Int
        /\ active_total(s, w) \in Nat
        /\ \A amt \in Amounts : amt \in Nat
    BY LockedType, HeldUnitsFinite, LedgerConstants DEF PendingRow, active_total
  <1>t. /\ {"CREDIT", "DEBIT", "REFUND", "ADJUSTMENT"} \subseteq TransactionType
        /\ RefundTypes \subseteq ReferenceType
        /\ {"OTHER", "PAYMENT_SETTLEMENT", "WALLET_TOPUP_REVERSAL",
            "FLEXIBLE_DEPOSIT_SETTLEMENT", "MANUAL_ADJUSTMENT"} \subseteq ReferenceType
    BY DEF TransactionType, ReferenceType
  <1>1. CASE get_or_create_wallet(s, w)
    BY <1>1 DEF get_or_create_wallet, CallShape, Created
  <1>2. ASSUME NEW amt \in Amounts, credit(s, w, amt)
        PROVE  CallShape(s, w)
    <2>5. /\ lock_wallet(s, w)
           /\ Post(s, w, "CREDIT", amt, bal + amt, "OTHER", "NONE")
           /\ UNCHANGED <<wallet, ledger, hold, hpend>>
      BY <1>2 DEF credit, hvars
    <2>. PICK e \in LedgerTransaction :
            /\ Posted(s, w, e)
            /\ e.transaction_type = "CREDIT"
            /\ e.reference_type = "OTHER"
      BY <1>0, <2>5, <1>t, PostShape
    <2>. QED
      BY <1>2 DEF CallShape, Guarded, Indexed, credit, hvars
  <1>3. ASSUME NEW amt \in Amounts, NEW r \in Refs, settle_payment(s, w, amt, r)
        PROVE  CallShape(s, w)
    <2>1. CASE Existing(s, w, "CREDIT", "PAYMENT_SETTLEMENT", r)
      BY <1>3, <2>1, KeepLockShape DEF settle_payment, hvars, CallShape
    <2>2. CASE ~Existing(s, w, "CREDIT", "PAYMENT_SETTLEMENT", r)
      <3>5. /\ lock_wallet(s, w)
             /\ Post(s, w, "CREDIT", amt, bal + amt, "PAYMENT_SETTLEMENT", r)
             /\ UNCHANGED <<wallet, ledger, hold, hpend>>
        BY <1>3, <2>2 DEF settle_payment, hvars
      <3>. PICK e \in LedgerTransaction :
            /\ Posted(s, w, e)
            /\ e.transaction_type = "CREDIT"
            /\ e.reference_type = "PAYMENT_SETTLEMENT"
            /\ e.reference_id = r
        BY <1>0, <3>5, <1>t, PostShape
      <3>. QED
        BY <1>3, <2>2 DEF CallShape, Guarded, settle_payment, hvars
    <2>. QED
      BY <2>1, <2>2
  <1>4. ASSUME NEW amt \in Amounts, NEW r \in Refs, reserve_topup_reversal(s, w, amt, r)
        PROVE  CallShape(s, w)
    <2>. DEFINE skip == \/ Existing(s, w, "DEBIT", "WALLET_TOPUP_REVERSAL", r)
                        \/ bal < amt
    <2>1. CASE skip
      BY <1>4, <2>1, KeepLockShape DEF reserve_topup_reversal, hvars, CallShape
    <2>2. CASE ~skip
      <3>5. /\ lock_wallet(s, w)
             /\ Post(s, w, "DEBIT", amt, bal - amt, "WALLET_TOPUP_REVERSAL", r)
             /\ UNCHANGED <<wallet, ledger, hold, hpend>>
        BY <1>4, <2>2 DEF reserve_topup_reversal, hvars
      <3>. PICK e \in LedgerTransaction :
            /\ Posted(s, w, e)
            /\ e.transaction_type = "DEBIT"
            /\ e.balance_after = bal - amt
            /\ e.reference_type = "WALLET_TOPUP_REVERSAL"
            /\ e.reference_id = r
        BY <1>0, <3>5, <1>t, PostShape
      <3>1. e.balance_after >= 0
        BY <1>0, <2>2
      <3>. QED
        BY <1>4, <2>2, <3>1 DEF CallShape, Guarded, reserve_topup_reversal, hvars
    <2>. QED
      BY <2>1, <2>2
  <1>5. ASSUME NEW amt \in Amounts, NEW r \in Refs, settle_flexible_deposit(s, w, amt, r)
        PROVE  CallShape(s, w)
    <2>1. CASE Existing(s, w, "CREDIT", "FLEXIBLE_DEPOSIT_SETTLEMENT", r)
      BY <1>5, <2>1, KeepLockShape DEF settle_flexible_deposit, hvars, CallShape
    <2>2. CASE ~Existing(s, w, "CREDIT", "FLEXIBLE_DEPOSIT_SETTLEMENT", r)
      <3>5. /\ lock_wallet(s, w)
             /\ Post(s, w, "CREDIT", amt, bal + amt, "FLEXIBLE_DEPOSIT_SETTLEMENT", r)
             /\ UNCHANGED <<wallet, ledger, hold, hpend>>
        BY <1>5, <2>2 DEF settle_flexible_deposit, hvars
      <3>. PICK e \in LedgerTransaction :
            /\ Posted(s, w, e)
            /\ e.transaction_type = "CREDIT"
            /\ e.reference_type = "FLEXIBLE_DEPOSIT_SETTLEMENT"
            /\ e.reference_id = r
        BY <1>0, <3>5, <1>t, PostShape
      <3>. QED
        BY <1>5, <2>2 DEF CallShape, Guarded, settle_flexible_deposit, hvars
    <2>. QED
      BY <2>1, <2>2
  <1>6. ASSUME NEW amt \in Amounts, debit(s, w, amt)
        PROVE  CallShape(s, w)
    <2>1. CASE ~Spendable(s, w, amt)
      BY <1>6, <2>1, KeepLockShape DEF debit, hvars, CallShape
    <2>2. CASE Spendable(s, w, amt)
      <3>5. /\ lock_wallet(s, w)
             /\ Post(s, w, "DEBIT", amt, bal - amt, "OTHER", "NONE")
             /\ UNCHANGED <<wallet, ledger, hold, hpend>>
        BY <1>6, <2>2 DEF debit, hvars
      <3>. PICK e \in LedgerTransaction :
            /\ Posted(s, w, e)
            /\ e.transaction_type = "DEBIT"
            /\ e.balance_after = bal - amt
            /\ e.reference_type = "OTHER"
        BY <1>0, <3>5, <1>t, PostShape
      <3>1. e.balance_after >= active_total(s, w)
        BY <1>0, <2>2 DEF Spendable
      <3>. QED
        BY <1>6, <3>1 DEF CallShape, Guarded, Indexed, debit, hvars
    <2>. QED
      BY <2>1, <2>2
  <1>7. ASSUME NEW amt \in Amounts, NEW rt \in RefundTypes, NEW rid \in Refs \cup {"NONE"},
               refund(s, w, amt, rt, rid)
        PROVE  CallShape(s, w)
    <2>. DEFINE skip == rid # "NONE" /\ Existing(s, w, "REFUND", rt, rid)
    <2>1. CASE skip
      BY <1>7, <2>1, KeepLockShape DEF refund, hvars, CallShape
    <2>2. CASE ~skip
      <3>5. /\ lock_wallet(s, w)
             /\ Post(s, w, "REFUND", amt, bal + amt, rt, rid)
             /\ UNCHANGED <<wallet, ledger, hold, hpend>>
        BY <1>7, <2>2 DEF refund, hvars
      <3>. PICK e \in LedgerTransaction :
            /\ Posted(s, w, e)
            /\ e.transaction_type = "REFUND"
            /\ e.reference_type = rt
            /\ e.reference_id = rid
        BY <1>0, <3>5, <1>t, PostShape
      <3>. QED
        BY <1>7, <2>2 DEF CallShape, Guarded, Indexed, RefundTypes, refund, hvars
    <2>. QED
      BY <2>1, <2>2
  <1>8. ASSUME NEW target \in Amounts \cup {0}, adjust(s, w, target)
        PROVE  CallShape(s, w)
    <2>. DEFINE diff == IF target >= bal THEN target - bal ELSE bal - target
    <2>1. diff \in Nat /\ target \in Nat
      BY <1>0
    <2>5. /\ lock_wallet(s, w)
           /\ Post(s, w, "ADJUSTMENT", diff, target, "MANUAL_ADJUSTMENT", "NONE")
           /\ UNCHANGED <<wallet, ledger, hold, hpend>>
      BY <1>8, <2>1 DEF adjust, hvars
    <2>. PICK e \in LedgerTransaction :
            /\ Posted(s, w, e)
            /\ e.transaction_type = "ADJUSTMENT"
            /\ e.balance_after = target
            /\ e.reference_type = "MANUAL_ADJUSTMENT"
            /\ e.reference_id = "NONE"
      BY <1>0, <2>1, <2>5, <1>t, PostShape
    <2>. QED
      BY <1>8, <2>1 DEF CallShape, Guarded, Indexed, adjust, hvars
  <1>9. ASSUME NEW b \in BOOLEAN, set_is_active(s, w, b)
        PROVE  CallShape(s, w)
    <2>1. [Locked(s, w) EXCEPT !.is_active = b] \in PendingRow
      BY LockedType DEF PendingRow
    <2>. QED
      BY <1>9, <2>1, LockedType DEF set_is_active, CallShape, Held, hvars, PendingRow
  <1>10. ASSUME NEW h \in Holds, NEW amt \in Amounts, reserve(s, w, h, amt)
         PROVE  CallShape(s, w)
    <2>1. Held(s, w)
      BY <1>10, KeepLockShape DEF reserve
    <2>. QED
      BY <1>10, <2>1 DEF reserve, CallShape, Inserted
  <1>. QED
    BY <1>1, <1>2, <1>3, <1>4, <1>5, <1>6, <1>7, <1>8, <1>9, <1>10 DEF LedgerCall

\* Each step of a session has one of the shapes.
LEMMA StepShapes ==
    ASSUME TypeInv, NEW s \in Sessions, Step(s)
    PROVE  StepShape(s)
  <1>1. TypeOK /\ CapturingMarked
    BY DEF TypeInv
  <1>2. ASSUME NEW w \in Wallets, capturing[s] = {}, LedgerCall(s, w)
        PROVE  StepShape(s)
    BY <1>1, <1>2, LedgerCallShape DEF StepShape
  <1>3. ASSUME NEW h \in Holds, capturing[s] = {}, capture_mark(s, h)
        PROVE  StepShape(s)
    <2>. DEFINE v == HoldView(s, h)
    <2>1. v \in WalletHold
      BY <1>1, <1>3, HoldViewType DEF capture_mark, lock_hold
    <2>2. CASE v.status = "ACTIVE"
      BY <1>3, <2>2 DEF capture_mark, HoldLocked, StepShape
    <2>3. CASE v.status # "ACTIVE"
      <3>1. v.status \in {"CAPTURED", "RELEASED"} /\ v = [v EXCEPT !.status = v.status]
        BY <2>1, <2>3 DEF WalletHold
      <3>2. capturing' = [capturing EXCEPT ![s] = capturing[s]]
        BY <1>1, <1>3, <2>3 DEF capture_mark, TypeOK
      <3>. QED
        BY <1>3, <2>3, <3>1, <3>2 DEF capture_mark, HoldLocked, StepShape
    <2>. QED
      BY <2>2, <2>3
  <1>4. ASSUME NEW h \in Holds, capturing[s] = {}, release(s, h)
        PROVE  StepShape(s)
    <2>. DEFINE v == HoldView(s, h)
    <2>1. v \in WalletHold
      BY <1>1, <1>4, HoldViewType DEF release, lock_hold
    <2>2. capturing' = [capturing EXCEPT ![s] = capturing[s]]
      BY <1>1, <1>4 DEF release, TypeOK
    <2>3. CASE v.status = "ACTIVE"
      BY <1>4, <2>2, <2>3 DEF release, HoldLocked, StepShape
    <2>4. CASE v.status # "ACTIVE"
      <3>1. v.status \in {"CAPTURED", "RELEASED"} /\ v = [v EXCEPT !.status = v.status]
        BY <2>1, <2>4 DEF WalletHold
      <3>. QED
        BY <1>4, <2>2, <2>4, <3>1 DEF release, HoldLocked, StepShape
    <2>. QED
      BY <2>3, <2>4
  <1>5. ASSUME NEW h \in Holds, capture_debit(s, h)
        PROVE  StepShape(s)
    <2>. DEFINE w == hpend[s][h].wallet
                amt == hpend[s][h].amount
    <2>1. hpend[s][h] \in WalletHold
      BY <1>1, <1>5 DEF capture_debit, CapturingMarked, TypeOK
    <2>2. w \in Wallets /\ amt \in Nat
      <3>1. w \in Wallets /\ amt \in Amounts
        BY <2>1 DEF WalletHold
      <3>. QED
        BY <3>1, AmountsPositive
    <2>3. Locked(s, w).balance \in Int /\ active_total(s, w) \in Nat
      BY <1>1, <2>2, LockedType, HeldUnitsFinite DEF PendingRow, active_total
    <2>4. /\ lock_wallet(s, w)
          /\ Post(s, w, "DEBIT", amt, Locked(s, w).balance - amt, "WALLET_HOLD_CAPTURE", h)
          /\ UNCHANGED <<wallet, ledger, hold, hpend>>
      BY <1>5 DEF capture_debit
    <2>5. "DEBIT" \in TransactionType /\ "WALLET_HOLD_CAPTURE" \in ReferenceType
      BY DEF TransactionType, ReferenceType
    <2>. HIDE DEF w, amt
    <2>6. PICK e \in LedgerTransaction :
            /\ Posted(s, w, e)
            /\ e.transaction_type = "DEBIT"
            /\ e.amount = amt
            /\ e.balance_after = Locked(s, w).balance - amt
            /\ e.reference_type = "WALLET_HOLD_CAPTURE"
            /\ e.reference_id = h
      BY <1>1, <2>2, <2>3, <2>4, <2>5, PostShape
    <2>7. e.balance_after >= active_total(s, w)
      BY <1>5, <2>2, <2>3, <2>6 DEF capture_debit, Spendable, w, amt
    <2>8. Captured(s, h, w, e)
      BY <1>5, <2>6, <2>7 DEF Captured, Matches, capture_debit, w, amt
    <2>. QED
      BY <2>2, <2>8 DEF StepShape
  <1>. QED
    BY <1>2, <1>3, <1>4, <1>5 DEF Step, StepShape

-----------------------------------------------------------------------------
(***************************************************************************)
(* Types.                                                                  *)
(***************************************************************************)

\* The row that Posted writes.
LEMMA PostedType ==
    ASSUME TypeOK, NEW s \in Sessions, NEW w \in Wallets, NEW e \in LedgerTransaction,
           Posted(s, w, e)
    PROVE  /\ pend' \in [Sessions -> [Wallets -> PendingRow]]
           /\ pend'[s][w].locked
           /\ pend'[s][w].balance = e.balance_after
           /\ pend'[s][w].rows = Append(Locked(s, w).rows, e)
  <1>1. Locked(s, w) \in PendingRow /\ Locked(s, w).locked
    BY LockedType
  <1>2. e.balance_after \in Int
    BY DEF LedgerTransaction
  <1>3. Append(Locked(s, w).rows, e) \in Seq(LedgerTransaction)
    BY <1>1 DEF PendingRow
  <1>. DEFINE row == [Locked(s, w) EXCEPT !.balance = e.balance_after,
                                          !.rows = Append(Locked(s, w).rows, e)]
  <1>4. row \in PendingRow /\ row.locked /\ row.balance = e.balance_after
        /\ row.rows = Append(Locked(s, w).rows, e)
    BY <1>1, <1>2, <1>3 DEF PendingRow
  <1>5. pend' = [pend EXCEPT ![s][w] = row]
    BY DEF Posted
  <1>. HIDE DEF row
  <1>. QED
    BY <1>4, <1>5 DEF TypeOK

\* Each shape keeps the types.
LEMMA TypeStep ==
    ASSUME TypeInv, NEW s \in Sessions, StepShape(s)
    PROVE  TypeInv'
  <1>0. TypeOK /\ CapturingMarked
    BY DEF TypeInv
  <1>1. ASSUME NEW w \in Wallets, capturing[s] = {}, CallShape(s, w)
        PROVE  TypeInv'
    <2>1. CASE Held(s, w) /\ UNCHANGED <<hpend, capturing>>
      BY <1>0, <2>1 DEF Held, TypeInv, TypeOK, CapturingMarked
    <2>2. CASE Created(s, w)
      <3>1. NewWallet \in PendingRow
        <4>1. <<>> \in Seq(LedgerTransaction)
          OBVIOUS
        <4>. QED
          BY <4>1 DEF NewWallet, PendingRow
      <3>. QED
        BY <1>0, <2>2, <3>1 DEF Created, hvars, TypeInv, TypeOK, CapturingMarked
    <2>3. ASSUME NEW e \in LedgerTransaction, Posted(s, w, e), UNCHANGED capturing
          PROVE  TypeInv'
      <3>1. pend' \in [Sessions -> [Wallets -> PendingRow]]
        BY <1>0, <2>3, PostedType
      <3>. QED
        BY <1>0, <2>3, <3>1 DEF Posted, TypeInv, TypeOK, CapturingMarked
    <2>4. ASSUME NEW h \in Holds, NEW amt \in Amounts, Held(s, w), Inserted(s, w, h, amt)
          PROVE  TypeInv'
      <3>. DEFINE row == [status |-> "ACTIVE", wallet |-> w, amount |-> amt]
      <3>1. row \in WalletHold
        BY DEF WalletHold
      <3>2. hpend' = [hpend EXCEPT ![s][h] = row]
        BY <2>4 DEF Inserted
      <3>. HIDE DEF row
      <3>3. hpend' \in [Sessions -> [Holds -> WalletHold \cup {NoHold}]]
        BY <1>0, <3>1, <3>2 DEF TypeOK
      <3>4. pend' \in [Sessions -> [Wallets -> PendingRow]]
        BY <1>0, <2>4 DEF Held, TypeOK
      <3>5. TypeOK'
        BY <1>0, <2>4, <3>3, <3>4 DEF Held, Inserted, TypeOK
      <3>6. CapturingMarked'
        BY <1>0, <1>1, <2>4, <3>2 DEF Inserted, TypeOK, CapturingMarked
      <3>. QED
        BY <3>5, <3>6 DEF TypeInv
    <2>. QED
      BY <1>1, <2>1, <2>2, <2>3, <2>4 DEF CallShape
  <1>2. ASSUME NEW h \in Holds, capturing[s] = {}, HoldLocked(s, h)
        PROVE  TypeInv'
    <2>1. PICK st \in {"CAPTURED", "RELEASED"} :
            /\ HoldView(s, h).status \in {"ACTIVE", st}
            /\ hpend' = [hpend EXCEPT ![s][h] = [HoldView(s, h) EXCEPT !.status = st]]
            /\ capturing' = [capturing EXCEPT ![s] =
                               IF st = "CAPTURED" /\ HoldView(s, h).status = "ACTIVE"
                               THEN {h} ELSE capturing[s]]
      BY <1>2 DEF HoldLocked
    <2>. DEFINE row == [HoldView(s, h) EXCEPT !.status = st]
    <2>2. HoldView(s, h) \in WalletHold
      BY <1>0, <1>2, HoldViewType DEF HoldLocked, lock_hold
    <2>3. row \in WalletHold /\ row.status = st /\ row # NoHold
      BY <2>2 DEF WalletHold, NoHold
    <2>4. hpend' = [hpend EXCEPT ![s][h] = row]
      BY <2>1
    <2>. HIDE DEF row
    <2>5. TypeOK'
      <3>1. hpend' \in [Sessions -> [Holds -> WalletHold \cup {NoHold}]]
        BY <1>0, <2>3, <2>4 DEF TypeOK
      <3>2. capturing' \in [Sessions -> SUBSET Holds]
        BY <1>0, <2>1 DEF TypeOK
      <3>. QED
        BY <1>0, <1>2, <3>1, <3>2 DEF HoldLocked, TypeOK
    <2>6. CapturingMarked'
      <3>. SUFFICES ASSUME NEW t \in Sessions, NEW g \in Holds, g \in capturing'[t]
                    PROVE  /\ capturing'[t] = {g}
                           /\ hpend'[t][g] # NoHold
                           /\ hpend'[t][g].status = "CAPTURED"
        BY DEF CapturingMarked
      <3>1. CASE t = s
        <4>1. capturing'[s] = IF st = "CAPTURED" /\ HoldView(s, h).status = "ACTIVE"
                              THEN {h} ELSE {}
          BY <1>0, <1>2, <2>1 DEF TypeOK
        <4>2. g = h /\ st = "CAPTURED" /\ capturing'[s] = {h}
          BY <3>1, <4>1
        <4>3. hpend'[s][h] = row
          BY <1>0, <2>4 DEF TypeOK
        <4>. QED
          BY <2>3, <3>1, <4>2, <4>3
      <3>2. CASE t # s
        <4>1. capturing'[t] = capturing[t]
          BY <1>0, <2>1, <3>2 DEF TypeOK
        <4>2. hpend'[t] = hpend[t]
          BY <1>0, <2>4, <3>2 DEF TypeOK
        <4>. QED
          BY <1>0, <4>1, <4>2 DEF CapturingMarked
      <3>. QED
        BY <3>1, <3>2
    <2>. QED
      BY <2>5, <2>6 DEF TypeInv
  <1>3. ASSUME NEW h \in Holds, NEW w \in Wallets, NEW e \in LedgerTransaction,
               Captured(s, h, w, e)
        PROVE  TypeInv'
    <2>1. pend' \in [Sessions -> [Wallets -> PendingRow]]
      BY <1>0, <1>3, PostedType DEF Captured
    <2>. QED
      BY <1>0, <1>3, <2>1 DEF Captured, Posted, TypeInv, TypeOK, CapturingMarked
  <1>4. ASSUME Ended(s), NEW t \in Sessions
        PROVE  /\ pend'[t] \in [Wallets -> PendingRow]
               /\ hpend'[t] \in [Holds -> WalletHold \cup {NoHold}]
               /\ capturing'[t] \in SUBSET Holds
               /\ capturing'[t] # {} => capturing'[t] = capturing[t] /\ hpend'[t] = hpend[t]
    <2>1. NotLocked \in PendingRow
      BY EmptySeq DEF NotLocked, PendingRow
    <2>. QED
      BY <1>0, <1>4, <2>1 DEF Ended, TypeOK
  <1>5. Ended(s) => /\ CapturingMarked'
                    /\ pend' \in [Sessions -> [Wallets -> PendingRow]]
                    /\ hpend' \in [Sessions -> [Holds -> WalletHold \cup {NoHold}]]
                    /\ capturing' \in [Sessions -> SUBSET Holds]
    BY <1>0, <1>4 DEF Ended, TypeOK, CapturingMarked
  <1>6. CASE Rollback(s)
    BY <1>0, <1>5, <1>6 DEF Rollback, TypeInv, TypeOK
  <1>7. CASE Commit(s)
    <2>1. wallet' \in [Wallets -> Wallet]
      BY <1>0, <1>7 DEF Commit, TypeOK, Wallet, PendingRow
    <2>2. ledger' \in [Wallets -> Seq(LedgerTransaction)]
      <3>1. \A w \in Wallets : ledger[w] \in Seq(LedgerTransaction)
                              /\ pend[s][w].rows \in Seq(LedgerTransaction)
        BY <1>0 DEF TypeOK, PendingRow
      <3>2. \A w \in Wallets : ledger[w] \o pend[s][w].rows \in Seq(LedgerTransaction)
        BY <3>1
      <3>. QED
        BY <1>7, <3>2 DEF Commit
    <2>3. hold' \in [Holds -> WalletHold \cup {NoHold}]
      BY <1>0, <1>7, HoldViewType DEF Commit
    <2>. QED
      BY <1>5, <1>7, <2>1, <2>2, <2>3 DEF Commit, TypeInv, TypeOK
  <1>. QED
    BY <1>1, <1>2, <1>3, <1>6, <1>7 DEF StepShape

\* The rows of the ledger, committed or pending, are always well typed, and a session
\* between the two halves of capture has marked one hold CAPTURED.
LEMMA TypesHold == Spec => []TypeInv
  <1>1. Init => TypeInv
    BY EmptySeq DEF Init, TypeInv, TypeOK, CapturingMarked, NotLocked, PendingRow, Wallet
  <1>2. TypeInv /\ [Next]_vars => TypeInv'
    <2>1. TypeInv /\ UNCHANGED vars => TypeInv'
      BY DEF vars, TypeInv, TypeOK, CapturingMarked
    <2>. QED
      BY <2>1, StepShapes, TypeStep DEF Next
  <1>. QED
    BY <1>1, <1>2, PTL DEF Spec

\* Every committed and every pending row has its type: in particular no ledger row has a
\* negative amount, whichever way adjust moves the balance.
THEOREM TypeCorrect == Spec => []TypeOK
  <1>1. TypeInv => TypeOK
    BY DEF TypeInv
  <1>. QED
    BY <1>1, TypesHold, PTL

-----------------------------------------------------------------------------
(***************************************************************************)
(* Locks.                                                                  *)
(***************************************************************************)

\* At most one session has a wallet row; without the lock it has flushed nothing.
RowLocks ==
    \A s \in Sessions, w \in Wallets :
        /\ \A t \in Sessions : pend[s][w].locked /\ pend[t][w].locked => s = t
        /\ ~pend[s][w].locked => pend[s][w].rows = <<>>

\* A wallet that was never inserted has no history.
FreshWallets ==
    \A w \in Wallets : ~wallet[w].exists => ledger[w] = <<>> /\ wallet[w].balance = 0

\* At most one session has a hold row; it has inserted the row together with the lock of
\* its wallet, or is ending an active one, or found it ended.
HoldLocks ==
    \A s \in Sessions, h \in Holds : hpend[s][h] # NoHold =>
        /\ \A t \in Sessions : hpend[t][h] # NoHold => s = t
        /\ hpend[s][h].status = "ACTIVE" =>
              hold[h] = NoHold /\ pend[s][hpend[s][h].wallet].locked
        /\ hold[h] # NoHold =>
              /\ hpend[s][h].wallet = hold[h].wallet
              /\ hpend[s][h].amount = hold[h].amount
              /\ hold[h].status # "ACTIVE" => hpend[s][h] = hold[h]

LockInv == TypeInv /\ RowLocks /\ FreshWallets /\ HoldLocks

\* A step that writes one pending wallet row under its lock keeps RowLocks and HoldLocks.
LEMMA RowWritten ==
    ASSUME LockInv, NEW s \in Sessions, NEW w \in Wallets, NEW row,
           row.locked, \A t \in Sessions \ {s} : ~pend[t][w].locked,
           pend' = [pend EXCEPT ![s][w] = row]
    PROVE  /\ RowLocks'
           /\ \A t \in Sessions, x \in Wallets : pend[t][x].locked => pend'[t][x].locked
  <1>1. \A t \in Sessions, x \in Wallets :
           pend'[t][x] = IF t = s /\ x = w THEN row ELSE pend[t][x]
    BY DEF LockInv, TypeInv, TypeOK
  <1>. QED
    BY <1>1 DEF LockInv, RowLocks

\* Each shape keeps the lock discipline.
LEMMA LockStep ==
    ASSUME LockInv, TypeInv', NEW s \in Sessions, StepShape(s)
    PROVE  LockInv'
  <1>0. TypeOK /\ RowLocks /\ FreshWallets /\ HoldLocks /\ CapturingMarked
    BY DEF LockInv, TypeInv
  <1>h. \A t \in Sessions, h \in Holds : hpend[t][h] # NoHold => hpend[t][h].wallet \in Wallets
    BY <1>0 DEF TypeOK, WalletHold
  <1>1. ASSUME NEW w \in Wallets, Held(s, w)
        PROVE  /\ RowLocks' /\ FreshWallets'
               /\ pend'[s][w].locked
               /\ \A t \in Sessions, x \in Wallets : pend[t][x].locked => pend'[t][x].locked
    <2>1. PICK row \in PendingRow : row.locked /\ pend' = [pend EXCEPT ![s][w] = row]
      BY <1>1 DEF Held
    <2>2. \A t \in Sessions \ {s} : ~pend[t][w].locked
      BY <1>1 DEF Held, lock_wallet
    <2>3. FreshWallets'
      BY <1>0, <1>1 DEF Held, FreshWallets
    <2>4. pend'[s][w].locked
      BY <1>0, <2>1 DEF TypeOK
    <2>. QED
      BY <2>1, <2>2, <2>3, <2>4, RowWritten
  <1>2. ASSUME NEW w \in Wallets, NEW e \in LedgerTransaction, Posted(s, w, e)
        PROVE  RowLocks' /\ FreshWallets' /\ HoldLocks'
    <2>. DEFINE row == [Locked(s, w) EXCEPT !.balance = e.balance_after,
                                            !.rows = Append(Locked(s, w).rows, e)]
    <2>1. row.locked
      BY <1>0, LockedType DEF PendingRow
    <2>2. pend' = [pend EXCEPT ![s][w] = row] /\ \A t \in Sessions \ {s} : ~pend[t][w].locked
      BY <1>2 DEF Posted, lock_wallet
    <2>. HIDE DEF row
    <2>3. /\ RowLocks'
          /\ \A t \in Sessions, x \in Wallets : pend[t][x].locked => pend'[t][x].locked
      BY <2>1, <2>2, RowWritten
    <2>4. UNCHANGED <<wallet, ledger, hold, hpend>>
      BY <1>2 DEF Posted
    <2>5. HoldLocks'
      BY <1>0, <1>h, <2>3, <2>4 DEF HoldLocks
    <2>. QED
      BY <1>0, <2>3, <2>4, <2>5 DEF FreshWallets
  <1>3. ASSUME NEW w \in Wallets, CallShape(s, w)
        PROVE  LockInv'
    <2>1. CASE Held(s, w) /\ UNCHANGED <<hpend, capturing>>
      <3>1. /\ UNCHANGED <<hold, hpend>>
            /\ \A t \in Sessions, x \in Wallets : pend[t][x].locked => pend'[t][x].locked
        BY <1>1, <2>1 DEF Held
      <3>2. HoldLocks'
        BY <1>0, <1>h, <3>1 DEF HoldLocks
      <3>. QED
        BY <1>1, <2>1, <3>2 DEF LockInv
    <2>2. CASE Created(s, w)
      <3>1. NewWallet.locked /\ pend' = [pend EXCEPT ![s][w] = NewWallet]
            /\ \A t \in Sessions \ {s} : ~pend[t][w].locked
        BY <2>2 DEF Created, NewWallet
      <3>2. /\ RowLocks'
            /\ \A t \in Sessions, x \in Wallets : pend[t][x].locked => pend'[t][x].locked
        BY <3>1, RowWritten
      <3>3. UNCHANGED <<hold, hpend>>
        BY <2>2 DEF Created, hvars
      <3>4. HoldLocks'
        BY <1>0, <1>h, <3>2, <3>3 DEF HoldLocks
      <3>5. FreshWallets'
        BY <1>0, <2>2 DEF Created, FreshWallets
      <3>. QED
        BY <3>2, <3>4, <3>5 DEF LockInv
    <2>3. ASSUME NEW e \in LedgerTransaction, Posted(s, w, e)
          PROVE  LockInv'
      BY <1>2, <2>3 DEF LockInv
    <2>4. ASSUME NEW h \in Holds, NEW amt \in Amounts, Held(s, w), Inserted(s, w, h, amt)
          PROVE  LockInv'
      <3>. DEFINE row == [status |-> "ACTIVE", wallet |-> w, amount |-> amt]
      <3>1. \A t \in Sessions, g \in Holds :
               hpend'[t][g] = IF t = s /\ g = h THEN row ELSE hpend[t][g]
        BY <1>0, <2>4 DEF Inserted, TypeOK
      <3>2. /\ RowLocks' /\ FreshWallets' /\ pend'[s][w].locked /\ hold' = hold
            /\ \A t \in Sessions, x \in Wallets : pend[t][x].locked => pend'[t][x].locked
        BY <1>1, <2>4 DEF Held
      <3>3. hold[h] = NoHold /\ \A t \in Sessions : hpend[t][h] = NoHold
        BY <2>4 DEF Inserted, HoldView
      <3>4. HoldLocks'
        <4>. SUFFICES ASSUME NEW t \in Sessions, NEW g \in Holds, hpend'[t][g] # NoHold
                      PROVE  /\ \A u \in Sessions : hpend'[u][g] # NoHold => t = u
                             /\ hpend'[t][g].status = "ACTIVE" =>
                                  hold[g] = NoHold /\ pend'[t][hpend'[t][g].wallet].locked
                             /\ hold[g] # NoHold =>
                                  /\ hpend'[t][g].wallet = hold[g].wallet
                                  /\ hpend'[t][g].amount = hold[g].amount
                                  /\ hold[g].status # "ACTIVE" => hpend'[t][g] = hold[g]
          BY <3>2 DEF HoldLocks
        <4>1. CASE g = h
          <5>1. t = s /\ hpend'[t][g] = row /\ row.wallet = w
            BY <3>1, <3>3, <4>1
          <5>. QED
            BY <3>1, <3>2, <3>3, <4>1, <5>1
        <4>2. CASE g # h
          <5>1. \A u \in Sessions : hpend'[u][g] = hpend[u][g]
            BY <3>1, <4>2
          <5>. QED
            BY <1>0, <1>h, <3>2, <5>1 DEF HoldLocks
        <4>. QED
          BY <4>1, <4>2
      <3>. QED
        BY <3>2, <3>4 DEF LockInv
    <2>. QED
      BY <1>3, <2>1, <2>2, <2>3, <2>4 DEF CallShape
  <1>4. ASSUME NEW h \in Holds, HoldLocked(s, h)
        PROVE  LockInv'
    <2>1. PICK st \in {"CAPTURED", "RELEASED"} :
            /\ HoldView(s, h).status \in {"ACTIVE", st}
            /\ hpend' = [hpend EXCEPT ![s][h] = [HoldView(s, h) EXCEPT !.status = st]]
      BY <1>4 DEF HoldLocked
    <2>. DEFINE v == HoldView(s, h)
                row == [v EXCEPT !.status = st]
    <2>2. v \in WalletHold /\ \A t \in Sessions \ {s} : hpend[t][h] = NoHold
      BY <1>0, <1>4, HoldViewType DEF HoldLocked, lock_hold
    <2>3. /\ row.status = st /\ row.wallet = v.wallet /\ row.amount = v.amount
          /\ v.status # "ACTIVE" => row = v
      BY <2>1, <2>2 DEF WalletHold
    <2>4. \A t \in Sessions, g \in Holds :
             hpend'[t][g] = IF t = s /\ g = h THEN row ELSE hpend[t][g]
      BY <1>0, <2>1 DEF TypeOK
    <2>5. /\ UNCHANGED <<wallet, ledger, hold, pend>>
          /\ hpend[s][h] = NoHold => v = hold[h]
          /\ hpend[s][h] # NoHold => v = hpend[s][h]
      BY <1>4 DEF HoldLocked, HoldView
    <2>. HIDE DEF v, row
    <2>6. hold[h] # NoHold => /\ row.wallet = hold[h].wallet
                              /\ row.amount = hold[h].amount
                              /\ hold[h].status # "ACTIVE" => row = hold[h]
      BY <1>0, <2>3, <2>5 DEF HoldLocks
    <2>7. HoldLocks'
      BY <1>0, <2>2, <2>3, <2>4, <2>5, <2>6 DEF HoldLocks
    <2>8. RowLocks' /\ FreshWallets'
      BY <1>0, <2>5 DEF RowLocks, FreshWallets
    <2>. QED
      BY <2>7, <2>8 DEF LockInv
  <1>5. ASSUME NEW h \in Holds, NEW w \in Wallets, NEW e \in LedgerTransaction,
               Captured(s, h, w, e)
        PROVE  LockInv'
    BY <1>2, <1>5 DEF Captured, LockInv
  <1>6. ASSUME Ended(s)
        PROVE  /\ RowLocks'
               /\ \A t \in Sessions : t # s => pend'[t] = pend[t] /\ hpend'[t] = hpend[t]
               /\ \A h \in Holds : hpend'[s][h] = NoHold
    <2>1. /\ \A t \in Sessions : t # s => pend'[t] = pend[t] /\ hpend'[t] = hpend[t]
          /\ \A w \in Wallets : pend'[s][w] = NotLocked
          /\ \A h \in Holds : hpend'[s][h] = NoHold
      BY <1>0, <1>6 DEF Ended, TypeOK
    <2>. QED
      BY <1>0, <2>1 DEF RowLocks, NotLocked
  <1>7. CASE Rollback(s)
    <2>1. UNCHANGED <<wallet, ledger, hold>> /\ Ended(s)
      BY <1>7 DEF Rollback
    <2>2. HoldLocks'
      BY <1>0, <1>6, <2>1 DEF HoldLocks
    <2>. QED
      BY <1>0, <1>6, <2>1, <2>2 DEF FreshWallets, LockInv
  <1>8. CASE Commit(s)
    <2>1. Ended(s)
      BY <1>8 DEF Commit
    <2>2. FreshWallets'
      <3>. SUFFICES ASSUME NEW w \in Wallets, ~wallet'[w].exists
                    PROVE  ledger'[w] = <<>> /\ wallet'[w].balance = 0
        BY DEF FreshWallets
      <3>1. ~pend[s][w].locked /\ wallet'[w] = wallet[w]
        BY <1>8 DEF Commit
      <3>2. pend[s][w].rows = <<>> /\ ledger[w] = <<>>
        BY <1>0, <3>1 DEF RowLocks, FreshWallets
      <3>3. ledger'[w] = <<>> \o <<>>
        BY <1>8, <3>2 DEF Commit
      <3>. QED
        BY <1>0, <3>1, <3>3 DEF FreshWallets
    <2>3. \A h \in Holds : hold'[h] = IF hpend[s][h] = NoHold THEN hold[h] ELSE hpend[s][h]
      BY <1>8 DEF Commit, HoldView
    <2>4. HoldLocks'
      BY <1>0, <1>6, <2>1, <2>3 DEF HoldLocks
    <2>. QED
      BY <1>6, <2>1, <2>2, <2>4 DEF LockInv
  <1>. QED
    BY <1>3, <1>4, <1>5, <1>7, <1>8 DEF StepShape

\* Row locks work as intended: at most one session at a time has flushed changes of a
\* wallet row or of a hold row.
THEOREM LocksExclusive == Spec => []LockInv
  <1>1. Init => LockInv
    <2>1. Init => TypeInv
      BY EmptySeq DEF Init, TypeInv, TypeOK, CapturingMarked, NotLocked, PendingRow, Wallet
    <2>. QED
      BY <2>1 DEF Init, LockInv, RowLocks, FreshWallets, HoldLocks, NotLocked
  <1>2. LockInv /\ TypeInv' /\ [Next]_vars => LockInv'
    <2>1. LockInv /\ TypeInv' /\ UNCHANGED vars => LockInv'
      BY DEF vars, LockInv, RowLocks, FreshWallets, HoldLocks
    <2>2. LockInv => TypeInv
      BY DEF LockInv
    <2>. QED
      BY <2>1, <2>2, StepShapes, LockStep DEF Next
  <1>. QED
    BY <1>1, <1>2, TypesHold, PTL DEF Spec

-----------------------------------------------------------------------------
(***************************************************************************)
(* What each session sees of the ledger, and how a step changes it.        *)
(***************************************************************************)

\* The rows and the balance of a wallet as a session with pending row p sees them.
Seen(l, p) == l \o p.rows

Bal(x, p) == IF p.locked THEN p.balance ELSE x.balance

SameView(s, w) ==
    /\ Seen(ledger'[w], pend'[s][w]) = Seen(ledger[w], pend[s][w])
    /\ Bal(wallet'[w], pend'[s][w]) = Bal(wallet[w], pend[s][w])

SameCommitted == \A w \in Wallets :
    ledger'[w] = ledger[w] /\ wallet'[w].balance = wallet[w].balance

\* Appending to the pending rows appends to what the session sees.
LEMMA ConcatAppend ==
    ASSUME NEW l \in Seq(LedgerTransaction), NEW r \in Seq(LedgerTransaction),
           NEW e \in LedgerTransaction
    PROVE  l \o Append(r, e) = Append(l \o r, e)
  <1>. DEFINE S == LedgerTransaction
  <1>1. <<e>> \in Seq(S)
    OBVIOUS
  <1>2. Append(r, e) = r \o <<e>>
    BY AppendIsConcat
  <1>3. l \o r \in Seq(S)
    BY ConcatProperties
  <1>4. Append(l \o r, e) = (l \o r) \o <<e>>
    BY <1>3, AppendIsConcat
  <1>5. (l \o r) \o <<e>> = l \o (r \o <<e>>)
    BY <1>1, ConcatAssociative
  <1>. QED
    BY <1>2, <1>4, <1>5

\* What a session sees is well typed, and is the committed state without the lock.
LEMMA ViewType ==
    ASSUME LockInv, NEW s \in Sessions, NEW w \in Wallets
    PROVE  /\ Seen(ledger[w], pend[s][w]) \in Seq(LedgerTransaction)
           /\ Bal(wallet[w], pend[s][w]) \in Int
           /\ ledger[w] \in Seq(LedgerTransaction)
           /\ wallet[w].balance \in Int
           /\ ledger[w] \o <<>> = ledger[w]
           /\ ~pend[s][w].locked => /\ Bal(wallet[w], pend[s][w]) = wallet[w].balance
                                    /\ Seen(ledger[w], pend[s][w]) = ledger[w]
           /\ Seen(ledger[w], pend[s][w]) = ledger[w] \o Locked(s, w).rows
           /\ Bal(wallet[w], pend[s][w]) = Locked(s, w).balance
  <1>1. TypeOK /\ RowLocks
    BY DEF LockInv, TypeInv
  <1>2. /\ ledger[w] \in Seq(LedgerTransaction)
        /\ wallet[w].balance \in Int
        /\ pend[s][w] \in PendingRow
    BY <1>1 DEF TypeOK, Wallet
  <1>3. pend[s][w].rows \in Seq(LedgerTransaction) /\ pend[s][w].balance \in Int
    BY <1>2 DEF PendingRow
  <1>4. ledger[w] \o <<>> = ledger[w]
    BY <1>2, ConcatEmptySeq
  <1>5. ~pend[s][w].locked => pend[s][w].rows = <<>>
    BY <1>1 DEF RowLocks
  <1>6. Seen(ledger[w], pend[s][w]) \in Seq(LedgerTransaction)
    BY <1>2, <1>3, ConcatProperties DEF Seen
  <1>7. CASE pend[s][w].locked
    <2>1. Locked(s, w) = pend[s][w]
      BY <1>7 DEF Locked
    <2>. QED
      BY <1>2, <1>3, <1>4, <1>6, <1>7, <2>1 DEF Seen, Bal
  <1>8. CASE ~pend[s][w].locked
    <2>1. Locked(s, w).rows = <<>> /\ Locked(s, w).balance = wallet[w].balance
      BY <1>8 DEF Locked
    <2>. QED
      BY <1>2, <1>3, <1>4, <1>5, <1>6, <1>8, <2>1 DEF Seen, Bal
  <1>. QED
    BY <1>7, <1>8

\* s writes its pending row of w, and nothing else of the ledger.
RowStep(s, w) ==
    /\ \A t \in Sessions, x \in Wallets : t # s \/ x # w => pend'[t][x] = pend[t][x]
    /\ pend'[s][w].locked
    /\ wallet' = wallet
    /\ ledger' = ledger

\* Such a step changes no other view.
LEMMA RowView ==
    ASSUME NEW s \in Sessions, NEW w \in Wallets, RowStep(s, w)
    PROVE  /\ \A t \in Sessions, x \in Wallets : t # s \/ x # w => SameView(t, x)
           /\ SameCommitted
  <1>1. SameCommitted
    BY DEF RowStep, SameCommitted
  <1>2. \A t \in Sessions, x \in Wallets : t # s \/ x # w => SameView(t, x)
    BY DEF RowStep, SameView
  <1>. QED
    BY <1>1, <1>2

\* Holding a lock changes no view.
LEMMA HeldView ==
    ASSUME LockInv, NEW s \in Sessions, NEW w \in Wallets, Held(s, w)
    PROVE  SameCommitted /\ \A t \in Sessions, x \in Wallets : SameView(t, x)
  <1>1. PICK row \in PendingRow :
          /\ row.locked
          /\ row.balance = Locked(s, w).balance
          /\ row.rows = Locked(s, w).rows
          /\ pend' = [pend EXCEPT ![s][w] = row]
    BY DEF Held
  <1>2. pend'[s][w] = row /\ RowStep(s, w)
    BY <1>1 DEF Held, RowStep, LockInv, TypeInv, TypeOK
  <1>3. /\ Seen(ledger'[w], pend'[s][w]) = ledger[w] \o Locked(s, w).rows
        /\ Bal(wallet'[w], pend'[s][w]) = Locked(s, w).balance
    BY <1>1, <1>2 DEF RowStep, Seen, Bal
  <1>4. SameView(s, w)
    BY <1>3, ViewType DEF SameView
  <1>. QED
    BY <1>2, <1>4, RowView

\* Inserting a wallet row changes no view.
LEMMA CreatedView ==
    ASSUME LockInv, NEW s \in Sessions, NEW w \in Wallets, Created(s, w)
    PROVE  SameCommitted /\ \A t \in Sessions, x \in Wallets : SameView(t, x)
  <1>1. pend'[s][w] = NewWallet /\ RowStep(s, w)
    BY DEF Created, NewWallet, RowStep, LockInv, TypeInv, TypeOK
  <1>2. wallet[w].balance = 0 /\ ~pend[s][w].locked
    BY DEF Created, LockInv, FreshWallets
  <1>3. NewWallet.rows = <<>> /\ NewWallet.balance = 0
    BY DEF NewWallet
  <1>4. /\ Seen(ledger'[w], pend'[s][w]) = ledger[w] \o <<>>
        /\ Bal(wallet'[w], pend'[s][w]) = 0
    BY <1>1, <1>3 DEF RowStep, Seen, Bal
  <1>5. SameView(s, w)
    BY <1>2, <1>4, ViewType DEF SameView
  <1>. QED
    BY <1>1, <1>5, RowView

\* Ending or locking a hold changes no view of the ledger.
LEMMA HoldLockedView ==
    ASSUME NEW s \in Sessions, NEW h \in Holds, HoldLocked(s, h)
    PROVE  SameCommitted /\ \A t \in Sessions, x \in Wallets : SameView(t, x)
  BY DEF HoldLocked, SameCommitted, SameView

\* Posting e appends it to the view of the session.
LEMMA PostedView ==
    ASSUME LockInv, NEW s \in Sessions, NEW w \in Wallets,
           NEW e \in LedgerTransaction, Posted(s, w, e)
    PROVE  /\ \A t \in Sessions, x \in Wallets : t # s \/ x # w => SameView(t, x)
           /\ Seen(ledger'[w], pend'[s][w]) = Append(Seen(ledger[w], pend[s][w]), e)
           /\ Bal(wallet'[w], pend'[s][w]) = e.balance_after
           /\ SameCommitted
  <1>0. TypeOK
    BY DEF LockInv, TypeInv
  <1>1. /\ pend'[s][w].locked
        /\ pend'[s][w].balance = e.balance_after
        /\ pend'[s][w].rows = Append(Locked(s, w).rows, e)
    BY <1>0, PostedType
  <1>2. RowStep(s, w)
    BY <1>0, <1>1 DEF Posted, RowStep, TypeOK
  <1>3. ledger[w] \in Seq(LedgerTransaction) /\ Locked(s, w).rows \in Seq(LedgerTransaction)
    BY <1>0, LockedType DEF PendingRow, TypeOK
  <1>4. ledger[w] \o Append(Locked(s, w).rows, e) = Append(ledger[w] \o Locked(s, w).rows, e)
    BY <1>3, ConcatAppend
  <1>5. Seen(ledger[w], pend[s][w]) = ledger[w] \o Locked(s, w).rows
    BY ViewType
  <1>6. Seen(ledger'[w], pend'[s][w]) = ledger[w] \o Append(Locked(s, w).rows, e)
    BY <1>1, <1>2 DEF RowStep, Seen
  <1>7. Bal(wallet'[w], pend'[s][w]) = e.balance_after
    BY <1>1, <1>2 DEF RowStep, Bal
  <1>. QED
    BY <1>2, <1>4, <1>5, <1>6, <1>7, RowView

\* Committing publishes the view of the session; the others see it where s had the lock.
LEMMA CommitView ==
    ASSUME LockInv, NEW s \in Sessions, Commit(s), NEW x \in Wallets
    PROVE  /\ ledger'[x] = Seen(ledger[x], pend[s][x])
           /\ wallet'[x].balance = Bal(wallet[x], pend[s][x])
           /\ \A t \in Sessions :
                 IF t = s \/ pend[s][x].locked
                 THEN /\ Seen(ledger'[x], pend'[t][x]) = Seen(ledger[x], pend[s][x])
                      /\ Bal(wallet'[x], pend'[t][x]) = Bal(wallet[x], pend[s][x])
                 ELSE SameView(t, x)
  <1>1. /\ wallet'[x] = IF pend[s][x].locked
                        THEN [exists |-> TRUE, balance |-> pend[s][x].balance,
                              is_active |-> pend[s][x].is_active]
                        ELSE wallet[x]
        /\ ledger'[x] = ledger[x] \o pend[s][x].rows
        /\ pend'[s][x] = NotLocked
        /\ \A t \in Sessions : t # s => pend'[t][x] = pend[t][x]
    BY DEF Commit, Ended, LockInv, TypeInv, TypeOK
  <1>2. ledger'[x] = Seen(ledger[x], pend[s][x]) /\ wallet'[x].balance = Bal(wallet[x], pend[s][x])
    BY <1>1 DEF Seen, Bal
  <1>3. ledger'[x] \o <<>> = ledger'[x]
    BY <1>2, ViewType, ConcatEmptySeq
  <1>4. ASSUME NEW t \in Sessions, t = s \/ pend[s][x].locked
        PROVE  /\ Seen(ledger'[x], pend'[t][x]) = ledger'[x]
               /\ Bal(wallet'[x], pend'[t][x]) = wallet'[x].balance
    <2>1. ~pend'[t][x].locked /\ pend'[t][x].rows = <<>>
      BY <1>1, <1>4 DEF NotLocked, LockInv, RowLocks
    <2>. QED
      BY <1>3, <2>1 DEF Seen, Bal
  <1>5. ASSUME NEW t \in Sessions, t # s, ~pend[s][x].locked
        PROVE  SameView(t, x)
    <2>1. pend[s][x].rows = <<>>
      BY <1>5 DEF LockInv, RowLocks
    <2>2. ledger'[x] = ledger[x] /\ wallet'[x] = wallet[x] /\ pend'[t][x] = pend[t][x]
      BY <1>1, <1>5, <2>1, ViewType
    <2>. QED
      BY <2>2 DEF SameView
  <1>. QED
    BY <1>2, <1>4, <1>5

\* Rolling back gives the session the committed view.
LEMMA RollbackView ==
    ASSUME LockInv, NEW s \in Sessions, Rollback(s), NEW x \in Wallets
    PROVE  /\ Seen(ledger'[x], pend'[s][x]) = ledger[x]
           /\ Bal(wallet'[x], pend'[s][x]) = wallet[x].balance
           /\ \A t \in Sessions : t # s => SameView(t, x)
           /\ SameCommitted
  <1>1. /\ UNCHANGED <<wallet, ledger>>
        /\ pend'[s][x] = NotLocked
        /\ \A t \in Sessions : t # s => pend'[t][x] = pend[t][x]
    BY DEF Rollback, Ended, LockInv, TypeInv, TypeOK
  <1>2. ledger[x] \o <<>> = ledger[x]
    BY ViewType
  <1>3. SameCommitted /\ \A t \in Sessions : t # s => SameView(t, x)
    BY <1>1 DEF SameView, SameCommitted
  <1>. QED
    BY <1>1, <1>2, <1>3 DEF Seen, Bal, NotLocked

-----------------------------------------------------------------------------
(***************************************************************************)
(* The ledger is a chain that ends in the balance.                         *)
(***************************************************************************)

\* l is an unbroken chain from 0 to b, and b is no overdraft.
Sound(l, b) == Chained(l) /\ LastBalance(l) = b /\ b >= 0

\* The committed ledger is sound, and so is what each session is about to commit.
ChainInv ==
    \A w \in Wallets :
        /\ Sound(ledger[w], wallet[w].balance)
        /\ \A s \in Sessions : Sound(Seen(ledger[w], pend[s][w]), Bal(wallet[w], pend[s][w]))

\* A row computed from the last balance extends the chain.
LEMMA SoundAppend ==
    ASSUME NEW l \in Seq(LedgerTransaction), NEW e \in LedgerTransaction,
           Sound(l, e.balance_before),
           e.balance_after = Applied(e, e.balance_before), e.balance_after >= 0
    PROVE  Sound(Append(l, e), e.balance_after)
  <1>. DEFINE m == Append(l, e)
  <1>1. /\ Len(l) \in Nat /\ DOMAIN l = 1 .. Len(l)
        /\ Len(m) = Len(l) + 1
        /\ DOMAIN m = 1 .. (Len(l) + 1)
        /\ \A i \in 1 .. Len(l) : m[i] = l[i]
        /\ m[Len(l) + 1] = e
        /\ m # <<>>
    OBVIOUS
  <1>2. LastBalance(m) = e.balance_after
    BY <1>1 DEF LastBalance
  <1>. HIDE DEF m
  <1>3. Chained(m)
    <2>. SUFFICES ASSUME NEW i \in 1 .. (Len(l) + 1)
                  PROVE  /\ m[i].balance_before = BalanceBefore(m, i)
                         /\ m[i].balance_after = Applied(m[i], m[i].balance_before)
      BY <1>1 DEF Chained
    <2>1. CASE i = Len(l) + 1
      <3>1. LastBalance(l) = e.balance_before
        BY DEF Sound
      <3>2. CASE l = <<>>
        BY <1>1, <2>1, <3>1, <3>2 DEF BalanceBefore, LastBalance
      <3>3. CASE l # <<>>
        <4>1. Len(l) \in 1 .. Len(l) /\ i # 1 /\ i - 1 = Len(l)
          BY <1>1, <2>1, <3>3, EmptySeq
        <4>2. BalanceBefore(m, i) = l[Len(l)].balance_after
          BY <1>1, <4>1 DEF BalanceBefore
        <4>. QED
          BY <1>1, <2>1, <3>1, <3>3, <4>2 DEF LastBalance
      <3>. QED
        BY <3>2, <3>3
    <2>2. CASE i \in 1 .. Len(l)
      <3>1. i = 1 \/ i - 1 \in 1 .. Len(l)
        BY <1>1, <2>2
      <3>2. m[i] = l[i] /\ BalanceBefore(m, i) = BalanceBefore(l, i)
        BY <1>1, <2>2, <3>1 DEF BalanceBefore
      <3>. QED
        BY <1>1, <2>2, <3>2 DEF Sound, Chained
    <2>. QED
      BY <1>1, <2>1, <2>2
  <1>. QED
    BY <1>2, <1>3 DEF Sound, m

\* A row that no guard forbids leaves a balance that is not negative.
LEMMA PostedNotNegative ==
    ASSUME LockInv, NEW s \in Sessions, NEW w \in Wallets, NEW e \in LedgerTransaction,
           Posted(s, w, e), Guarded(s, w, e) \/ e.balance_after >= active_total(s, w),
           Bal(wallet[w], pend[s][w]) >= 0
    PROVE  e.balance_after >= 0
  <1>1. /\ e.amount \in Nat /\ e.balance_after \in Int
        /\ e.balance_before = Bal(wallet[w], pend[s][w])
        /\ Bal(wallet[w], pend[s][w]) \in Int
    BY ViewType DEF LedgerTransaction, Posted
  <1>2. active_total(s, w) \in Nat
    BY HeldUnitsFinite DEF active_total
  <1>3. CASE e.transaction_type \in {"CREDIT", "REFUND"}
    <2>1. e.balance_after = e.balance_before + e.amount
      BY <1>3 DEF Posted, Applied
    <2>. QED
      BY <1>1, <2>1
  <1>. QED
    BY <1>1, <1>2, <1>3 DEF Guarded

\* Posting a guarded row keeps the chains.
LEMMA ChainPosted ==
    ASSUME LockInv, ChainInv, NEW s \in Sessions, NEW w \in Wallets,
           NEW e \in LedgerTransaction, Posted(s, w, e),
           Guarded(s, w, e) \/ e.balance_after >= active_total(s, w)
    PROVE  ChainInv'
  <1>. DEFINE l == Seen(ledger[w], pend[s][w])
              b == Bal(wallet[w], pend[s][w])
  <1>1. l \in Seq(LedgerTransaction) /\ Sound(l, b) /\ b >= 0
    BY ViewType DEF ChainInv, Sound
  <1>2. e.balance_before = b /\ e.balance_after = Applied(e, e.balance_before)
    BY ViewType DEF Posted
  <1>3. e.balance_after >= 0
    BY <1>1, PostedNotNegative
  <1>4. Sound(Append(l, e), e.balance_after)
    BY <1>1, <1>2, <1>3, SoundAppend
  <1>5. /\ \A t \in Sessions, x \in Wallets : t # s \/ x # w => SameView(t, x)
        /\ Seen(ledger'[w], pend'[s][w]) = Append(l, e)
        /\ Bal(wallet'[w], pend'[s][w]) = e.balance_after
        /\ SameCommitted
    BY PostedView
  <1>. HIDE DEF l, b
  <1>. SUFFICES ASSUME NEW x \in Wallets, NEW t \in Sessions
                PROVE  /\ Sound(ledger'[x], wallet'[x].balance)
                       /\ Sound(Seen(ledger'[x], pend'[t][x]), Bal(wallet'[x], pend'[t][x]))
    BY DEF ChainInv
  <1>6. CASE t = s /\ x = w
    BY <1>4, <1>5, <1>6 DEF ChainInv, SameCommitted
  <1>7. CASE t # s \/ x # w
    BY <1>5, <1>7 DEF ChainInv, SameCommitted, SameView
  <1>. QED
    BY <1>6, <1>7

\* Each shape keeps the chains.
LEMMA ChainStep ==
    ASSUME LockInv, ChainInv, NEW s \in Sessions, StepShape(s)
    PROVE  ChainInv'
  <1>1. ASSUME SameCommitted, \A t \in Sessions, x \in Wallets : SameView(t, x)
        PROVE  ChainInv'
    BY <1>1 DEF SameCommitted, SameView, ChainInv
  <1>2. ASSUME NEW w \in Wallets, CallShape(s, w)
        PROVE  ChainInv'
    BY <1>1, <1>2, HeldView, CreatedView, ChainPosted DEF CallShape
  <1>3. ASSUME NEW h \in Holds, HoldLocked(s, h)
        PROVE  ChainInv'
    BY <1>1, <1>3, HoldLockedView
  <1>4. ASSUME NEW h \in Holds, NEW w \in Wallets, NEW e \in LedgerTransaction,
               Captured(s, h, w, e)
        PROVE  ChainInv'
    BY <1>4, ChainPosted DEF Captured
  <1>5. CASE Commit(s)
    <2>. SUFFICES ASSUME NEW x \in Wallets, NEW t \in Sessions
                  PROVE  /\ Sound(ledger'[x], wallet'[x].balance)
                         /\ Sound(Seen(ledger'[x], pend'[t][x]), Bal(wallet'[x], pend'[t][x]))
      BY DEF ChainInv
    <2>. QED
      BY <1>5, CommitView DEF ChainInv, SameView
  <1>6. CASE Rollback(s)
    <2>. SUFFICES ASSUME NEW x \in Wallets, NEW t \in Sessions
                  PROVE  /\ Sound(ledger'[x], wallet'[x].balance)
                         /\ Sound(Seen(ledger'[x], pend'[t][x]), Bal(wallet'[x], pend'[t][x]))
      BY DEF ChainInv
    <2>. QED
      BY <1>6, RollbackView DEF ChainInv, SameView, SameCommitted
  <1>. QED
    BY <1>2, <1>3, <1>4, <1>5, <1>6 DEF StepShape

\* The committed and the pending ledgers are chains in every reachable state.
LEMMA ChainsHold == Spec => []ChainInv
  <1>1. Init => ChainInv
    <2>1. <<>> \o <<>> = <<>>
      OBVIOUS
    <2>2. Sound(<<>>, 0)
      BY DEF Sound, Chained, LastBalance
    <2>. QED
      BY <2>1, <2>2 DEF Init, ChainInv, Seen, Bal, NotLocked
  <1>2. LockInv /\ ChainInv /\ [Next]_vars => ChainInv'
    <2>1. ChainInv /\ UNCHANGED vars => ChainInv'
      BY DEF vars, ChainInv
    <2>2. LockInv => TypeInv
      BY DEF LockInv
    <2>. QED
      BY <2>1, <2>2, StepShapes, ChainStep DEF Next
  <1>. QED
    BY <1>1, <1>2, LocksExclusive, PTL DEF Spec

\* The rows of a wallet that are committed, in the order of their locks, are one unbroken
\* chain from 0 to the stored balance, for any number of sessions and wallets.
THEOREM LedgerChain == Spec => []LedgerIsChain
  <1>1. ChainInv => LedgerIsChain
    BY SMTT(30) DEF ChainInv, LedgerIsChain, Sound
  <1>. QED
    BY <1>1, ChainsHold, PTL

\* No sequence of debits, reversals, captures and adjustments by any number of sessions
\* commits a negative balance.
THEOREM NeverOverdrawn == Spec => []NoOverdraft
  <1>1. ChainInv => NoOverdraft
    BY DEF ChainInv, NoOverdraft, Sound
  <1>. QED
    BY <1>1, ChainsHold, PTL
=============================================================================
