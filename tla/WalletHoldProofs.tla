--------------------------- MODULE WalletHoldProofs ---------------------------
(***************************************************************************)
(* Proofs about the holds of WalletLedger, and about the uniqueness of     *)
(* ledger rows, on top of the locks and the views of WalletLedgerProofs.   *)
(***************************************************************************)
EXTENDS WalletLedgerProofs

-----------------------------------------------------------------------------
(***************************************************************************)
(* A hold is captured exactly when its debit is in the ledger.             *)
(***************************************************************************)

\* The hold row as a session with pending row p sees it, over the committed row c.
SeenHold(c, p) == IF p = NoHold THEN c ELSE p

\* The capture debits of h that ledger l of w must have when the hold row is v.
Debited(l, v, w, h) ==
    IF v.status = "CAPTURED" /\ v.wallet = w
    THEN \E i \in CaptureRows(l, h) : CaptureRows(l, h) = {i} /\ l[i].amount = v.amount
    ELSE CaptureRows(l, h) = {}

\* Between the two halves of capture the debit is still missing.
Captures(l, v, marked, w, h) ==
    IF marked THEN CaptureRows(l, h) = {} ELSE Debited(l, v, w, h)

SessionCaptures(s, w, h) ==
    Captures(Seen(ledger[w], pend[s][w]), SeenHold(hold[h], hpend[s][h]),
             h \in capturing[s], w, h)

CaptureInv ==
    \A w \in Wallets, h \in Holds :
        /\ Debited(ledger[w], hold[h], w, h)
        /\ \A s \in Sessions : SessionCaptures(s, w, h)

\* The capture debits after a row is appended.
LEMMA CaptureRowsAppend ==
    ASSUME NEW l \in Seq(LedgerTransaction), NEW e \in LedgerTransaction, NEW h
    PROVE  /\ ~Matches(e, "DEBIT", "WALLET_HOLD_CAPTURE", h) =>
                  CaptureRows(Append(l, e), h) = CaptureRows(l, h)
           /\ Matches(e, "DEBIT", "WALLET_HOLD_CAPTURE", h) /\ CaptureRows(l, h) = {} =>
                  /\ CaptureRows(Append(l, e), h) = {Len(l) + 1}
                  /\ Append(l, e)[Len(l) + 1] = e
  <1>. DEFINE m == Append(l, e)
  <1>1. /\ Len(l) \in Nat /\ DOMAIN l = 1 .. Len(l)
        /\ DOMAIN m = 1 .. (Len(l) + 1)
        /\ \A i \in 1 .. Len(l) : m[i] = l[i]
        /\ m[Len(l) + 1] = e
    OBVIOUS
  <1>. HIDE DEF m
  <1>2. ASSUME ~Matches(e, "DEBIT", "WALLET_HOLD_CAPTURE", h)
        PROVE  CaptureRows(m, h) = CaptureRows(l, h)
    BY <1>1, <1>2 DEF CaptureRows
  <1>3. ASSUME Matches(e, "DEBIT", "WALLET_HOLD_CAPTURE", h), CaptureRows(l, h) = {}
        PROVE  CaptureRows(m, h) = {Len(l) + 1}
    BY <1>1, <1>3 DEF CaptureRows
  <1>. QED
    BY <1>1, <1>2, <1>3 DEF m

\* A row that is no capture debit of h changes nothing for h.
LEMMA CapturesAppend ==
    ASSUME NEW l \in Seq(LedgerTransaction), NEW e \in LedgerTransaction,
           NEW v, NEW marked, NEW w, NEW h,
           ~Matches(e, "DEBIT", "WALLET_HOLD_CAPTURE", h), Captures(l, v, marked, w, h)
    PROVE  Captures(Append(l, e), v, marked, w, h)
  <1>1. CaptureRows(Append(l, e), h) = CaptureRows(l, h)
    BY CaptureRowsAppend
  <1>2. ASSUME NEW i \in CaptureRows(l, h)
        PROVE  Append(l, e)[i] = l[i]
    BY DEF CaptureRows
  <1>3. Debited(l, v, w, h) => Debited(Append(l, e), v, w, h)
    BY <1>1, <1>2 DEF Debited
  <1>. QED
    BY <1>1, <1>3 DEF Captures

\* A step that leaves a view of the ledger and a hold row alone keeps their captures.
LEMMA SameCaptures ==
    ASSUME CaptureInv, NEW s \in Sessions, NEW w \in Wallets, NEW h \in Holds,
           SameView(s, w), hold'[h] = hold[h], hpend'[s][h] = hpend[s][h],
           h \in capturing'[s] <=> h \in capturing[s]
    PROVE  SessionCaptures(s, w, h)'
  BY DEF CaptureInv, SessionCaptures, SameView, Captures

\* Ledger calls keep the captures.
LEMMA CaptureCall ==
    ASSUME LockInv, CaptureInv, NEW s \in Sessions, NEW w \in Wallets, CallShape(s, w)
    PROVE  CaptureInv'
  <1>0. TypeOK
    BY DEF LockInv, TypeInv
  <1>1. SameCommitted /\ hold' = hold
    BY HeldView, CreatedView, PostedView DEF CallShape, Held, Created, Posted, hvars
  <1>2. ASSUME NEW x \in Wallets, NEW g \in Holds
        PROVE  Debited(ledger'[x], hold'[g], x, g)
    BY <1>1 DEF SameCommitted, CaptureInv
  <1>. SUFFICES ASSUME NEW t \in Sessions, NEW x \in Wallets, NEW g \in Holds
                PROVE  SessionCaptures(t, x, g)'
    BY <1>2 DEF CaptureInv
  <1>3. CASE (Held(s, w) \/ Created(s, w)) /\ UNCHANGED <<hpend, capturing>>
    BY <1>1, <1>3, HeldView, CreatedView, SameCaptures
  <1>4. ASSUME NEW e \in LedgerTransaction, Posted(s, w, e), Guarded(s, w, e), UNCHANGED capturing
        PROVE  SessionCaptures(t, x, g)'
    <2>1. UNCHANGED <<hold, hpend, capturing>>
      BY <1>4 DEF Posted
    <2>2. CASE t # s \/ x # w
      BY <1>4, <2>1, <2>2, PostedView, SameCaptures
    <2>3. CASE t = s /\ x = w
      <3>1. ~Matches(e, "DEBIT", "WALLET_HOLD_CAPTURE", g)
        BY <1>4 DEF Guarded, Matches
      <3>2. Seen(ledger[w], pend[s][w]) \in Seq(LedgerTransaction)
        BY ViewType
      <3>3. Seen(ledger'[w], pend'[s][w]) = Append(Seen(ledger[w], pend[s][w]), e)
        BY <1>4, PostedView
      <3>. DEFINE l == Seen(ledger[w], pend[s][w])
                  v == SeenHold(hold[g], hpend[s][g])
                  marked == g \in capturing[s]
      <3>4. Captures(l, v, marked, w, g)
        BY DEF CaptureInv, SessionCaptures
      <3>5. l \in Seq(LedgerTransaction)
        BY <3>2
      <3>6. /\ Seen(ledger'[w], pend'[s][w]) = Append(l, e)
            /\ SeenHold(hold'[g], hpend'[s][g]) = v
            /\ (g \in capturing'[s]) = marked
        BY <2>1, <3>3
      <3>. HIDE DEF l, v, marked
      <3>7. Captures(Append(l, e), v, marked, w, g)
        BY <3>1, <3>4, <3>5, CapturesAppend
      <3>. QED
        BY <2>3, <3>6, <3>7 DEF SessionCaptures
    <2>. QED
      BY <2>2, <2>3
  <1>5. ASSUME NEW h \in Holds, NEW amt \in Amounts, Held(s, w), Inserted(s, w, h, amt)
        PROVE  SessionCaptures(t, x, g)'
    <2>1. SameView(t, x)
      BY <1>5, HeldView
    <2>2. CASE t # s \/ g # h
      <3>1. hpend'[t][g] = hpend[t][g] /\ capturing' = capturing
        BY <1>0, <1>5, <2>2 DEF Inserted, TypeOK
      <3>. QED
        BY <1>1, <2>1, <3>1, SameCaptures
    <2>3. CASE t = s /\ g = h
      <3>1. /\ hpend'[s][h] = [status |-> "ACTIVE", wallet |-> w, amount |-> amt]
            /\ capturing' = capturing
            /\ hpend[s][h] = NoHold /\ hold[h] = NoHold
        BY <1>0, <1>5 DEF Inserted, TypeOK, HoldView
      <3>2. hpend'[s][h].status = "ACTIVE" /\ NoHold.status = "NONE" /\ hpend'[s][h] # NoHold
        BY <3>1 DEF NoHold
      <3>3. CaptureRows(Seen(ledger[x], pend[s][x]), h) = {}
        BY <3>1, <3>2 DEF CaptureInv, SessionCaptures, Captures, Debited, SeenHold
      <3>4. CaptureRows(Seen(ledger'[x], pend'[s][x]), h) = {}
        BY <2>1, <2>3, <3>3 DEF SameView
      <3>5. SeenHold(hold'[h], hpend'[s][h]) = hpend'[s][h]
        BY <3>2 DEF SeenHold
      <3>6. Debited(Seen(ledger'[x], pend'[s][x]), hpend'[s][h], x, h)
        BY <3>2, <3>4 DEF Debited
      <3>. QED
        BY <2>3, <3>4, <3>5, <3>6 DEF SessionCaptures, Captures
    <2>. QED
      BY <2>2, <2>3
  <1>. QED
    BY <1>3, <1>4, <1>5 DEF CallShape, Created, hvars

\* Locking, marking or releasing a hold keeps the captures.
LEMMA CaptureHold ==
    ASSUME LockInv, CaptureInv, NEW s \in Sessions, NEW h \in Holds,
           capturing[s] = {}, HoldLocked(s, h)
    PROVE  CaptureInv'
  <1>0. TypeOK
    BY DEF LockInv, TypeInv
  <1>1. /\ SameCommitted /\ hold' = hold
        /\ \A t \in Sessions, x \in Wallets : SameView(t, x)
    BY HoldLockedView DEF HoldLocked
  <1>2. PICK st \in {"CAPTURED", "RELEASED"} :
          /\ HoldView(s, h).status \in {"ACTIVE", st}
          /\ hpend' = [hpend EXCEPT ![s][h] = [HoldView(s, h) EXCEPT !.status = st]]
          /\ capturing' = [capturing EXCEPT ![s] =
                             IF st = "CAPTURED" /\ HoldView(s, h).status = "ACTIVE"
                             THEN {h} ELSE capturing[s]]
    BY DEF HoldLocked
  <1>. DEFINE v == SeenHold(hold[h], hpend[s][h])
              row == [v EXCEPT !.status = st]
  <1>3. v = HoldView(s, h)
    BY DEF SeenHold, HoldView
  <1>4. v \in WalletHold
    BY <1>0, <1>3, HoldViewType DEF HoldLocked, lock_hold
  <1>5. /\ row.status = st /\ row.wallet = v.wallet /\ row.amount = v.amount /\ row # NoHold
        /\ v.status # "ACTIVE" => row = v
    BY <1>2, <1>3, <1>4 DEF WalletHold, NoHold
  <1>6. /\ hpend'[s][h] = row
        /\ \A t \in Sessions, g \in Holds : t # s \/ g # h => hpend'[t][g] = hpend[t][g]
        /\ capturing'[s] = IF st = "CAPTURED" /\ v.status = "ACTIVE" THEN {h} ELSE {}
        /\ \A t \in Sessions : t # s => capturing'[t] = capturing[t]
    BY <1>0, <1>2, <1>3 DEF TypeOK
  <1>. HIDE DEF v, row
  <1>7. ASSUME NEW x \in Wallets, NEW g \in Holds
        PROVE  Debited(ledger'[x], hold'[g], x, g)
    BY <1>1 DEF SameCommitted, CaptureInv
  <1>. SUFFICES ASSUME NEW t \in Sessions, NEW x \in Wallets, NEW g \in Holds
                PROVE  SessionCaptures(t, x, g)'
    BY <1>7 DEF CaptureInv
  <1>8. CASE t # s \/ g # h
    BY <1>1, <1>6, <1>8, SameCaptures
  <1>9. CASE t = s /\ g = h
    <2>. DEFINE l == Seen(ledger[x], pend[s][x])
    <2>1. Debited(l, v, x, h)
      BY DEF CaptureInv, SessionCaptures, Captures, v
    <2>2. Seen(ledger'[x], pend'[s][x]) = l /\ SeenHold(hold'[h], hpend'[s][h]) = row
      BY <1>1, <1>5, <1>6 DEF SameView, SeenHold
    <2>. HIDE DEF l
    <2>3. Captures(l, row, h \in capturing'[s], x, h)
      <3>1. CASE v.status = "ACTIVE" /\ st = "CAPTURED"
        BY <1>6, <2>1, <3>1 DEF Captures, Debited
      <3>2. CASE v.status = "ACTIVE" /\ st = "RELEASED"
        BY <1>5, <1>6, <2>1, <3>2 DEF Captures, Debited
      <3>3. CASE v.status # "ACTIVE"
        BY <1>5, <1>6, <2>1, <3>3 DEF Captures
      <3>. QED
        BY <3>1, <3>2, <3>3
    <2>. QED
      BY <1>9, <2>2, <2>3 DEF SessionCaptures
  <1>. QED
    BY <1>8, <1>9

\* The debit that ends a capture is the one its hold asks for.
LEMMA CaptureDebit ==
    ASSUME LockInv, CaptureInv, NEW s \in Sessions, NEW h \in Holds, NEW w \in Wallets,
           NEW e \in LedgerTransaction, Captured(s, h, w, e)
    PROVE  CaptureInv'
  <1>0. TypeOK /\ CapturingMarked
    BY DEF LockInv, TypeInv
  <1>p. Posted(s, w, e)
    BY DEF Captured
  <1>u. hold' = hold /\ hpend' = hpend
    BY <1>p DEF Posted
  <1>1. /\ SameCommitted /\ hold' = hold /\ hpend' = hpend
        /\ \A t \in Sessions, x \in Wallets : t # s \/ x # w => SameView(t, x)
        /\ Seen(ledger'[w], pend'[s][w]) = Append(Seen(ledger[w], pend[s][w]), e)
    BY <1>p, <1>u, PostedView
  <1>2. /\ capturing[s] = {h} /\ capturing'[s] = {}
        /\ \A t \in Sessions : t # s => capturing'[t] = capturing[t]
        /\ SeenHold(hold[h], hpend[s][h]) = hpend[s][h]
        /\ hpend[s][h].status = "CAPTURED" /\ hpend[s][h].wallet = w
        /\ hpend[s][h].amount = e.amount
        /\ Matches(e, "DEBIT", "WALLET_HOLD_CAPTURE", h)
    BY <1>0 DEF Captured, CapturingMarked, TypeOK, SeenHold
  <1>3. ASSUME NEW x \in Wallets, NEW g \in Holds
        PROVE  Debited(ledger'[x], hold'[g], x, g)
    BY <1>1 DEF SameCommitted, CaptureInv
  <1>. SUFFICES ASSUME NEW t \in Sessions, NEW x \in Wallets, NEW g \in Holds
                PROVE  SessionCaptures(t, x, g)'
    BY <1>3 DEF CaptureInv
  <1>4. CASE t # s
    BY <1>1, <1>2, <1>4, SameCaptures
  <1>5. CASE t = s /\ g # h
    <2>1. h # g /\ ~Matches(e, "DEBIT", "WALLET_HOLD_CAPTURE", g)
      BY <1>2, <1>5 DEF Matches
    <2>2. Seen(ledger[w], pend[s][w]) \in Seq(LedgerTransaction)
      BY ViewType
    <2>3. SessionCaptures(s, x, g) /\ g \notin capturing[s] /\ g \notin capturing'[s]
      BY <1>2, <1>5 DEF CaptureInv
    <2>4. CASE x # w
      BY <1>1, <1>5, <2>3, <2>4, SameCaptures
    <2>5. CASE x = w
      <3>. DEFINE l == Seen(ledger[w], pend[s][w])
                  v == SeenHold(hold[g], hpend[s][g])
      <3>1. Captures(l, v, FALSE, w, g) /\ l \in Seq(LedgerTransaction)
        BY <2>2, <2>3, <2>5 DEF SessionCaptures, Captures
      <3>2. /\ Seen(ledger'[w], pend'[s][w]) = Append(l, e)
            /\ SeenHold(hold'[g], hpend'[s][g]) = v
        BY <1>1
      <3>. HIDE DEF l, v
      <3>3. Captures(Append(l, e), v, FALSE, w, g)
        BY <2>1, <3>1, CapturesAppend
      <3>. QED
        BY <1>5, <2>3, <2>5, <3>2, <3>3 DEF SessionCaptures, Captures
    <2>. QED
      BY <2>4, <2>5
  <1>6. CASE t = s /\ g = h
    <2>1. CaptureRows(Seen(ledger[x], pend[s][x]), h) = {}
      BY <1>2 DEF CaptureInv, SessionCaptures, Captures
    <2>2. Debited(Seen(ledger'[x], pend'[s][x]), hpend[s][h], x, h)
      <3>1. CASE x # w
        BY <1>1, <1>2, <2>1, <3>1 DEF SameView, Debited
      <3>2. CASE x = w
        <4>. DEFINE l == Seen(ledger[w], pend[s][w])
        <4>1. l \in Seq(LedgerTransaction)
          BY ViewType
        <4>2. CaptureRows(l, h) = {}
          BY <2>1, <3>2
        <4>. HIDE DEF l
        <4>3. CaptureRows(Append(l, e), h) = {Len(l) + 1} /\ Append(l, e)[Len(l) + 1] = e
          BY <1>2, <4>1, <4>2, CaptureRowsAppend
        <4>4. Debited(Append(l, e), hpend[s][h], w, h)
          BY <1>2, <4>3 DEF Debited
        <4>. QED
          BY <1>1, <3>2, <4>4 DEF l
      <3>. QED
        BY <3>1, <3>2
    <2>3. h \notin capturing'[s] /\ SeenHold(hold'[h], hpend'[s][h]) = hpend[s][h]
      BY <1>1, <1>2
    <2>. QED
      BY <1>6, <2>2, <2>3 DEF SessionCaptures, Captures
  <1>. QED
    BY <1>4, <1>5, <1>6

\* Committing keeps the captures of every session, whether or not it sees a new row.
LEMMA CaptureCommit ==
    ASSUME LockInv, CaptureInv, NEW s \in Sessions, Commit(s)
    PROVE  CaptureInv'
  <1>0. TypeOK /\ RowLocks /\ HoldLocks /\ CapturingMarked
    BY DEF LockInv, TypeInv
  <1>1. /\ capturing[s] = {} /\ capturing'[s] = {}
        /\ \A t \in Sessions : t # s => capturing'[t] = capturing[t]
        /\ \A g \in Holds : /\ hold'[g] = SeenHold(hold[g], hpend[s][g])
                            /\ hpend'[s][g] = NoHold
        /\ \A t \in Sessions : t # s => hpend'[t] = hpend[t]
    BY <1>0 DEF Commit, Ended, HoldView, SeenHold, TypeOK
  <1>2. ASSUME NEW x \in Wallets, NEW g \in Holds
        PROVE  /\ Debited(ledger[x], hold[g], x, g)
               /\ Debited(Seen(ledger[x], pend[s][x]), hold'[g], x, g)
               /\ Debited(ledger'[x], hold'[g], x, g)
    BY <1>1, CommitView DEF CaptureInv, SessionCaptures, Captures
  <1>. SUFFICES ASSUME NEW t \in Sessions, NEW x \in Wallets, NEW g \in Holds
                PROVE  SessionCaptures(t, x, g)'
    BY <1>2 DEF CaptureInv
  <1>. DEFINE mine == Seen(ledger[x], pend[s][x])
              theirs == Seen(ledger[x], pend[t][x])
  <1>3. CASE t = s
    <2>1. SeenHold(hold'[g], hpend'[s][g]) = hold'[g] /\ g \notin capturing'[s]
      BY <1>1 DEF SeenHold
    <2>2. Seen(ledger'[x], pend'[s][x]) = mine
      BY CommitView
    <2>. QED
      BY <1>2, <1>3, <2>1, <2>2 DEF SessionCaptures, Captures
  <1>4. CASE t # s /\ hpend[t][g] = NoHold
    <2>1. /\ SeenHold(hold'[g], hpend'[t][g]) = hold'[g]
          /\ SeenHold(hold[g], hpend[t][g]) = hold[g]
          /\ g \notin capturing[t] /\ g \notin capturing'[t]
      BY <1>0, <1>1, <1>4 DEF SeenHold, CapturingMarked
    <2>2. CASE pend[s][x].locked
      <3>1. Seen(ledger'[x], pend'[t][x]) = mine
        BY <2>2, CommitView
      <3>. QED
        BY <1>2, <2>1, <3>1 DEF SessionCaptures, Captures
    <2>3. CASE ~pend[s][x].locked
      <3>1. Seen(ledger'[x], pend'[t][x]) = theirs /\ mine = ledger[x]
        BY <1>4, <2>3, CommitView, ViewType DEF SameView
      <3>2. Debited(theirs, hold[g], x, g)
        BY <2>1 DEF CaptureInv, SessionCaptures, Captures
      <3>3. Debited(ledger[x], hold[g], x, g) /\ Debited(ledger[x], hold'[g], x, g)
        BY <1>2, <3>1
      <3>4. hold[g].status = "CAPTURED" => hold'[g] = hold[g]
        BY <1>0, <1>1 DEF HoldLocks, SeenHold, NoHold
      <3>. HIDE DEF mine, theirs
      <3>5. Debited(theirs, hold'[g], x, g)
        BY <3>2, <3>3, <3>4 DEF Debited
      <3>. QED
        BY <2>1, <3>1, <3>5 DEF SessionCaptures, Captures
    <2>. QED
      BY <2>2, <2>3
  <1>5. CASE t # s /\ hpend[t][g] # NoHold
    <2>1. /\ hpend'[t][g] = hpend[t][g] /\ hold'[g] = hold[g]
          /\ capturing'[t] = capturing[t]
      BY <1>0, <1>1, <1>5 DEF HoldLocks, SeenHold
    <2>2. CASE ~pend[s][x].locked
      <3>1. SameView(t, x)
        BY <1>5, <2>2, CommitView
      <3>. QED
        BY <2>1, <3>1, SameCaptures
    <2>3. CASE pend[s][x].locked
      <3>1. Seen(ledger'[x], pend'[t][x]) = mine
        BY <2>3, CommitView
      <3>2. theirs = ledger[x]
        BY <1>0, <1>5, <2>3, ViewType DEF RowLocks
      <3>. DEFINE v == SeenHold(hold[g], hpend[t][g])
                  marked == g \in capturing[t]
      <3>3. v = hpend[t][g] /\ (hold[g].status = "CAPTURED" => v = hold[g])
        BY <1>0, <1>5 DEF HoldLocks, SeenHold, NoHold
      <3>4. /\ Captures(ledger[x], v, marked, x, g)
            /\ Debited(ledger[x], hold[g], x, g)
            /\ Debited(mine, hold[g], x, g)
        BY <1>2, <2>1, <3>2 DEF CaptureInv, SessionCaptures
      <3>5. SeenHold(hold'[g], hpend'[t][g]) = v /\ (g \in capturing'[t]) = marked
        BY <2>1
      <3>. HIDE DEF mine, theirs, v, marked
      <3>6. Captures(mine, v, marked, x, g)
        <4>1. CASE marked
          BY <3>4, <4>1 DEF Captures, Debited
        <4>2. CASE ~marked
          <5>1. Debited(ledger[x], v, x, g)
            BY <3>4, <4>2 DEF Captures
          <5>2. Debited(mine, v, x, g)
            BY <3>3, <3>4, <5>1 DEF Debited
          <5>. QED
            BY <4>2, <5>2 DEF Captures
        <4>. QED
          BY <4>1, <4>2
      <3>. QED
        BY <3>1, <3>5, <3>6 DEF SessionCaptures
    <2>. QED
      BY <2>2, <2>3
  <1>. QED
    BY <1>3, <1>4, <1>5

\* Rolling back returns the session to the committed captures.
LEMMA CaptureRollback ==
    ASSUME LockInv, CaptureInv, NEW s \in Sessions, Rollback(s)
    PROVE  CaptureInv'
  <1>1. /\ hold' = hold /\ capturing'[s] = {}
        /\ \A t \in Sessions : t # s => capturing'[t] = capturing[t] /\ hpend'[t] = hpend[t]
        /\ \A g \in Holds : hpend'[s][g] = NoHold
    BY DEF Rollback, Ended, LockInv, TypeInv, TypeOK
  <1>2. ASSUME NEW x \in Wallets, NEW g \in Holds
        PROVE  Debited(ledger'[x], hold'[g], x, g)
    BY <1>1, RollbackView DEF SameCommitted, CaptureInv
  <1>. SUFFICES ASSUME NEW t \in Sessions, NEW x \in Wallets, NEW g \in Holds
                PROVE  SessionCaptures(t, x, g)'
    BY <1>2 DEF CaptureInv
  <1>3. CASE t # s
    BY <1>1, <1>3, RollbackView, SameCaptures
  <1>4. CASE t = s
    <2>1. SeenHold(hold'[g], hpend'[s][g]) = hold[g] /\ g \notin capturing'[s]
      BY <1>1 DEF SeenHold
    <2>2. Seen(ledger'[x], pend'[s][x]) = ledger[x]
      BY RollbackView
    <2>. QED
      BY <1>4, <2>1, <2>2 DEF SessionCaptures, Captures, CaptureInv
  <1>. QED
    BY <1>3, <1>4

\* The captures hold in every reachable state.
LEMMA CapturesHold == Spec => []CaptureInv
  <1>1. Init => CaptureInv
    <2>1. <<>> \o <<>> = <<>>
      OBVIOUS
    <2>2. \A w, h : Debited(<<>>, NoHold, w, h)
      BY DEF Debited, CaptureRows, NoHold
    <2>3. Init => /\ \A w \in Wallets : ledger[w] = <<>>
                  /\ \A h \in Holds : hold[h] = NoHold
                  /\ \A s \in Sessions, w \in Wallets : Seen(ledger[w], pend[s][w]) = <<>>
                  /\ \A s \in Sessions, h \in Holds :
                        SeenHold(hold[h], hpend[s][h]) = NoHold /\ h \notin capturing[s]
      BY <2>1 DEF Init, Seen, SeenHold, NotLocked
    <2>. QED
      BY <2>2, <2>3 DEF CaptureInv, SessionCaptures, Captures
  <1>2. LockInv /\ CaptureInv /\ [Next]_vars => CaptureInv'
    <2>1. CaptureInv /\ UNCHANGED vars => CaptureInv'
      BY DEF vars, CaptureInv, SessionCaptures
    <2>2. LockInv => TypeInv
      BY DEF LockInv
    <2>3. ASSUME LockInv, CaptureInv, NEW s \in Sessions, StepShape(s)
          PROVE  CaptureInv'
      BY <2>3, CaptureCall, CaptureHold, CaptureDebit, CaptureCommit, CaptureRollback DEF StepShape
    <2>. QED
      BY <2>1, <2>2, <2>3, StepShapes DEF Next
  <1>. QED
    BY <1>1, <1>2, LocksExclusive, PTL DEF Spec

\* A hold is CAPTURED exactly when its wallet has the one debit of its amount, for any
\* number of sessions, wallets and holds: capture never finds its debit missing.
THEOREM HoldCaptureDebited == Spec => []CapturedIffDebited
  <1>1. CaptureInv => CapturedIffDebited
    BY DEF CaptureInv, Debited, CapturedIffDebited
  <1>. QED
    BY <1>1, CapturesHold, PTL

-----------------------------------------------------------------------------
(***************************************************************************)
(* Every reference is posted at most once.                                 *)
(***************************************************************************)

DistinctInv ==
    \A w \in Wallets :
        /\ Distinct(ledger[w])
        /\ \A s \in Sessions : Distinct(Seen(ledger[w], pend[s][w]))

\* A row that no earlier row matches keeps the rows distinct.
LEMMA DistinctAppend ==
    ASSUME NEW l \in Seq(LedgerTransaction), NEW e \in LedgerTransaction, Distinct(l),
           Indexed(e) => \A i \in DOMAIN l :
               ~Matches(l[i], e.transaction_type, e.reference_type, e.reference_id)
    PROVE  Distinct(Append(l, e))
  <1>. DEFINE m == Append(l, e)
              same(i, j) == Matches(m[i], m[j].transaction_type, m[j].reference_type,
                                    m[j].reference_id)
  <1>1. /\ Len(l) \in Nat /\ DOMAIN l = 1 .. Len(l)
        /\ DOMAIN m = 1 .. (Len(l) + 1)
        /\ \A i \in 1 .. Len(l) : m[i] = l[i]
        /\ m[Len(l) + 1] = e
    OBVIOUS
  <1>. HIDE DEF m
  <1>2. SUFFICES ASSUME NEW i \in DOMAIN m, NEW j \in DOMAIN m, Indexed(m[i]), same(i, j)
                 PROVE  i = j
    BY DEF Distinct, m
  <1>3. same(j, i) /\ Indexed(m[j])
    BY <1>2 DEF Matches, Indexed
  <1>4. CASE i \in 1 .. Len(l) /\ j \in 1 .. Len(l)
    BY <1>1, <1>2, <1>4 DEF Distinct
  <1>5. CASE i \in 1 .. Len(l) /\ j = Len(l) + 1
    BY <1>1, <1>2, <1>3, <1>5
  <1>6. CASE j \in 1 .. Len(l) /\ i = Len(l) + 1
    BY <1>1, <1>2, <1>3, <1>6
  <1>. QED
    BY <1>1, <1>2, <1>4, <1>5, <1>6

\* The lookup of a guarded call covers every row of the view of its session.
LEMMA LookupComplete ==
    ASSUME LockInv, NEW s \in Sessions, NEW w \in Wallets, NEW ty, NEW rt, NEW rid,
           ~Existing(s, w, ty, rt, rid)
    PROVE  \A i \in DOMAIN Seen(ledger[w], pend[s][w]) :
               ~Matches(Seen(ledger[w], pend[s][w])[i], ty, rt, rid)
  <1>. DEFINE l == ledger[w]
              r == Locked(s, w).rows
  <1>1. /\ l \in Seq(LedgerTransaction) /\ r \in Seq(LedgerTransaction)
        /\ Seen(ledger[w], pend[s][w]) = l \o r
    BY ViewType, LockedType DEF LockInv, TypeInv, PendingRow
  <1>2. /\ \A i \in DOMAIN l : ~Matches(l[i], ty, rt, rid)
        /\ \A i \in DOMAIN r : ~Matches(r[i], ty, rt, rid)
    BY DEF Existing
  <1>. HIDE DEF l, r
  <1>3. /\ DOMAIN (l \o r) = 1 .. (Len(l) + Len(r))
        /\ \A i \in 1 .. (Len(l) + Len(r)) :
             (l \o r)[i] = IF i <= Len(l) THEN l[i] ELSE r[i - Len(l)]
        /\ DOMAIN l = 1 .. Len(l) /\ DOMAIN r = 1 .. Len(r)
        /\ Len(l) \in Nat /\ Len(r) \in Nat
    BY <1>1, ConcatProperties, LenProperties
  <1>4. ASSUME NEW i \in 1 .. (Len(l) + Len(r))
        PROVE  ~Matches((l \o r)[i], ty, rt, rid)
    <2>1. CASE i <= Len(l)
      <3>1. i \in DOMAIN l /\ (l \o r)[i] = l[i]
        BY <1>3, <2>1
      <3>. QED
        BY <1>2, <3>1
    <2>2. CASE ~(i <= Len(l))
      <3>1. i - Len(l) \in DOMAIN r /\ (l \o r)[i] = r[i - Len(l)]
        BY <1>3, <2>2
      <3>. QED
        BY <1>2, <3>1
    <2>. QED
      BY <2>1, <2>2
  <1>. QED
    BY <1>1, <1>3, <1>4

\* Posting a row that the view of the session does not have keeps the rows distinct.
LEMMA DistinctPosted ==
    ASSUME LockInv, DistinctInv, NEW s \in Sessions, NEW w \in Wallets,
           NEW e \in LedgerTransaction, Posted(s, w, e),
           Indexed(e) => \A i \in DOMAIN Seen(ledger[w], pend[s][w]) :
               ~Matches(Seen(ledger[w], pend[s][w])[i],
                        e.transaction_type, e.reference_type, e.reference_id)
    PROVE  DistinctInv'
  <1>. DEFINE l == Seen(ledger[w], pend[s][w])
  <1>1. l \in Seq(LedgerTransaction) /\ Distinct(l)
    BY ViewType DEF DistinctInv
  <1>2. Distinct(Append(l, e))
    BY <1>1, DistinctAppend
  <1>3. /\ \A t \in Sessions, x \in Wallets : t # s \/ x # w => SameView(t, x)
        /\ Seen(ledger'[w], pend'[s][w]) = Append(l, e)
        /\ SameCommitted
    BY PostedView
  <1>. HIDE DEF l
  <1>. QED
    BY <1>2, <1>3 DEF DistinctInv, SameView, SameCommitted

\* Each shape keeps the rows distinct.
LEMMA DistinctStep ==
    ASSUME LockInv, CaptureInv, DistinctInv, NEW s \in Sessions, StepShape(s)
    PROVE  DistinctInv'
  <1>1. ASSUME SameCommitted, \A t \in Sessions, x \in Wallets : SameView(t, x)
        PROVE  DistinctInv'
    BY <1>1 DEF SameCommitted, SameView, DistinctInv
  <1>2. ASSUME NEW w \in Wallets, NEW e \in LedgerTransaction, Posted(s, w, e), Guarded(s, w, e)
        PROVE  DistinctInv'
    <2>1. Indexed(e) => ~Existing(s, w, e.transaction_type, e.reference_type, e.reference_id)
      BY <1>2 DEF Guarded
    <2>2. Indexed(e) => \A i \in DOMAIN Seen(ledger[w], pend[s][w]) :
               ~Matches(Seen(ledger[w], pend[s][w])[i],
                        e.transaction_type, e.reference_type, e.reference_id)
      BY <2>1, LookupComplete
    <2>. QED
      BY <1>2, <2>2, DistinctPosted
  <1>3. ASSUME NEW w \in Wallets, CallShape(s, w)
        PROVE  DistinctInv'
    BY <1>1, <1>2, <1>3, HeldView, CreatedView DEF CallShape
  <1>4. ASSUME NEW h \in Holds, HoldLocked(s, h)
        PROVE  DistinctInv'
    BY <1>1, <1>4, HoldLockedView
  <1>5. ASSUME NEW h \in Holds, NEW w \in Wallets, NEW e \in LedgerTransaction,
               Captured(s, h, w, e)
        PROVE  DistinctInv'
    <2>1. CaptureRows(Seen(ledger[w], pend[s][w]), h) = {}
      BY <1>5 DEF Captured, CaptureInv, SessionCaptures, Captures
    <2>2. /\ e.transaction_type = "DEBIT" /\ e.reference_type = "WALLET_HOLD_CAPTURE"
          /\ e.reference_id = h /\ Posted(s, w, e)
      BY <1>5 DEF Captured, Matches
    <2>3. \A i \in DOMAIN Seen(ledger[w], pend[s][w]) :
               ~Matches(Seen(ledger[w], pend[s][w])[i],
                        e.transaction_type, e.reference_type, e.reference_id)
      BY <2>1, <2>2 DEF CaptureRows
    <2>. QED
      BY <2>2, <2>3, DistinctPosted
  <1>6. CASE Commit(s)
    BY <1>6, CommitView DEF DistinctInv, SameView
  <1>7. CASE Rollback(s)
    BY <1>7, RollbackView DEF DistinctInv, SameView, SameCommitted
  <1>. QED
    BY <1>3, <1>4, <1>5, <1>6, <1>7 DEF StepShape

\* A payment, reversal, deposit, refund or captured hold has at most one row per wallet in
\* what any session commits: the lookup under the row lock is enough, and no commit is
\* refused by a unique index of ledger_transactions.
THEOREM PostedOnce == Spec => []PostedAtMostOnce
  <1>1. Init => DistinctInv
    <2>1. <<>> \o <<>> = <<>> /\ Distinct(<<>>)
      BY DEF Distinct
    <2>. QED
      BY <2>1 DEF Init, DistinctInv, Seen, NotLocked
  <1>2. LockInv /\ CaptureInv /\ DistinctInv /\ [Next]_vars => DistinctInv'
    <2>1. DistinctInv /\ UNCHANGED vars => DistinctInv'
      BY DEF vars, DistinctInv
    <2>2. LockInv => TypeInv
      BY DEF LockInv
    <2>. QED
      BY <2>1, <2>2, StepShapes, DistinctStep DEF Next
  <1>3. DistinctInv => PostedAtMostOnce
    BY DEF DistinctInv, PostedAtMostOnce, Seen
  <1>. QED
    BY <1>1, <1>2, <1>3, LocksExclusive, CapturesHold, PTL DEF Spec

-----------------------------------------------------------------------------
(***************************************************************************)
(* A hold ends once.                                                       *)
(***************************************************************************)

\* A hold that is CAPTURED or RELEASED stays so, and keeps its wallet and its amount:
\* capture and release work on the row they have locked.
THEOREM HoldEnds == Spec => HoldEndsOnce
  <1>. DEFINE A == \A h \in Holds : hold[h] # NoHold =>
                      /\ hold[h].status # "ACTIVE" => hold'[h] = hold[h]
                      /\ hold'[h] # NoHold
                      /\ hold'[h].wallet = hold[h].wallet
                      /\ hold'[h].amount = hold[h].amount
  <1>1. LockInv /\ [Next]_vars => [A]_vars
    <2>. SUFFICES ASSUME LockInv, NEW s \in Sessions, Step(s)
                  PROVE  A
      BY DEF Next
    <2>1. StepShape(s)
      BY StepShapes DEF LockInv
    <2>2. CASE Commit(s)
      BY <2>2 DEF Commit, HoldView, LockInv, HoldLocks
    <2>3. CASE hold' = hold
      BY <2>3
    <2>4. Commit(s) \/ hold' = hold
      BY <2>1 DEF StepShape, CallShape, Held, Created, hvars, Posted, HoldLocked, Captured, Rollback
    <2>. QED
      BY <2>2, <2>3, <2>4
  <1>. QED
    BY <1>1, LocksExclusive, PTL DEF Spec, HoldEndsOnce

-----------------------------------------------------------------------------
(***************************************************************************)
(* The active holds are funded.                                            *)
(***************************************************************************)

SeenHolds(c, p) == [h \in Holds |-> SeenHold(c[h], p[h])]

Funded(l, v, b, w) == HoldAware(l) => Cardinality(HeldUnits(v, w)) <= b

SessionFunded(s, w) ==
    Funded(Seen(ledger[w], pend[s][w]), SeenHolds(hold, hpend[s]),
           Bal(wallet[w], pend[s][w]), w)

FundInv ==
    \A w \in Wallets :
        /\ Funded(ledger[w], hold, wallet[w].balance, w)
        /\ \A s \in Sessions : SessionFunded(s, w)

\* The active holds of u on w are active holds of v.
Fewer(u, v, w) ==
    \A h \in Holds : u[h].status = "ACTIVE" /\ u[h].wallet = w => u[h] = v[h]

\* Fewer active holds reserve less.
LEMMA HeldFewer ==
    ASSUME NEW u, NEW v, NEW w, Fewer(u, v, w)
    PROVE  Cardinality(HeldUnits(u, w)) <= Cardinality(HeldUnits(v, w))
  <1>1. HeldUnits(u, w) \in SUBSET HeldUnits(v, w)
    BY DEF Fewer, HeldUnits
  <1>2. IsFiniteSet(HeldUnits(v, w))
    BY HeldUnitsFinite
  <1>. QED
    BY <1>1, <1>2, FS_Subset

\* One more active hold reserves its amount more.
LEMMA HeldOneMore ==
    ASSUME NEW u, NEW v, NEW w, NEW h \in Holds, NEW amt \in Amounts,
           u[h].amount = amt, \A g \in Holds : g # h => u[g] = v[g]
    PROVE  Cardinality(HeldUnits(u, w)) <= Cardinality(HeldUnits(v, w)) + amt
  <1>. DEFINE old == HeldUnits(v, w)
              new == {h} \X (1 .. amt)
  <1>0. amt \in Nat /\ amt > 0
    BY AmountsPositive
  <1>1. IsFiniteSet(1 .. amt) /\ Cardinality(1 .. amt) = amt
    BY <1>0, FS_Interval
  <1>2. IsFiniteSet({h}) /\ Cardinality({h}) = 1
    BY FS_Singleton
  <1>3. IsFiniteSet(new) /\ Cardinality(new) = amt
    <2>1. IsFiniteSet(new) /\ Cardinality(new) = Cardinality({h}) * Cardinality(1 .. amt)
      BY <1>1, <1>2, FS_Product, Zenon
    <2>. QED
      BY <1>0, <1>1, <1>2, <2>1
  <1>4. IsFiniteSet(old) /\ Cardinality(old) \in Nat
    BY HeldUnitsFinite
  <1>5. HeldUnits(u, w) \in SUBSET (old \cup new)
    BY <1>0 DEF HeldUnits
  <1>. HIDE DEF old, new
  <1>6. /\ IsFiniteSet(old \cup new)
        /\ Cardinality(old \cup new) = Cardinality(old) + Cardinality(new) - Cardinality(old \cap new)
    BY <1>3, <1>4, FS_Union
  <1>7. Cardinality(old \cap new) \in Nat
    BY <1>4, FS_Intersection, FS_CardinalityType
  <1>8. Cardinality(HeldUnits(u, w)) <= Cardinality(old \cup new)
    BY <1>5, <1>6, FS_Subset
  <1>9. Cardinality(HeldUnits(u, w)) \in Nat
    BY HeldUnitsFinite
  <1>. QED
    BY <1>0, <1>3, <1>4, <1>6, <1>7, <1>8, <1>9 DEF old

\* Less reserved with the same rows and balance stays funded.
LEMMA FundedFewer ==
    ASSUME NEW l, NEW u, NEW v, NEW b \in Int, NEW w, Funded(l, v, b, w), Fewer(u, v, w)
    PROVE  Funded(l, u, b, w)
  <1>1. Cardinality(HeldUnits(u, w)) <= Cardinality(HeldUnits(v, w))
    BY HeldFewer
  <1>2. Cardinality(HeldUnits(u, w)) \in Nat /\ Cardinality(HeldUnits(v, w)) \in Nat
    BY HeldUnitsFinite
  <1>. QED
    BY <1>1, <1>2 DEF Funded

\* active_total sums the holds that the session sees.
LEMMA ActiveTotalSeen ==
    ASSUME NEW s \in Sessions, NEW w \in Wallets
    PROVE  active_total(s, w) = Cardinality(HeldUnits(SeenHolds(hold, hpend[s]), w))
  BY DEF active_total, SeenHolds, SeenHold, HoldView

\* The ledger of l and one more row is aware of holds only if l is.
LEMMA HoldAwareAppend ==
    ASSUME NEW l \in Seq(LedgerTransaction), NEW e \in LedgerTransaction, HoldAware(Append(l, e))
    PROVE  /\ HoldAware(l)
           /\ e.reference_type \notin {"WALLET_TOPUP_REVERSAL", "MANUAL_ADJUSTMENT"}
  <1>. DEFINE m == Append(l, e)
  <1>1. /\ Len(l) \in Nat /\ DOMAIN l = 1 .. Len(l)
        /\ DOMAIN m = 1 .. (Len(l) + 1)
        /\ \A i \in 1 .. Len(l) : m[i] = l[i]
        /\ m[Len(l) + 1] = e
    OBVIOUS
  <1>. HIDE DEF m
  <1>2. HoldAware(m)
    BY DEF m
  <1>. QED
    BY <1>1, <1>2 DEF HoldAware

\* Posting keeps the holds funded: a credit adds to the balance, a debit leaves the total.
LEMMA FundPosted ==
    ASSUME LockInv, FundInv, NEW s \in Sessions, NEW w \in Wallets,
           NEW e \in LedgerTransaction, Posted(s, w, e),
           Guarded(s, w, e) \/ e.balance_after >= active_total(s, w)
    PROVE  FundInv'
  <1>. DEFINE l == Seen(ledger[w], pend[s][w])
              b == Bal(wallet[w], pend[s][w])
              total == Cardinality(HeldUnits(SeenHolds(hold, hpend[s]), w))
  <1>1. l \in Seq(LedgerTransaction) /\ b \in Int /\ e.balance_before = b
    BY ViewType DEF Posted
  <1>2. total \in Nat /\ active_total(s, w) = total
    BY HeldUnitsFinite, ActiveTotalSeen
  <1>3. HoldAware(l) => total <= b
    BY DEF FundInv, SessionFunded, Funded
  <1>4. /\ \A t \in Sessions, x \in Wallets : t # s \/ x # w => SameView(t, x)
        /\ Seen(ledger'[w], pend'[s][w]) = Append(l, e)
        /\ Bal(wallet'[w], pend'[s][w]) = e.balance_after
        /\ SameCommitted
    BY PostedView
  <1>5. hold' = hold /\ hpend' = hpend
    BY DEF Posted
  <1>. HIDE DEF l, b, total
  <1>6. ASSUME HoldAware(Append(l, e))
        PROVE  total <= e.balance_after
    <2>1. HoldAware(l) /\ e.reference_type \notin {"WALLET_TOPUP_REVERSAL", "MANUAL_ADJUSTMENT"}
      BY <1>1, <1>6, HoldAwareAppend
    <2>2. CASE e.transaction_type \in {"CREDIT", "REFUND"}
      <3>1. e.balance_after = e.balance_before + e.amount
        BY <2>2 DEF Posted, Applied
      <3>2. e.amount \in Nat
        BY DEF LedgerTransaction
      <3>. QED
        BY <1>1, <1>2, <1>3, <2>1, <3>1, <3>2
    <2>3. CASE e.balance_after >= active_total(s, w)
      <3>1. e.balance_after \in Int
        BY DEF LedgerTransaction
      <3>. QED
        BY <1>2, <2>3, <3>1
    <2>. QED
      BY <2>1, <2>2, <2>3 DEF Guarded
  <1>7. Funded(Append(l, e), SeenHolds(hold, hpend[s]), e.balance_after, w)
    BY <1>6 DEF Funded, total
  <1>. SUFFICES ASSUME NEW x \in Wallets, NEW t \in Sessions
                PROVE  Funded(ledger'[x], hold', wallet'[x].balance, x) /\ SessionFunded(t, x)'
    BY DEF FundInv
  <1>8. CASE t = s /\ x = w
    BY <1>4, <1>5, <1>7, <1>8 DEF FundInv, SessionFunded, SameCommitted
  <1>9. CASE t # s \/ x # w
    BY <1>4, <1>5, <1>9 DEF FundInv, SessionFunded, SameCommitted, SameView
  <1>. QED
    BY <1>8, <1>9

\* Ledger calls keep the holds funded.
LEMMA FundCall ==
    ASSUME LockInv, FundInv, NEW s \in Sessions, NEW w \in Wallets, CallShape(s, w)
    PROVE  FundInv'
  <1>1. CASE (Held(s, w) \/ Created(s, w)) /\ UNCHANGED <<hpend, capturing>>
    <2>1. hold' = hold /\ hpend' = hpend
      BY <1>1 DEF Held, Created, hvars
    <2>2. SameCommitted /\ \A t \in Sessions, x \in Wallets : SameView(t, x)
      BY <1>1, HeldView, CreatedView
    <2>. QED
      BY <2>1, <2>2 DEF FundInv, SessionFunded, SameCommitted, SameView
  <1>2. ASSUME NEW h \in Holds, NEW amt \in Amounts, Held(s, w), Inserted(s, w, h, amt)
        PROVE  FundInv'
    <2>. DEFINE row == [status |-> "ACTIVE", wallet |-> w, amount |-> amt]
                v == SeenHolds(hold, hpend[s])
                u == SeenHolds(hold', hpend'[s])
    <2>1. hold' = hold
      BY <1>2 DEF Held
    <2>2. SameCommitted /\ \A t \in Sessions, x \in Wallets : SameView(t, x)
      BY <1>2, HeldView
    <2>3. /\ hpend'[s][h] = row
          /\ \A t \in Sessions : t # s => hpend'[t] = hpend[t]
          /\ \A g \in Holds : g # h => hpend'[s][g] = hpend[s][g]
      BY <1>2 DEF Inserted, LockInv, TypeInv, TypeOK
    <2>4. row # NoHold /\ row.amount = amt /\ row.wallet = w
      BY DEF NoHold
    <2>5. u[h] = row /\ \A g \in Holds : g # h => u[g] = v[g]
      BY <2>1, <2>3, <2>4 DEF SeenHolds, SeenHold
    <2>6. Bal(wallet[w], pend[s][w]) - Cardinality(HeldUnits(v, w)) >= amt
      BY <1>2, ViewType, ActiveTotalSeen DEF Inserted
    <2>. HIDE DEF row, u, v
    <2>7. Cardinality(HeldUnits(u, w)) <= Cardinality(HeldUnits(v, w)) + amt
      BY <2>4, <2>5, HeldOneMore
    <2>8. Cardinality(HeldUnits(u, w)) <= Bal(wallet[w], pend[s][w])
      <3>1. /\ Cardinality(HeldUnits(u, w)) \in Nat /\ Cardinality(HeldUnits(v, w)) \in Nat
            /\ amt \in Nat /\ Bal(wallet[w], pend[s][w]) \in Int
        BY HeldUnitsFinite, AmountsPositive, ViewType
      <3>. QED
        BY <2>6, <2>7, <3>1
    <2>9. ASSUME NEW x \in Wallets, x # w
          PROVE  Fewer(u, v, x)
      BY <2>4, <2>5, <2>9 DEF Fewer
    <2>. SUFFICES ASSUME NEW x \in Wallets, NEW t \in Sessions
                  PROVE  Funded(ledger'[x], hold', wallet'[x].balance, x) /\ SessionFunded(t, x)'
      BY DEF FundInv
    <2>10. Funded(ledger'[x], hold', wallet'[x].balance, x)
      BY <2>1, <2>2 DEF FundInv, SameCommitted
    <2>11. CASE t # s
      BY <2>1, <2>2, <2>3, <2>10, <2>11 DEF FundInv, SessionFunded, SameView
    <2>12. CASE t = s /\ x = w
      BY <2>2, <2>8, <2>10, <2>12 DEF SessionFunded, Funded, SameView, u
    <2>13. CASE t = s /\ x # w
      <3>1. Funded(Seen(ledger[x], pend[s][x]), v, Bal(wallet[x], pend[s][x]), x)
        BY DEF FundInv, SessionFunded, v
      <3>2. Funded(Seen(ledger[x], pend[s][x]), u, Bal(wallet[x], pend[s][x]), x)
        BY <2>9, <2>13, <3>1, FundedFewer, ViewType
      <3>. QED
        BY <2>2, <2>10, <2>13, <3>2 DEF SessionFunded, SameView, u
    <2>. QED
      BY <2>11, <2>12, <2>13
  <1>. QED
    BY <1>1, <1>2, FundPosted DEF CallShape, Created, hvars

\* Locking or ending a hold frees funds, or leaves them reserved.
LEMMA FundHold ==
    ASSUME LockInv, FundInv, NEW s \in Sessions, NEW h \in Holds, HoldLocked(s, h)
    PROVE  FundInv'
  <1>. DEFINE v == SeenHolds(hold, hpend[s])
              u == SeenHolds(hold', hpend'[s])
  <1>1. /\ SameCommitted /\ \A t \in Sessions, x \in Wallets : SameView(t, x)
    BY HoldLockedView
  <1>2. PICK st \in {"CAPTURED", "RELEASED"} :
          hpend' = [hpend EXCEPT ![s][h] = [HoldView(s, h) EXCEPT !.status = st]]
    BY DEF HoldLocked
  <1>3. HoldView(s, h) \in WalletHold /\ hold' = hold
    BY HoldViewType DEF HoldLocked, lock_hold, LockInv, TypeInv
  <1>4. /\ hpend'[s][h] # NoHold /\ hpend'[s][h].status = st
        /\ \A t \in Sessions : t # s => hpend'[t] = hpend[t]
        /\ \A g \in Holds : g # h => hpend'[s][g] = hpend[s][g]
    BY <1>2, <1>3 DEF WalletHold, NoHold, LockInv, TypeInv, TypeOK
  <1>5. u[h].status # "ACTIVE" /\ \A g \in Holds : g # h => u[g] = v[g]
    BY <1>3, <1>4 DEF SeenHolds, SeenHold
  <1>. HIDE DEF u, v
  <1>. SUFFICES ASSUME NEW x \in Wallets, NEW t \in Sessions
                PROVE  Funded(ledger'[x], hold', wallet'[x].balance, x) /\ SessionFunded(t, x)'
    BY DEF FundInv
  <1>6. Funded(ledger'[x], hold', wallet'[x].balance, x)
    BY <1>1, <1>3 DEF FundInv, SameCommitted
  <1>7. CASE t # s
    BY <1>1, <1>3, <1>4, <1>6, <1>7 DEF FundInv, SessionFunded, SameView
  <1>8. CASE t = s
    <2>1. Fewer(u, v, x)
      BY <1>5 DEF Fewer
    <2>2. Funded(Seen(ledger[x], pend[s][x]), v, Bal(wallet[x], pend[s][x]), x)
      BY DEF FundInv, SessionFunded, v
    <2>3. Funded(Seen(ledger[x], pend[s][x]), u, Bal(wallet[x], pend[s][x]), x)
      BY <2>1, <2>2, FundedFewer, ViewType
    <2>. QED
      BY <1>1, <1>6, <1>8, <2>3 DEF SessionFunded, SameView, u
  <1>. QED
    BY <1>7, <1>8

\* Committing keeps the holds funded: a session without the lock of a wallet has no new
\* hold on it, neither the one that commits nor the ones that see the commit.
LEMMA FundCommit ==
    ASSUME LockInv, FundInv, NEW s \in Sessions, Commit(s)
    PROVE  FundInv'
  <1>0. TypeOK /\ RowLocks /\ HoldLocks
    BY DEF LockInv, TypeInv
  <1>1. /\ hold' = SeenHolds(hold, hpend[s])
        /\ \A g \in Holds : hold'[g] = SeenHold(hold[g], hpend[s][g]) /\ hpend'[s][g] = NoHold
        /\ \A t \in Sessions : t # s => hpend'[t] = hpend[t]
    BY <1>0 DEF Commit, Ended, HoldView, SeenHold, SeenHolds, TypeOK
  <1>. SUFFICES ASSUME NEW x \in Wallets, NEW t \in Sessions
                PROVE  Funded(ledger'[x], hold', wallet'[x].balance, x) /\ SessionFunded(t, x)'
    BY DEF FundInv
  <1>. DEFINE l == Seen(ledger[x], pend[s][x])
              b == Bal(wallet[x], pend[s][x])
              v == SeenHolds(hold, hpend[t])
              u == SeenHolds(hold', hpend'[t])
  <1>2. ledger'[x] = l /\ wallet'[x].balance = b /\ b \in Int
    BY CommitView, ViewType
  <1>3. Funded(l, hold', b, x)
    BY <1>1 DEF FundInv, SessionFunded
  <1>4. \A g \in Holds : /\ u[g] = SeenHold(hold'[g], hpend'[t][g])
                         /\ v[g] = SeenHold(hold[g], hpend[t][g])
    BY DEF SeenHolds
  <1>5. \A r \in Sessions, g \in Holds :
           hpend[r][g] # NoHold /\ hpend[r][g].status = "ACTIVE" /\ hpend[r][g].wallet = x
           => pend[r][x].locked
    BY <1>0 DEF HoldLocks
  <1>6. CASE t = s \/ pend[s][x].locked
    <2>1. Seen(ledger'[x], pend'[t][x]) = l /\ Bal(wallet'[x], pend'[t][x]) = b
      BY <1>6, CommitView
    <2>2. Fewer(u, hold', x)
      <3>1. t # s => ~pend[t][x].locked
        BY <1>0, <1>6 DEF RowLocks
      <3>. HIDE DEF u
      <3>. QED
        BY <1>1, <1>4, <1>5, <3>1 DEF Fewer, SeenHold
    <2>. HIDE DEF l, b, u
    <2>3. Funded(l, u, b, x)
      BY <1>2, <1>3, <2>2, FundedFewer
    <2>. QED
      BY <1>2, <1>3, <2>1, <2>3 DEF SessionFunded, u
  <1>7. CASE t # s /\ ~pend[s][x].locked
    <2>1. SameView(t, x)
      BY <1>7, CommitView
    <2>2. Fewer(u, v, x)
      <3>. HIDE DEF u, v
      <3>. QED
        BY <1>1, <1>4, <1>5, <1>7 DEF Fewer, SeenHold
    <2>3. Funded(Seen(ledger[x], pend[t][x]), v, Bal(wallet[x], pend[t][x]), x)
      BY DEF FundInv, SessionFunded
    <2>. HIDE DEF l, b, u, v
    <2>4. Funded(Seen(ledger[x], pend[t][x]), u, Bal(wallet[x], pend[t][x]), x)
      BY <2>2, <2>3, FundedFewer, ViewType
    <2>. QED
      BY <1>2, <1>3, <2>1, <2>4 DEF SessionFunded, SameView, u
  <1>. QED
    BY <1>6, <1>7

\* Rolling back returns the session to the committed holds.
LEMMA FundRollback ==
    ASSUME LockInv, FundInv, NEW s \in Sessions, Rollback(s)
    PROVE  FundInv'
  <1>1. /\ hold' = hold
        /\ \A g \in Holds : hpend'[s][g] = NoHold
        /\ \A t \in Sessions : t # s => hpend'[t] = hpend[t]
    BY DEF Rollback, Ended, LockInv, TypeInv, TypeOK
  <1>. SUFFICES ASSUME NEW x \in Wallets, NEW t \in Sessions
                PROVE  Funded(ledger'[x], hold', wallet'[x].balance, x) /\ SessionFunded(t, x)'
    BY DEF FundInv
  <1>2. /\ ledger'[x] = ledger[x] /\ wallet'[x].balance = wallet[x].balance
        /\ Funded(ledger[x], hold, wallet[x].balance, x)
        /\ wallet[x].balance \in Int
    BY RollbackView, ViewType DEF FundInv, SameCommitted
  <1>3. CASE t # s
    BY <1>1, <1>2, <1>3, RollbackView DEF FundInv, SessionFunded, SameView
  <1>4. CASE t = s
    <2>. DEFINE u == SeenHolds(hold', hpend'[s])
    <2>1. Fewer(u, hold, x)
      BY <1>1 DEF Fewer, SeenHolds, SeenHold
    <2>. HIDE DEF u
    <2>2. Funded(ledger[x], u, wallet[x].balance, x)
      BY <1>2, <2>1, FundedFewer
    <2>3. /\ Seen(ledger'[x], pend'[s][x]) = ledger[x]
          /\ Bal(wallet'[x], pend'[s][x]) = wallet[x].balance
      BY RollbackView
    <2>. QED
      BY <1>1, <1>2, <1>4, <2>2, <2>3 DEF SessionFunded, u
  <1>. QED
    BY <1>3, <1>4

\* No wallet starts with a reservation.
LEMMA FundInit ==
    ASSUME Init
    PROVE  FundInv
  <1>1. ASSUME NEW v, \A h \in Holds : v[h] = NoHold, NEW w
        PROVE  Cardinality(HeldUnits(v, w)) = 0
    <2>1. HeldUnits(v, w) = {}
      BY <1>1 DEF HeldUnits, NoHold
    <2>. QED
      BY <2>1, FS_EmptySet
  <1>2. ASSUME NEW w \in Wallets, NEW s \in Sessions
        PROVE  Cardinality(HeldUnits(SeenHolds(hold, hpend[s]), w)) = 0
               /\ Bal(wallet[w], pend[s][w]) = 0
    <2>1. \A h \in Holds : SeenHolds(hold, hpend[s])[h] = NoHold
      BY DEF Init, SeenHolds, SeenHold
    <2>2. Bal(wallet[w], pend[s][w]) = 0
      BY DEF Init, Bal, NotLocked
    <2>. QED
      BY <1>1, <2>1, <2>2
  <1>3. ASSUME NEW w \in Wallets
        PROVE  Cardinality(HeldUnits(hold, w)) = 0 /\ wallet[w].balance = 0
    <2>1. \A h \in Holds : hold[h] = NoHold
      BY DEF Init
    <2>2. wallet[w].balance = 0
      BY DEF Init
    <2>. QED
      BY <1>1, <2>1, <2>2
  <1>. QED
    BY <1>2, <1>3 DEF FundInv, SessionFunded, Funded

\* The active holds of a wallet never reserve more than its balance, as long as no top-up
\* reversal and no manual adjustment has touched it: the sum under the row lock is enough
\* for reserve, debit and capture, for any number of sessions.
THEOREM HoldsFunded == Spec => []HoldsStayFunded
  <1>1. LockInv /\ FundInv /\ [Next]_vars => FundInv'
    <2>1. FundInv /\ UNCHANGED vars => FundInv'
      BY DEF vars, FundInv, SessionFunded
    <2>2. LockInv => TypeInv
      BY DEF LockInv
    <2>3. ASSUME LockInv, FundInv, NEW s \in Sessions, StepShape(s)
          PROVE  FundInv'
      <3>1. ASSUME NEW h \in Holds, NEW w \in Wallets, NEW e \in LedgerTransaction,
                   Captured(s, h, w, e)
            PROVE  FundInv'
        BY <2>3, <3>1, FundPosted DEF Captured
      <3>. QED
        BY <2>3, <3>1, FundCall, FundHold, FundCommit, FundRollback DEF StepShape
    <2>. QED
      BY <2>1, <2>2, <2>3, StepShapes DEF Next
  <1>2. FundInv => HoldsStayFunded
    BY DEF FundInv, Funded, HoldsStayFunded
  <1>. QED
    BY <1>1, <1>2, FundInit, LocksExclusive, PTL DEF Spec
=============================================================================
