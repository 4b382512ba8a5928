--------------------------- MODULE TokenLedgerProofs ---------------------------
(***************************************************************************)
(* Theorems of TokenLedger, for any users, transactions, purchases and     *)
(* amounts.                                                                *)
(***************************************************************************)
EXTENDS TokenLedger, SequenceTheorems, TLAPS

(* A purchase that exists has a buyer and an amount. *)
PurchaseInv ==
    \A p \in Purchase :
        bought[p].status # "none" => bought[p].buyer \in User /\ bought[p].tokens \in Amount

(* The arguments of a transaction under way, and what it has written: the  *)
(* new version of a row is the committed one moved by its amount.          *)
JobInv ==
    \A t \in Tx : pc[t] \notin {"idle", "refused", "done"} =>
        LET j == job[t] IN
        /\ j.n \in Amount
        /\ j.from # j.to
        /\ pc[t] = "complete" => j.from = None /\ j.to \in User
        /\ pc[t] = "debit" => j.from \in User
        /\ pc[t] = "credit" => j.to \in User
        /\ j.ref # None => bought[j.ref].status # "none"

WorkInv ==
    \A t \in Tx, u \in User :
        /\ work[t][u] # None =>
              \/ /\ u = job[t].from /\ pc[t] \in {"credit", "record"}
                 /\ work[t][u] = balance[u] - job[t].n
                 /\ balance[u] >= job[t].n
              \/ /\ u = job[t].to /\ pc[t] = "record"
                 /\ work[t][u] = balance[u] + job[t].n
        /\ pc[t] \in {"credit", "record"} /\ u = job[t].from => work[t][u] # None
        /\ pc[t] = "record" /\ u = job[t].to => work[t][u] # None

LedgerInv == TypeOK /\ PurchaseInv /\ JobInv /\ WorkInv /\ NeverOverdrawn
--------------------------------------------------------------------------------
LEMMA NextCases ==
    ASSUME Next
    PROVE  \/ \E t \in Tx :
                \/ \E u, v \in User, n \in Amount : SendTip(t, u, v, n)
                \/ \E u \in User, n \in Amount : Adjust(t, u, n)
                \/ \E p \in Purchase : Deliver(t, p)
                \/ Complete(t) \/ Debit(t) \/ Credit(t) \/ Commit(t) \/ Abort(t)
           \/ \E p \in Purchase, u \in User, n \in Amount : Checkout(p, u, n)
           \/ \E r \in Reply, t \in Tx : ReadOffer(r, t)
           \/ \E r \in Reply : \E answer \in {"accepted", "declined"} : Answer(r, answer)
  BY Zenon DEF Next, Request, Webhook, BuyTokens, Step

LEMMA AmountFacts == \A n \in Amount : n \in Nat /\ n > 0
  BY AmountAssumption

(* One row more keeps a ledger a sequence of rows. *)
LEMMA RecordedType ==
    ASSUME TypeOK, NEW t \in Tx, NEW u \in User,
           u = job[t].from \/ u = job[t].to => work[t][u] \in Int
    PROVE  Recorded(t, u) \in Seq(Rows)
<1>1. job[t].n \in Nat /\ ledger[u] \in Seq(Rows)
  BY DEF TypeOK, Jobs
<1>2. u = job[t].from => Row(t, -job[t].n, work[t][u]) \in Rows
  BY <1>1 DEF Row, Rows
<1>3. u = job[t].to => Row(t, job[t].n, work[t][u]) \in Rows
  BY <1>1 DEF Row, Rows
<1> QED
  BY <1>1, <1>2, <1>3, AppendProperties DEF Recorded

LEMMA InitInv == Init => LedgerInv
<1> SUFFICES ASSUME Init PROVE LedgerInv
  OBVIOUS
<1>1. balance \in [User -> Nat]
  BY OpeningAssumption DEF Init
<1>2. ledger \in [User -> Seq(Rows)]
  <2>1. ASSUME NEW u \in User PROVE <<Row(None, balance[u], balance[u])>> \in Seq(Rows)
    <3>1. Row(None, balance[u], balance[u]) \in Rows
      BY <1>1 DEF Row, Rows
    <3> QED
      BY <3>1
  <2>2. <<>> \in Seq(Rows)
    OBVIOUS
  <2> QED
    BY <2>1, <2>2 DEF Init
<1>3. TypeOK
  <2>1. balance \in [User -> Int]
    BY <1>1
  <2>2. NoJob \in Jobs /\ NoWork \in [User -> Int \cup {None}]
    BY DEF NoJob, Jobs, NoWork
  <2> QED
    BY <1>2, <2>1, <2>2 DEF TypeOK, NoWork, Init
<1>4. PurchaseInv /\ JobInv /\ WorkInv
  BY NoneAssumption DEF PurchaseInv, JobInv, WorkInv, NoJob, NoWork, Init
<1>5. NeverOverdrawn
  BY <1>1 DEF NeverOverdrawn
<1> QED
  BY <1>3, <1>4, <1>5 DEF LedgerInv

(* The steps, conjunct by conjunct where they disturb more than one. *)
LEMMA BeginStep ==
    ASSUME LedgerInv, NEW t \in Tx, NEW label \in {"complete", "debit", "credit", "refused"},
           NEW from \in User \cup {None}, NEW to \in User \cup {None}, from # to,
           NEW n \in Amount, NEW ref \in Purchase \cup {None}, NEW offers \in BOOLEAN,
           label = "complete" => from = None /\ to \in User,
           label = "debit" => from \in User,
           label = "credit" => from = None /\ to \in User,
           ref # None => bought[ref].status # "none",
           Begin(t, label, from, to, n, ref, offers)
    PROVE  LedgerInv'
<1> USE DEF LedgerInv, Begin, Goto
<1>1. TypeOK'
  <2>1. [from |-> from, to |-> to, n |-> n, ref |-> ref, offers |-> offers] \in Jobs
    BY AmountFacts DEF Jobs
  <2> QED
    BY <2>1 DEF TypeOK
<1>2. PurchaseInv'
  BY DEF PurchaseInv
<1>3. JobInv'
  BY DEF JobInv, TypeOK
<1>4. WorkInv'
  <2>1. \A u \in User : work[t][u] = None
    BY DEF WorkInv
  <2> QED
    BY <2>1, NoneAssumption DEF WorkInv, TypeOK
<1>5. NeverOverdrawn'
  BY DEF NeverOverdrawn
<1> QED
  BY <1>1, <1>2, <1>3, <1>4, <1>5

LEMMA DebitStep ==
    ASSUME LedgerInv, NEW t \in Tx, Debit(t)
    PROVE  LedgerInv'
<1> USE NoneAssumption DEF LedgerInv, Debit, Goto
<1> DEFINE u == job[t].from  n == job[t].n
<1>1. u \in User /\ n \in Nat /\ u # job[t].to /\ job[t] \in Jobs
  BY AmountFacts DEF JobInv, TypeOK
<1>2. CASE balance[u] < n
  <2>1. /\ pc' = [pc EXCEPT ![t] = "refused"]
        /\ UNCHANGED <<balance, ledger, bought, offer, job, work, rpc, rtip>>
    BY <1>1, <1>2 DEF TypeOK
  <2>2. TypeOK' /\ PurchaseInv' /\ JobInv' /\ NeverOverdrawn'
    BY <2>1 DEF TypeOK, PurchaseInv, JobInv, NeverOverdrawn
  <2>3. WorkInv'
    <3>1. \A v \in User : work[t][v] = None
      BY DEF WorkInv
    <3> QED
      BY <2>1, <3>1 DEF WorkInv, TypeOK
  <2> QED
    BY <2>2, <2>3
<1>3. CASE balance[u] >= n
  <2>1. /\ \A s \in Tx \ {t} : work[s][u] = None
        /\ work' = [work EXCEPT ![t][u] = balance[u] - n]
        /\ pc' = [pc EXCEPT ![t] = IF job[t].to = None THEN "record" ELSE "credit"]
        /\ UNCHANGED <<balance, ledger, bought, offer, job, rpc, rtip>>
    BY <1>1, <1>3 DEF LockedByAnother, TypeOK
  <2>2. balance[u] - n \in Int /\ balance[u] - n # None
    BY <1>1 DEF TypeOK
  <2>3. TypeOK'
    BY <1>1, <2>1, <2>2 DEF TypeOK
  <2>4. JobInv'
    BY <1>1, <2>1 DEF JobInv, TypeOK, Jobs
  <2>5. WorkInv'
    <3>1. \A v \in User : work[t][v] = None
      BY DEF WorkInv
    <3>2. work'[t] = [work[t] EXCEPT ![u] = balance[u] - n]
      BY <1>1, <2>1 DEF TypeOK
    <3>3. \A s \in Tx \ {t} : work'[s] = work[s] /\ pc'[s] = pc[s]
      BY <2>1 DEF TypeOK
    <3>4. ASSUME NEW v \in User
          PROVE  /\ work'[t][v] # None => v = u /\ work'[t][v] = balance[v] - n
                 /\ v = u => work'[t][v] # None
      BY <1>1, <2>2, <3>1, <3>2 DEF TypeOK
    <3>5. pc'[t] \in {"record", "credit"} /\ (pc'[t] = "record" => job[t].to = None)
      BY <2>1 DEF TypeOK
    <3> QED
      BY <1>1, <1>3, <2>1, <3>3, <3>4, <3>5 DEF WorkInv
  <2> QED
    BY <2>1, <2>3, <2>4, <2>5 DEF PurchaseInv, NeverOverdrawn
<1> QED
  BY <1>1, <1>2, <1>3 DEF TypeOK

LEMMA CreditStep ==
    ASSUME LedgerInv, NEW t \in Tx, Credit(t)
    PROVE  LedgerInv'
<1> USE NoneAssumption DEF LedgerInv, Credit, Goto
<1> DEFINE u == job[t].to  n == job[t].n
<1>1. u \in User /\ n \in Nat /\ u # job[t].from /\ job[t] \in Jobs
  BY AmountFacts DEF JobInv, TypeOK
<1>2. /\ \A s \in Tx \ {t} : work[s][u] = None
      /\ work[t][u] = None
      /\ work' = [work EXCEPT ![t][u] = balance[u] + n]
      /\ pc' = [pc EXCEPT ![t] = "record"]
      /\ UNCHANGED <<balance, ledger, bought, offer, job, rpc, rtip>>
  BY <1>1 DEF LockedByAnother, WorkInv
<1>3. balance[u] + n \in Int /\ balance[u] + n # None
  BY <1>1 DEF TypeOK
<1>4. TypeOK'
  BY <1>1, <1>2, <1>3 DEF TypeOK
<1>5. JobInv'
  BY <1>1, <1>2 DEF JobInv, TypeOK
<1>6. WorkInv'
  <2>1. work'[t] = [work[t] EXCEPT ![u] = balance[u] + n]
    BY <1>1, <1>2 DEF TypeOK
  <2>2. \A s \in Tx \ {t} : work'[s] = work[s] /\ pc'[s] = pc[s]
    BY <1>2 DEF TypeOK
  <2>3. work'[t][u] = balance[u] + n /\ \A v \in User \ {u} : work'[t][v] = work[t][v]
    BY <1>1, <2>1 DEF TypeOK
  <2>4. pc[t] = "credit" /\ pc'[t] = "record"
    BY <1>2 DEF TypeOK
  <2> QED
    BY <1>1, <1>2, <1>3, <2>2, <2>3, <2>4 DEF WorkInv
<1> QED
  BY <1>2, <1>4, <1>5, <1>6 DEF PurchaseInv, NeverOverdrawn

(* What a commit does to each account and its ledger. *)
LEMMA CommitFacts ==
    ASSUME LedgerInv, NEW t \in Tx, Commit(t), NEW u \in User
    PROVE  /\ u = job[t].from => /\ balance[u] >= job[t].n
                                 /\ balance'[u] = balance[u] - job[t].n
                                 /\ ledger'[u] = Append(ledger[u], Row(t, -job[t].n, balance'[u]))
           /\ u = job[t].to => /\ balance'[u] = balance[u] + job[t].n
                               /\ ledger'[u] = Append(ledger[u], Row(t, job[t].n, balance'[u]))
           /\ u # job[t].from /\ u # job[t].to => /\ balance'[u] = balance[u]
                                                 /\ ledger'[u] = ledger[u]
           /\ \A s \in Tx \ {t} : work[s][u] # None => balance'[u] = balance[u]
<1> USE DEF LedgerInv
<1>1. pc[t] = "record" /\ job[t].from # job[t].to
  BY DEF Commit, JobInv
<1>2. work[t][u] # None <=> u = job[t].from \/ u = job[t].to
  BY <1>1 DEF WorkInv
<1>3. /\ balance'[u] = IF work[t][u] = None THEN balance[u] ELSE work[t][u]
      /\ ledger'[u] = Recorded(t, u)
  BY DEF Commit
<1>4. \A s \in Tx \ {t} : work[s][u] # None => work[t][u] = None
  BY DEF TypeOK
<1>5. /\ u = job[t].from => balance[u] >= job[t].n /\ work[t][u] = balance[u] - job[t].n
      /\ u = job[t].to => work[t][u] = balance[u] + job[t].n
  BY <1>1, <1>2 DEF WorkInv
<1> QED
  BY <1>1, <1>2, <1>3, <1>4, <1>5 DEF Recorded

LEMMA CommitStep ==
    ASSUME LedgerInv, NEW t \in Tx, Commit(t)
    PROVE  LedgerInv'
<1> USE NoneAssumption DEF LedgerInv
<1>1. /\ work' = [work EXCEPT ![t] = NoWork]
      /\ pc' = [pc EXCEPT ![t] = "done"]
      /\ UNCHANGED <<job, rpc, rtip>>
      /\ pc[t] = "record" /\ job[t].n \in Nat
  BY DEF Commit, Goto, TypeOK, Jobs
<1>2. balance' \in [User -> Int]
  BY <1>1 DEF Commit, TypeOK
<1>3. ledger' \in [User -> Seq(Rows)]
  <2>1. ASSUME NEW u \in User PROVE Recorded(t, u) \in Seq(Rows)
    <3>1. u = job[t].from \/ u = job[t].to => work[t][u] \in Int
      BY <1>1 DEF WorkInv, TypeOK
    <3> QED
      BY <3>1, RecordedType
  <2> QED
    BY <2>1 DEF Commit
<1>4. bought' \in [Purchase -> [status : {"none", "PENDING", "COMPLETED"},
                               buyer : User \cup {None}, tokens : Nat]]
  <2>1. CASE job[t].ref = None
    BY <2>1 DEF Commit, TypeOK
  <2>2. CASE job[t].ref # None
    <3>1. bought' = [bought EXCEPT ![job[t].ref].status = "COMPLETED"]
      BY <2>2 DEF Commit
    <3>2. \A p \in Purchase : bought[p] \in [status : {"none", "PENDING", "COMPLETED"},
                                            buyer : User \cup {None}, tokens : Nat]
      BY DEF TypeOK
    <3>3. \A p \in Purchase : bought'[p] \in [status : {"none", "PENDING", "COMPLETED"},
                                             buyer : User \cup {None}, tokens : Nat]
      BY <3>1, <3>2, Zenon DEF TypeOK
    <3>4. DOMAIN bought' = Purchase /\ bought' = [p \in Purchase |-> bought'[p]]
      BY <3>1 DEF TypeOK
    <3> QED
      BY <3>3, <3>4
  <2> QED
    BY <2>1, <2>2
<1>5. offer' \in [Tx -> {"none", "open", "accepted", "declined"}]
  BY DEF Commit, TypeOK
<1>6. TypeOK'
  <2>1. work' \in [Tx -> [User -> Int \cup {None}]]
    BY <1>1 DEF TypeOK, NoWork
  <2>2. \A s \in Tx, u \in User : work'[s][u] # None => work[s][u] # None
    BY <1>1 DEF TypeOK, NoWork
  <2> QED
    BY <1>1, <1>2, <1>3, <1>4, <1>5, <2>1, <2>2 DEF TypeOK
<1>7. PurchaseInv'
  <2>1. ASSUME NEW p \in Purchase
        PROVE  /\ bought'[p].buyer = bought[p].buyer /\ bought'[p].tokens = bought[p].tokens
               /\ bought'[p].status # "none" => bought[p].status # "none"
    <3>1. CASE job[t].ref = None
      BY <3>1 DEF Commit
    <3>2. CASE job[t].ref # None
      <4>1. bought' = [bought EXCEPT ![job[t].ref].status = "COMPLETED"]
        BY <3>2 DEF Commit
      <4>2. bought[job[t].ref].status # "none"
        BY <1>1, <3>2 DEF JobInv
      <4>3. bought'[p] = IF p = job[t].ref THEN [bought[p] EXCEPT !.status = "COMPLETED"]
                                           ELSE bought[p]
        BY <4>1 DEF TypeOK
      <4> QED
        BY <4>2, <4>3 DEF TypeOK
    <3> QED
      BY <3>1, <3>2
  <2> QED
    BY <2>1 DEF PurchaseInv
<1>8. JobInv'
  <2>1. \A p \in Purchase : bought[p].status # "none" => bought'[p].status # "none"
    BY DEF Commit, TypeOK
  <2> QED
    BY <1>1, <2>1 DEF JobInv, TypeOK, Jobs
<1>9. WorkInv'
  <2>1. \A u \in User : work'[t][u] = None
    BY <1>1 DEF TypeOK, NoWork
  <2>2. \A s \in Tx \ {t} : work'[s] = work[s] /\ pc'[s] = pc[s]
    BY <1>1 DEF TypeOK
  <2>3. \A u \in User, s \in Tx \ {t} : work[s][u] # None => balance'[u] = balance[u]
    BY CommitFacts
  <2>4. pc'[t] = "done"
    BY <1>1 DEF TypeOK
  <2> QED
    BY <1>1, <2>1, <2>2, <2>3, <2>4 DEF WorkInv
<1>10. ASSUME NEW u \in User PROVE balance'[u] >= 0
  <2>1. balance[u] \in Int /\ balance[u] >= 0
    BY DEF TypeOK, NeverOverdrawn
  <2> QED
    BY <1>1, <2>1, CommitFacts
<1> QED
  BY <1>6, <1>7, <1>8, <1>9, <1>10 DEF NeverOverdrawn

LEMMA AbortStep ==
    ASSUME LedgerInv, NEW t \in Tx, Abort(t)
    PROVE  LedgerInv'
<1> USE NoneAssumption DEF LedgerInv
<1>1. /\ work' = [work EXCEPT ![t] = NoWork]
      /\ pc' = [pc EXCEPT ![t] = "refused"]
      /\ UNCHANGED <<balance, ledger, bought, offer, job, rpc, rtip>>
  BY DEF Abort, Goto
<1>2. \A u \in User : work'[t][u] = None
  BY <1>1 DEF TypeOK, NoWork
<1>3. \A s \in Tx \ {t} : work'[s] = work[s] /\ pc'[s] = pc[s]
  BY <1>1 DEF TypeOK
<1>4. pc'[t] = "refused"
  BY <1>1 DEF TypeOK
<1>5. TypeOK'
  BY <1>1, <1>2, <1>3 DEF TypeOK, NoWork
<1>6. WorkInv'
  BY <1>1, <1>2, <1>3, <1>4 DEF WorkInv
<1> QED
  BY <1>1, <1>5, <1>6 DEF PurchaseInv, JobInv, NeverOverdrawn, TypeOK

LEMMA InvStep ==
    ASSUME LedgerInv, [Next]_vars
    PROVE  LedgerInv'
<1>1. ASSUME NEW t \in Tx, NEW u \in User, NEW v \in User, NEW n \in Amount, SendTip(t, u, v, n)
      PROVE  LedgerInv'
  BY <1>1, BeginStep DEF SendTip
<1>2. ASSUME NEW t \in Tx, NEW u \in User, NEW n \in Amount, Adjust(t, u, n) PROVE LedgerInv'
  BY <1>2, BeginStep, NoneAssumption DEF Adjust
<1>3. ASSUME NEW t \in Tx, NEW p \in Purchase, Deliver(t, p) PROVE LedgerInv'
  BY <1>3, BeginStep, NoneAssumption DEF Deliver, LedgerInv, PurchaseInv
<1>4. ASSUME NEW t \in Tx, Complete(t) PROVE LedgerInv'
  <2>1. \A u \in User : u # job[t].from /\ work[t][u] = None
    BY <1>4, NoneAssumption DEF Complete, LedgerInv, JobInv, WorkInv
  <2> QED
    BY <1>4, <2>1 DEF Complete, Goto, LedgerInv, TypeOK, PurchaseInv, JobInv, WorkInv,
       NeverOverdrawn
<1>5. ASSUME NEW p \in Purchase, NEW u \in User, NEW n \in Amount, Checkout(p, u, n)
      PROVE  LedgerInv'
  BY <1>5, AmountFacts DEF Checkout, LedgerInv, TypeOK, PurchaseInv, JobInv, WorkInv, NeverOverdrawn
<1>6. ASSUME NEW r \in Reply, NEW t \in Tx, ReadOffer(r, t) PROVE LedgerInv'
  BY <1>6 DEF ReadOffer, LedgerInv, TypeOK, PurchaseInv, JobInv, WorkInv, NeverOverdrawn
<1>7. ASSUME NEW r \in Reply, NEW answer \in {"accepted", "declined"}, Answer(r, answer)
      PROVE  LedgerInv'
  <2>1. TypeOK'
    BY <1>7 DEF Answer, LedgerInv, TypeOK
  <2> QED
    BY <1>7, <2>1 DEF Answer, LedgerInv, PurchaseInv, JobInv, WorkInv, NeverOverdrawn
<1>8. CASE UNCHANGED vars
  BY <1>8 DEF vars, LedgerInv, TypeOK, PurchaseInv, JobInv, WorkInv, NeverOverdrawn
<1> QED
  BY NextCases, DebitStep, CreditStep, CommitStep, AbortStep,
     <1>1, <1>2, <1>3, <1>4, <1>5, <1>6, <1>7, <1>8

LEMMA InvAlways == Spec => []LedgerInv
  BY InitInv, InvStep, PTL DEF Spec

(* Types hold, and an account row never has two uncommitted writers.       *)
THEOREM TypeCorrect == Spec => []TypeOK
<1>1. LedgerInv => TypeOK
  BY DEF LedgerInv
<1> QED
  BY <1>1, InvAlways, PTL

(* TokensService.debit: no interleaving of debits overdraws an account.    *)
THEOREM NeverOverdrawnHolds == Spec => []NeverOverdrawn
<1>1. LedgerInv => NeverOverdrawn
  BY DEF LedgerInv
<1> QED
  BY <1>1, InvAlways, PTL

--------------------------------------------------------------------------------
LEMMA InitReplays == Init => LedgerReplays
<1> SUFFICES ASSUME Init, NEW u \in User
             PROVE  LET rows == ledger[u] IN
                    /\ \A i \in 1 .. Len(rows) :
                          rows[i].after = rows[i].delta + (IF i = 1 THEN 0 ELSE rows[i - 1].after)
                    /\ balance[u] = IF rows = <<>> THEN 0 ELSE rows[Len(rows)].after
  BY DEF LedgerReplays
<1>1. balance[u] \in Nat
  BY OpeningAssumption DEF Init
<1>2. CASE balance[u] = 0
  BY <1>2 DEF Init
<1>3. CASE balance[u] # 0
  <2>1. ledger[u] = <<Row(None, balance[u], balance[u])>>
    BY <1>3 DEF Init
  <2> QED
    BY <1>1, <2>1 DEF Row
<1> QED
  BY <1>2, <1>3

(* Each row's balanceAfter is its delta on top of the row before. *)
Replays(rows) ==
    \A i \in 1 .. Len(rows) :
        rows[i].after = rows[i].delta + (IF i = 1 THEN 0 ELSE rows[i - 1].after)
Final(rows) == IF rows = <<>> THEN 0 ELSE rows[Len(rows)].after

(* A row that starts from the balance extends a replay. *)
LEMMA AppendReplays ==
    ASSUME NEW rows \in Seq(Rows), Replays(rows), NEW t \in Tx, NEW delta \in Int,
           Final(rows) \in Int,
           NEW more, more = Append(rows, Row(t, delta, Final(rows) + delta))
    PROVE  Replays(more) /\ Final(more) = Final(rows) + delta
<1> DEFINE before == Final(rows)
<1> DEFINE last == Row(t, delta, before + delta)
<1>1. last \in Rows /\ last.after = before + delta /\ last.delta = delta
  BY DEF Row, Rows
<1>2. /\ Len(more) = Len(rows) + 1
      /\ more \in Seq(Rows)
      /\ more[Len(rows) + 1] = last
      /\ \A i \in 1 .. Len(rows) : more[i] = rows[i]
  BY <1>1, AppendProperties
<1>3. Len(rows) \in Nat /\ (rows = <<>> <=> Len(rows) = 0)
  BY EmptySeq
<1>4. ASSUME NEW i \in 1 .. Len(more)
      PROVE  more[i].after = more[i].delta + (IF i = 1 THEN 0 ELSE more[i - 1].after)
  <2>1. CASE i \in 1 .. Len(rows)
    BY <2>1, <1>2, <1>3 DEF Replays
  <2>2. CASE i = Len(rows) + 1
    <3>1. CASE rows = <<>>
      BY <2>2, <3>1, <1>1, <1>2, <1>3 DEF Final
    <3>2. CASE rows # <<>>
      <4>1. i # 1 /\ more[i - 1] = rows[Len(rows)]
        BY <2>2, <3>2, <1>2, <1>3
      <4> QED
        BY <2>2, <3>2, <4>1, <1>1, <1>2 DEF Final
    <3> QED
      BY <3>1, <3>2
  <2> QED
    BY <2>1, <2>2, <1>2, <1>3
<1>5. more # <<>> /\ Len(more) = Len(rows) + 1
  BY <1>2, <1>3
<1> QED
  BY <1>1, <1>2, <1>4, <1>5 DEF Replays, Final

LEMMA ReplayStep ==
    ASSUME LedgerInv, LedgerReplays, [Next]_vars
    PROVE  LedgerReplays'
<1>1. CASE UNCHANGED <<balance, ledger>>
  BY <1>1 DEF LedgerReplays
<1>2. ASSUME NEW t \in Tx, Commit(t), NEW u \in User
      PROVE  Replays(ledger'[u]) /\ balance'[u] = Final(ledger'[u])
  <2>1. /\ ledger[u] \in Seq(Rows) /\ balance[u] \in Int /\ job[t].n \in Int
        /\ -job[t].n \in Int
        /\ balance[u] - job[t].n = balance[u] + (-job[t].n)
    BY DEF LedgerInv, TypeOK, Jobs
  <2>2. Replays(ledger[u]) /\ balance[u] = Final(ledger[u])
    BY DEF LedgerReplays, Replays, Final
  <2>3. CASE u = job[t].from
    <3> DEFINE delta == -job[t].n
    <3>1. /\ delta \in Int
          /\ balance'[u] = Final(ledger[u]) + delta
          /\ ledger'[u] = Append(ledger[u], Row(t, delta, Final(ledger[u]) + delta))
      <4>1. /\ balance'[u] = balance[u] - job[t].n
            /\ ledger'[u] = Append(ledger[u], Row(t, -job[t].n, balance'[u]))
        BY <1>2, <2>3, CommitFacts
      <4> QED
        BY <4>1, <2>1, <2>2
    <3> HIDE DEF delta
    <3>2. Final(ledger[u]) \in Int
      BY <2>1, <2>2
    <3>3. Replays(ledger'[u]) /\ Final(ledger'[u]) = Final(ledger[u]) + delta
      BY <3>1, <3>2, <2>1, <2>2, AppendReplays, Zenon
    <3> QED
      BY <3>1, <3>3
  <2>4. CASE u = job[t].to
    <3> DEFINE delta == job[t].n
    <3>1. /\ delta \in Int
          /\ balance'[u] = Final(ledger[u]) + delta
          /\ ledger'[u] = Append(ledger[u], Row(t, delta, Final(ledger[u]) + delta))
      BY <1>2, <2>1, <2>2, <2>4, CommitFacts
    <3> HIDE DEF delta
    <3>2. Final(ledger[u]) \in Int
      BY <2>1, <2>2
    <3>3. Replays(ledger'[u]) /\ Final(ledger'[u]) = Final(ledger[u]) + delta
      BY <3>1, <3>2, <2>1, <2>2, AppendReplays, Zenon
    <3> QED
      BY <3>1, <3>3
  <2>5. CASE u # job[t].from /\ u # job[t].to
    BY <1>2, <2>2, <2>5, CommitFacts
  <2> QED
    BY <2>3, <2>4, <2>5
<1>3. (\E t \in Tx : Commit(t)) \/ UNCHANGED <<balance, ledger>>
  BY NextCases DEF vars, SendTip, Adjust, Begin, Deliver, Complete, Debit, Credit, Abort,
     Checkout, ReadOffer, Answer
<1> QED
  BY <1>1, <1>2, <1>3 DEF LedgerReplays, Replays, Final

(* The ledger is the truth: replaying an account's rows gives each         *)
(* balanceAfter and ends at the cached balance.                            *)
THEOREM LedgerReplaysHolds == Spec => []LedgerReplays
  BY InitInv, InvStep, InitReplays, ReplayStep, PTL DEF Spec

--------------------------------------------------------------------------------
(* Each commit is one whole Bank operation and nothing else changes a      *)
(* balance: sendTip never destroys tokens nor creates them.                *)
THEOREM TipsAreWholeHolds == Spec => TipsAreWhole
<1>1. Init => B!Init
  BY OpeningAssumption DEF Init, B!Init
<1>2. ASSUME LedgerInv, [Next]_vars PROVE [B!Next]_balance
  <2>1. ASSUME NEW t \in Tx, Commit(t) PROVE [B!Next]_balance
    <3> DEFINE u == job[t].from  v == job[t].to  n == job[t].n
    <3>1. /\ u \in User \cup {None} /\ v \in User \cup {None} /\ u # v /\ n \in Amount
          /\ balance \in [User -> Int] /\ balance' \in [User -> Int]
      BY <1>2, <2>1, InvStep DEF LedgerInv, TypeOK, Jobs, JobInv, Commit
    <3>2. ASSUME NEW w \in User
          PROVE  /\ w = u => balance[w] >= n /\ balance'[w] = balance[w] - n
                 /\ w = v => balance'[w] = balance[w] + n
                 /\ w # u /\ w # v => balance'[w] = balance[w]
      BY <1>2, <2>1, CommitFacts
    <3> HIDE DEF u, v, n
    <3>3. CASE u \in User /\ v \in User
      <4>1. balance' = [balance EXCEPT ![u] = @ - n, ![v] = @ + n]
        BY <3>1, <3>2, <3>3
      <4>2. balance[u] >= n
        BY <3>2, <3>3
      <4>3. B!Transfer(u, v, n)
        BY <3>1, <4>1, <4>2, Zenon DEF B!Transfer
      <4> QED
        BY <3>1, <3>3, <4>3, Zenon DEF B!Next
    <3>4. CASE u \in User /\ v = None
      <4>1. balance' = [balance EXCEPT ![u] = @ - n]
        BY <3>1, <3>2, <3>4, NoneAssumption
      <4>2. balance[u] >= n
        BY <3>2, <3>4
      <4>3. B!Withdraw(u, n)
        BY <4>1, <4>2, Zenon DEF B!Withdraw
      <4> QED
        BY <3>1, <3>4, <4>3, Zenon DEF B!Next
    <3>5. CASE u = None /\ v \in User
      <4>1. balance' = [balance EXCEPT ![v] = @ + n]
        BY <3>1, <3>2, <3>5, NoneAssumption
      <4> QED
        BY <3>1, <3>5, <4>1 DEF B!Next, B!Issue
    <3> QED
      BY <3>1, <3>3, <3>4, <3>5
  <2>2. (\E t \in Tx : Commit(t)) \/ UNCHANGED balance
    BY <1>2, NextCases DEF vars, SendTip, Adjust, Begin, Deliver, Complete, Debit, Credit, Abort,
       Checkout, ReadOffer, Answer
  <2> QED
    BY <2>1, <2>2
<1> QED
  BY <1>1, <1>2, InvAlways, PTL DEF Spec, TipsAreWhole, B!Spec
================================================================================
