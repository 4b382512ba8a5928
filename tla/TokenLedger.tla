------------------------------ MODULE TokenLedger ------------------------------
(***************************************************************************)
(* The token accounts and their ledger: tips, purchases and corrections as *)
(* PostgreSQL transactions at READ COMMITTED, one action per statement     *)
(* that touches shared rows.                                               *)
(*                                                                         *)
(* A Tx is one call of sendTip, fulfilPurchase or adjust.  What it wrote   *)
(* and has not committed is work[t]: it holds the row lock of every        *)
(* account in it, nobody else sees it, and an abort drops it.  A Reply is  *)
(* one call of respondToOffer, which uses no transaction.                  *)
(***************************************************************************)
EXTENDS Integers, Sequences

CONSTANTS User, Tx, Reply, Purchase,
          Amount,   \* token amounts: of a tip, a package, a correction
          Opening,  \* balances that may exist at the start
          None

ASSUME AmountAssumption == Amount \subseteq Nat \ {0}
ASSUME OpeningAssumption == Opening \subseteq Nat
ASSUME NoneAssumption == None \notin User \cup Purchase \cup Int

VARIABLES
    balance,   \* TokenAccount.balance, committed (no row: 0)
    ledger,    \* TokenLedger rows of each user, committed, oldest first
    bought,    \* TokenPurchase rows: status, buyer and tokens, committed
    offer,     \* Tip.offeredSeconds and Tip.accepted, of the tip of each Tx
    pc,        \* where each transaction is
    job,       \* its arguments: debit `from`, credit `to`, by `n`, for `ref`
    work,      \* the account rows it has written and not committed
    rpc, rtip  \* where each respondToOffer is, and the tip it read

vars == <<balance, ledger, bought, offer, pc, job, work, rpc, rtip>>

--------------------------------------------------------------------------------
NoWork == [u \in User |-> None]
NoJob  == [from |-> None, to |-> None, n |-> 0, ref |-> None, offers |-> FALSE]

Row(t, delta, after) == [tx |-> t, delta |-> delta, after |-> after]

Init ==
    /\ balance \in [User -> Opening]
    /\ ledger = [u \in User |-> IF balance[u] = 0 THEN <<>>
                                ELSE <<Row(None, balance[u], balance[u])>>]
    /\ bought = [p \in Purchase |-> [status |-> "none", buyer |-> None, tokens |-> 0]]
    /\ offer = [t \in Tx |-> "none"]
    /\ pc = [t \in Tx |-> "idle"]
    /\ job = [t \in Tx |-> NoJob]
    /\ work = [t \in Tx |-> NoWork]
    /\ rpc = [r \in Reply |-> "idle"]
    /\ rtip = [r \in Reply |-> None]

--------------------------------------------------------------------------------
(* Row locks: taken by a write, held until the transaction ends. *)
LockedByAnother(t, u) == \E s \in Tx \ {t} : work[s][u] # None

Goto(t, label) == pc' = [pc EXCEPT ![t] = label]

Begin(t, label, from, to, n, ref, offers) ==
    /\ pc[t] = "idle"
    /\ Goto(t, label)
    /\ job' = [job EXCEPT ![t] = [from |-> from, to |-> to, n |-> n, ref |-> ref,
                                  offers |-> offers]]
    /\ UNCHANGED <<balance, ledger, bought, offer, work, rpc, rtip>>

(* tip:send between the two users of a conversation, with a time offer or  *)
(* without; a tip to oneself and a non-positive amount are refused.        *)
SendTip(t, u, v, n) ==
    /\ u # v
    /\ \E offers \in BOOLEAN : Begin(t, "debit", u, v, n, None, offers)

(* An administrator's correction, up or down. *)
Adjust(t, u, n) ==
    \/ Begin(t, "credit", None, u, n, None, FALSE)
    \/ Begin(t, "debit", u, None, n, None, FALSE)

(* The checkout records a PENDING purchase; the payment follows. *)
Checkout(p, u, n) ==
    /\ bought[p].status = "none"
    /\ bought' = [bought EXCEPT ![p] = [status |-> "PENDING", buyer |-> u, tokens |-> n]]
    /\ UNCHANGED <<balance, ledger, offer, pc, job, work, rpc, rtip>>

(* A delivery of the provider's webhook, the first or a repeated one, reads *)
(* the committed purchase: COMPLETED is a retry and changes nothing.        *)
Deliver(t, p) ==
    /\ bought[p].status # "none"
    /\ Begin(t, IF bought[p].status = "COMPLETED" THEN "refused" ELSE "complete",
             None, bought[p].buyer, bought[p].tokens, p, FALSE)

(* UPDATE token_purchases SET status = COMPLETED: it waits for the row's   *)
(* lock and does not ask again what the status is.                         *)
Complete(t) ==
    /\ pc[t] = "complete"
    /\ \A s \in Tx \ {t} : pc[s] \in {"credit", "record"} => job[s].ref # job[t].ref
    /\ Goto(t, "credit")
    /\ UNCHANGED <<balance, ledger, bought, offer, job, work, rpc, rtip>>

(* UPDATE ... SET balance = balance - n WHERE balance >= n.  A row whose   *)
(* committed balance fails the test is not waited for: no row is affected, *)
(* INSUFFICIENT_FUNDS.  A locked row is waited for and tested again.       *)
Debit(t) ==
    LET u == job[t].from  n == job[t].n IN
    /\ pc[t] = "debit"
    /\ \/ /\ balance[u] >= n
          /\ ~LockedByAnother(t, u)
          /\ work' = [work EXCEPT ![t][u] = balance[u] - n]
          /\ Goto(t, IF job[t].to = None THEN "record" ELSE "credit")
       \/ /\ balance[u] < n
          /\ Goto(t, "refused")
          /\ UNCHANGED work
    /\ UNCHANGED <<balance, ledger, bought, offer, job, rpc, rtip>>

(* MUTANT of Credit: a write of what was read before, whoever holds the row. *)
CreditStale(t) ==
    LET u == job[t].to IN
    /\ pc[t] = "credit"
    /\ work' = [work EXCEPT ![t][u] = balance[u] + job[t].n]
    /\ Goto(t, "record")
    /\ UNCHANGED <<balance, ledger, bought, offer, job, rpc, rtip>>

(* INSERT ... ON CONFLICT DO UPDATE SET balance = balance + n. *)
Credit(t) ==
    LET u == job[t].to IN
    /\ pc[t] = "credit"
    /\ ~LockedByAnother(t, u)
    /\ work' = [work EXCEPT ![t][u] = balance[u] + job[t].n]
    /\ Goto(t, "record")
    /\ UNCHANGED <<balance, ledger, bought, offer, job, rpc, rtip>>

(* The ledger of u with the row of t, which tells the balance the statement *)
(* returned.                                                                *)
Recorded(t, u) ==
    IF u = job[t].from THEN Append(ledger[u], Row(t, -job[t].n, work[t][u]))
    ELSE IF u = job[t].to THEN Append(ledger[u], Row(t, job[t].n, work[t][u]))
    ELSE ledger[u]

(* MUTANT of Commit: only the credited side gets its row. *)
CommitHalfRecorded(t) ==
    /\ pc[t] = "record"
    /\ balance' = [u \in User |-> IF work[t][u] = None THEN balance[u] ELSE work[t][u]]
    /\ ledger' = [u \in User |-> IF u = job[t].to THEN Recorded(t, u) ELSE ledger[u]]
    /\ work' = [work EXCEPT ![t] = NoWork]
    /\ Goto(t, "done")
    /\ UNCHANGED <<bought, offer, job, rpc, rtip>>

(* The ledger rows, one for each side, and COMMIT. *)
Commit(t) ==
    /\ pc[t] = "record"
    /\ balance' = [u \in User |-> IF work[t][u] = None THEN balance[u] ELSE work[t][u]]
    /\ ledger' = [u \in User |-> Recorded(t, u)]
    /\ work' = [work EXCEPT ![t] = NoWork]
    /\ bought' = IF job[t].ref = None THEN bought
                 ELSE [bought EXCEPT ![job[t].ref].status = "COMPLETED"]
    /\ offer' = IF job[t].offers THEN [offer EXCEPT ![t] = "open"] ELSE offer
    /\ Goto(t, "done")
    /\ UNCHANGED <<job, rpc, rtip>>

(* A failed statement, a lost connection, the transaction's time limit, a  *)
(* deadlock resolved against t (two tips in opposite directions): rollback. *)
Abort(t) ==
    /\ pc[t] \in {"complete", "debit", "credit", "record"}
    /\ work' = [work EXCEPT ![t] = NoWork]
    /\ Goto(t, "refused")
    /\ UNCHANGED <<balance, ledger, bought, offer, job, rpc, rtip>>

--------------------------------------------------------------------------------
(* respondToOffer reads the tip and refuses an answered one ... *)
ReadOffer(r, t) ==
    /\ rpc[r] = "idle"
    /\ offer[t] = "open"
    /\ rpc' = [rpc EXCEPT ![r] = "answer"]
    /\ rtip' = [rtip EXCEPT ![r] = t]
    /\ UNCHANGED <<balance, ledger, bought, offer, pc, job, work>>

(* ... and then writes the answer, whatever the row says by now. *)
Answer(r, answer) ==
    /\ rpc[r] = "answer"
    /\ offer' = [offer EXCEPT ![rtip[r]] = answer]
    /\ rpc' = [rpc EXCEPT ![r] = "idle"]
    /\ rtip' = [rtip EXCEPT ![r] = None]
    /\ UNCHANGED <<balance, ledger, bought, pc, job, work>>

--------------------------------------------------------------------------------
Webhook(t) == \E p \in Purchase : Deliver(t, p)

BuyTokens == \E p \in Purchase, u \in User, n \in Amount : Checkout(p, u, n)

Request(t) ==
    \/ \E u, v \in User, n \in Amount : SendTip(t, u, v, n)
    \/ \E u \in User, n \in Amount : Adjust(t, u, n)
    \/ Webhook(t)

Step(t) == Complete(t) \/ Debit(t) \/ Credit(t) \/ Commit(t) \/ Abort(t)

Next ==
    \/ \E t \in Tx : Request(t) \/ Step(t)
    \/ BuyTokens
    \/ \E r \in Reply : \/ \E t \in Tx : ReadOffer(r, t)
                        \/ \E answer \in {"accepted", "declined"} : Answer(r, answer)

Spec == Init /\ [][Next]_vars

--------------------------------------------------------------------------------
(* Properties *)

Rows == [tx : Tx \cup {None}, delta : Int, after : Int]
Jobs == [from : User \cup {None}, to : User \cup {None}, n : Nat,
         ref : Purchase \cup {None}, offers : BOOLEAN]

(* Every variable has its type, and an account row has one writer. *)
TypeOK ==
    /\ balance \in [User -> Int]
    /\ ledger \in [User -> Seq(Rows)]
    /\ bought \in [Purchase -> [status : {"none", "PENDING", "COMPLETED"},
                                buyer : User \cup {None}, tokens : Nat]]
    /\ offer \in [Tx -> {"none", "open", "accepted", "declined"}]
    /\ pc \in [Tx -> {"idle", "complete", "debit", "credit", "record", "done", "refused"}]
    /\ job \in [Tx -> Jobs]
    /\ work \in [Tx -> [User -> Int \cup {None}]]
    /\ rpc \in [Reply -> {"idle", "answer"}]
    /\ rtip \in [Reply -> Tx \cup {None}]
    /\ \A s, t \in Tx, u \in User : work[s][u] # None /\ work[t][u] # None => s = t

(* However many tips and corrections of one account run at once, nobody    *)
(* spends tokens they do not have (tokens.service.ts, rule 1).             *)
NeverOverdrawn == \A u \in User : balance[u] >= 0

(* The ledger is the truth and the balance a cache of it: replaying the    *)
(* rows gives each row's balanceAfter in turn and ends at the balance      *)
(* (tokens.service.ts, rule 2).                                            *)
LedgerReplays ==
    \A u \in User :
        LET rows == ledger[u] IN
        /\ \A i \in 1 .. Len(rows) :
              rows[i].after = rows[i].delta + (IF i = 1 THEN 0 ELSE rows[i - 1].after)
        /\ balance[u] = IF rows = <<>> THEN 0 ELSE rows[Len(rows)].after

(* A tip never destroys tokens nor creates them: every change of the       *)
(* balances is one whole operation of Bank.                                *)
B == INSTANCE Bank
TipsAreWhole == B!Spec

--------------------------------------------------------------------------------
(* What comments say and the code does not do *)

(* tokens.service.ts:300: "A concurrent delivery hits the unique           *)
(* constraint and aborts, so nothing is credited twice."                   *)
CreditedOnce ==
    \A s, t \in Tx :
        pc[s] = "done" /\ pc[t] = "done" /\ job[s].ref # None /\ job[s].ref = job[t].ref
            => s = t

(* tokens.service.ts:229: "Only the recipient may answer, and only once."  *)
AnsweredOnce ==
    [][\A t \in Tx : offer[t] \in {"accepted", "declined"} => offer'[t] = offer[t]]_vars
================================================================================
