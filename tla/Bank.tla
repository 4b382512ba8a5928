---------------------------------- MODULE Bank ----------------------------------
(* What the token ledger promises: every change of a balance is one whole  *)
(* transfer, issue or withdrawal of a positive amount, and nobody spends   *)
(* tokens they do not have.                                                *)
EXTENDS Integers

CONSTANTS User, Amount
VARIABLE balance

Issue(u, n) == balance' = [balance EXCEPT ![u] = @ + n]

Withdraw(u, n) ==
    /\ balance[u] >= n
    /\ balance' = [balance EXCEPT ![u] = @ - n]

Transfer(u, v, n) ==
    /\ u # v
    /\ balance[u] >= n
    /\ balance' = [balance EXCEPT ![u] = @ - n, ![v] = @ + n]

Init == balance \in [User -> Nat]

Next ==
    \E n \in Amount :
        \/ \E u \in User : Issue(u, n) \/ Withdraw(u, n)
        \/ \E u, v \in User : Transfer(u, v, n)

Spec == Init /\ [][Next]_balance
================================================================================
