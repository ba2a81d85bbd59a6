------------------------------- MODULE Escrow -------------------------------
(***************************************************************************)
(* What the completion state machine promises about money, without rows,   *)
(* handlers, retries or crashes: a request's price is set aside once, and   *)
(* then either part of it is taken and the rest returned, or all of it is   *)
(* returned, or it stays set aside for good.                               *)
(***************************************************************************)
EXTENDS Integers

CONSTANTS User, Row, OwnerOf, Opening, Amount

VARIABLES
  funds,   \* what each user may still spend
  auth,    \* "none", "held", "captured" or "voided"
  amount,  \* what a row holds, or has finally taken
  earned   \* everything taken so far

escrow == <<funds, auth, amount, earned>>

Init ==
  /\ funds  = [u \in User |-> Opening]
  /\ auth   = [r \in Row |-> "none"]
  /\ amount = [r \in Row |-> 0]
  /\ earned = 0

Authorize(r) ==
  /\ auth[r] = "none"
  /\ \E a \in 0..funds[OwnerOf[r]] :
       /\ funds'  = [funds EXCEPT ![OwnerOf[r]] = @ - a]
       /\ amount' = [amount EXCEPT ![r] = a]
  /\ auth' = [auth EXCEPT ![r] = "held"]
  /\ UNCHANGED earned

Capture(r) ==
  /\ auth[r] = "held"
  /\ \E x \in 0..amount[r] :
       /\ funds'  = [funds EXCEPT ![OwnerOf[r]] = @ + (amount[r] - x)]
       /\ amount' = [amount EXCEPT ![r] = x]
       /\ earned' = earned + x
  /\ auth' = [auth EXCEPT ![r] = "captured"]

Void(r) ==
  /\ auth[r] = "held"
  /\ funds'  = [funds EXCEPT ![OwnerOf[r]] = @ + amount[r]]
  /\ amount' = [amount EXCEPT ![r] = 0]
  /\ auth'   = [auth EXCEPT ![r] = "voided"]
  /\ UNCHANGED earned

Deposit(u) ==
  /\ \E a \in Amount : funds' = [funds EXCEPT ![u] = @ + a]
  /\ UNCHANGED <<auth, amount, earned>>

\* Only what is not set aside can be withdrawn.
Withdraw(u) ==
  /\ \E a \in 0..funds[u] : funds' = [funds EXCEPT ![u] = @ - a]
  /\ UNCHANGED <<auth, amount, earned>>

Next ==
  \/ \E r \in Row : Authorize(r) \/ Capture(r) \/ Void(r)
  \/ \E u \in User : Deposit(u) \/ Withdraw(u)

Spec == Init /\ [][Next]_escrow
=============================================================================
