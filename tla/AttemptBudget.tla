---------------------------- MODULE AttemptBudget ----------------------------
(***************************************************************************)
(* What the PIN gate promises, without chips, flash pages or power: the     *)
(* owner of a wallet is asked for its PIN, every question is paid for in    *)
(* advance out of a budget of MaxAttempts, and only the right PIN, or the   *)
(* destruction of the wallet, makes the budget whole again.                *)
(***************************************************************************)
EXTENDS Integers

CONSTANTS MaxAttempts, Capacity, MaxWallets

VARIABLES
  owner,    \* the wallet, or None
  charges,  \* questions paid for
  wrong,    \* wrong PINs judged
  state     \* closed, asked, accepted (the right PIN), trusted (just set up), open

None == 0
vars == <<owner, charges, wrong, state>>

Init == owner = None /\ charges = 0 /\ wrong = 0 /\ state = "closed"

Mint ==
  /\ owner = None /\ state = "closed"
  /\ owner' \in 1..MaxWallets
  /\ UNCHANGED <<charges, wrong, state>>

(* Paid, and asked; or paid in vain.                                        *)
Charge ==
  /\ owner # None /\ state = "closed" /\ charges < MaxAttempts
  /\ charges' = charges + 1 /\ state' \in {"asked", "closed"}
  /\ UNCHANGED <<owner, wrong>>

Wrong ==
  /\ state = "asked" /\ state' = "closed" /\ wrong' = wrong + 1
  /\ UNCHANGED <<owner, charges>>

Accept == state = "asked" /\ state' = "accepted" /\ UNCHANGED <<owner, charges, wrong>>

(* The PIN the user has just chosen needs no budget.                        *)
Trust ==
  /\ owner # None /\ wrong = 0
  /\ state = "closed" /\ state' = "trusted" /\ UNCHANGED <<owner, charges, wrong>>

(* The budget is made whole before the wallet opens.                        *)
Forgive ==
  /\ state = "accepted" /\ charges' = 0 /\ wrong' = 0
  /\ UNCHANGED <<owner, state>>

(* Interrupted, the forgiveness leaves less charged than before, or a       *)
(* counter that reads as full.                                              *)
Interrupted(c) == 0..c \cup {Capacity}

ForgiveInterrupted ==
  /\ state = "accepted" /\ state' = "closed"
  /\ charges' \in Interrupted(charges) /\ wrong' = 0
  /\ UNCHANGED owner

Open ==
  /\ state = "trusted" \/ (state = "accepted" /\ charges = 0)
  /\ state' = "open" /\ UNCHANGED <<owner, charges, wrong>>

Close == state # "closed" /\ state' = "closed" /\ UNCHANGED <<owner, charges, wrong>>

Destroy == owner' = None /\ wrong' = 0 /\ state = "closed" /\ UNCHANGED <<charges, state>>

Reclaim ==
  /\ owner = None /\ state = "closed"
  /\ charges' \in Interrupted(charges)
  /\ UNCHANGED <<owner, wrong, state>>

Next == \/ Mint \/ Charge \/ Wrong \/ Accept \/ Trust \/ Forgive \/ ForgiveInterrupted
        \/ Open \/ Close \/ Destroy \/ Reclaim

Spec == Init /\ [][Next]_vars
=============================================================================
