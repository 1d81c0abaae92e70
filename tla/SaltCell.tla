------------------------------ MODULE SaltCell ------------------------------
(***************************************************************************)
(* What the PIN-salt log of page 125 promises: one cell that holds the salt *)
(* drawn last or nothing.  A salt enters it only by being minted, into an   *)
(* empty cell, right after it was drawn; it leaves only because a setup     *)
(* retires it or a wipe destroys it; and it never comes back.  Power may go *)
(* at any moment, and then the cell still holds what it held, or nothing if *)
(* it was being emptied.                                                   *)
(***************************************************************************)
EXTENDS Naturals

VARIABLES
  salt,    \* the salt an unlock would load, or None
  drawn,   \* the salt drawn last; salts are numbered in the order drawn
  phase    \* what the firmware is doing with the cell

vars == <<salt, drawn, phase>>

None == 0

Init == salt = None /\ drawn = None /\ phase = "rest"

Begin  == phase = "rest" /\ phase' \in {"retire", "wipe"} /\ UNCHANGED <<salt, drawn>>
Draw   == /\ phase = "retire" /\ phase' = "mint"
          /\ salt = None /\ drawn' = drawn + 1 /\ UNCHANGED salt
Mint   == /\ phase = "mint" /\ phase' \in {"mint", "wipe"}
          /\ salt = None /\ salt' = drawn /\ UNCHANGED drawn
Empty  == /\ phase \in {"retire", "wipe"} /\ phase' \in {phase, "wipe"}
          /\ salt' = None /\ UNCHANGED drawn
GiveUp == phase # "rest" /\ phase' = "wipe" /\ UNCHANGED <<salt, drawn>>
Finish == phase \in {"mint", "wipe"} /\ phase' = "rest" /\ UNCHANGED <<salt, drawn>>
Crash  == /\ phase # "rest" /\ phase' = "rest" /\ UNCHANGED drawn
          /\ salt' = salt \/ (phase \in {"retire", "wipe"} /\ salt' = None)

Next == Begin \/ Draw \/ Mint \/ Empty \/ GiveUp \/ Finish \/ Crash

Spec == Init /\ [][Next]_vars
=============================================================================
