------------------------ MODULE PinSaltLogProperties ------------------------
(***************************************************************************)
(* What page 125 promises the rest of the wallet.                          *)
(***************************************************************************)
EXTENDS PinSaltLog

(* A record as the page holds it, whatever a scan makes of it: three words  *)
(* in a row, of one salt, wherever they start.                              *)
Holds(i, s) ==
  i + 2 < N /\ \A j \in 0..2 : cells[i + j] = [part |-> Part[j + 1], salt |-> s]

(* Never two records, so SaltState::Ambiguous "cannot happen through this   *)
(* module": however often power is cut while records are written, retired   *)
(* and erased, and wherever in the log a torn write moved the next one.     *)
OneRecord ==
  \A i, j \in Index, s, t \in 1..MaxSalts : Holds(i, s) /\ Holds(j, t) => i = j

(* When begin_wipe has reported Ok, not one quad-word of any salt is left   *)
(* on the page: no half of a salt, no torn word that might still show one.  *)
(* This is what ErasePage and the forgiven attempt counter rest on.         *)
NothingLeft ==
  gone => \A i \in Index : cells[i] \in {Blank, Zero}

(* create only ever programs a quad-word that reads blank, so that it never *)
(* turns a salt's remains into something else and the controller never      *)
(* refuses it: the contract program_qw states and does not check.           *)
ProgramsBlankOnly ==
  [][pc = "program" => cells[base + k] = Blank]_vars

(* The wipe flag is armed before the salt goes, so that a wipe whose first  *)
(* act was to destroy the salt is resumed after a power cut.  The two       *)
(* exceptions are a flag that could not be programmed: a failing program,   *)
(* and a flag a power cut left half programmed.  Retiring a salt for a new  *)
(* wallet never erases the page, and so never touches what else is on it:   *)
(* the wipe flag and the duress mode the wizard has just programmed.        *)
FlagBeforeSalt ==
  [][/\ op = "wipe" /\ Loaded # None /\ Loaded' = None /\ flag = "blank" => faults > 0
     /\ op = "setup" => /\ flag' = flag
                        /\ \A i \in Index : cells[i] # Blank => cells'[i] # Blank]_vars

-----------------------------------------------------------------------------
(* The log implements one cell.                                             *)

Phase == CASE op = "none" -> "rest"
           [] op = "wipe" -> "wipe"
           [] op = "setup" /\ pc \in {"invalidate", "sweep", "draw"} -> "retire"
           [] OTHER -> "mint"

Stored == LET held == {s \in 1..MaxSalts : \E i \in Index : Holds(i, s)}
          IN  IF held = {} THEN None ELSE Max(held)

Promised == INSTANCE SaltCell WITH salt <- Stored, drawn <- drawn, phase <- Phase

(* Only the salt drawn last can ever be loaded, only into an empty log, and *)
(* a salt that was retired, destroyed or torn never parses again, whatever  *)
(* half-done erases and appends follow.                                     *)
ImplementsSaltCell == Promised!Spec
=============================================================================
