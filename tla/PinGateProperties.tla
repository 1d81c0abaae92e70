-------------------------- MODULE PinGateProperties --------------------------
(***************************************************************************)
(* What the PIN gate promises, over PinGate.                               *)
(***************************************************************************)
EXTENDS PinGate

(* Everything that wallet w's PIN needs is in place on both chips.          *)
Complete(w) ==
  /\ w # None /\ salt = w
  /\ optiga.key = w /\ optiga.share = w
  /\ se050.user = w /\ se050.share = w

-----------------------------------------------------------------------------
(* Safety of the budget.                                                    *)

(* However power and chips fail, no more than MaxAttempts wrong PINs are    *)
(* judged by a chip between two right ones: the charge of page 124 precedes *)
(* every question to a chip (nsc::gated_unlock).                           *)
GuessBudget == guesses <= MaxAttempts

(* Page 124 goes down only for a right PIN both chips hold, or when no      *)
(* wallet is left (pin_attempts_reset_after_correct_pin, _after_wipe).      *)
ResetEarned ==
  [][attempts' < attempts =>
       \/ salt = None
       \/ pin = "right" /\ optiga.key = salt /\ se050.user = salt]_vars

(* A session belongs to the wallet whose salt is on flash, and both chips   *)
(* hold that wallet (DualSecureElement::unlock).                           *)
OpenIsVerified == session # None => Complete(session)

(* A session never signs with the off-chain counters of an earlier wallet   *)
(* (first-boot provisioning and the wipe erase page 123).                  *)
Page123Owned == session # None => page123 \in {None, session}

(* While page 124 leaves attempts, neither chip refuses the wallet's own    *)
(* PIN: the three counters never part in the user's disfavour.             *)
NoChipLocksFirst ==
  Complete(salt) /\ attempts < MaxAttempts =>
    se050.tries < MaxAttempts /\ optiga.count < LucLimit

-----------------------------------------------------------------------------
(* The inductive invariant behind the four, in named parts.                *)

Asking == pc = "optiga" /\ entry # "setup"
Matched == pc \in {"e120", "clear"} \/ (pc \in {"se050", "verdict"} /\ verdict = "ok")

(* What the guesses cost: each is paid for, and the one being asked too.    *)
Paid ==
  /\ pc = "charge" => attempts < MaxAttempts
  /\ Asking => attempts <= MaxAttempts /\ guesses < attempts
  /\ salt # None => guesses <= attempts
  /\ salt = None => guesses = 0
  /\ guesses <= MaxAttempts

(* What is known at each point of a setup and of an unlock.                 *)
Writing == {"writeKey", "writeShareO", "writeMark", "sweep", "writeUser", "writeShareE", "ready"}
HasSalt == Writing \cup {"charge", "optiga", "e120", "se050", "clear"}

Proven ==
  /\ pc \in HasSalt => salt # None
  /\ pc \in Writing => guesses = 0
  /\ pc \in {"prompt", "charge", "clear"} => entry # "setup"
  /\ pc = "se050" => verdict \in {"ok", "incorrect"}
  /\ pc \in UnlockPoints /\ entry = "setup" => pin = "right"
  /\ Matched => salt # None /\ pin = "right" /\ optiga.key = salt
  /\ pc = "clear" \/ (pc = "verdict" /\ verdict = "ok") => Complete(salt)
  /\ pc = "verdict" /\ verdict = "ok" /\ entry # "setup" => attempts = 0

(* Nothing but an open wallet has a session.                                *)
SessionHere ==
  /\ session # None => pc = "open"
  /\ pc = "open" => session = salt /\ Complete(salt)

(* The off-chain counters are those of the wallet of the salt, if there is  *)
(* one; a new salt is minted over a blank page.                             *)
Offchain ==
  /\ salt # None => page123 \in {None, salt}
  /\ pc \in {"retire", "mint"} => page123 = None /\ minted < MaxWallets
  /\ pc = "mint" => salt = None

IndInv == TypeOK /\ Paid /\ Proven /\ SessionHere /\ Offchain

-----------------------------------------------------------------------------
(* The wallet is not lost without cause.                                    *)

(* The boot reconcile: while there is a wallet, the OPTIGA's counter leads  *)
(* page 124 in no state the device can get into by itself.                 *)
ReconcileTrusts == pc = "reconcile" /\ salt # None => ~ChipLeads

(* Nothing of an earlier wallet's flash state carries into a wallet just    *)
(* written: its whole budget, no wipe pending, blank off-chain counters.    *)
FreshStart == pc = "ready" => attempts = 0 /\ ~wipeFlag /\ page123 = None

(* A device that boots into the PIN prompt holds a wallet some PIN opens,   *)
(* and the wizard is never shown over such a wallet.                        *)
ProvisionedIsComplete ==
  /\ pc = "prompt" /\ entry = "boot" => Complete(salt)
  /\ pc = "wizard" => ~Complete(salt)

(* The salt of a wallet the user was told is ready is destroyed only when   *)
(* its budget is spent.                                                     *)
OnlySpentWalletsAreWiped ==
  [][Complete(salt) /\ live = salt /\ salt' # salt => attempts >= MaxAttempts]_vars

-----------------------------------------------------------------------------
(* A wipe is complete, or pending.                                          *)

Wiped == /\ salt = None /\ page123 = None
         /\ optiga.key = None /\ optiga.share = None /\ ~optiga.mark
         /\ se050.share = None

(* A wipe that has returned left nothing of the wallet, or left the flag    *)
(* that makes the next boot wipe again (factory_reset_admin).              *)
WipeAccounted == pc = "forgive" => wipeFlag \/ Wiped

(* The flag is lowered only by a chip that has no admin UserID any more     *)
(* (Se050::factory_reset_admin).                                           *)
FlagLoweredOnConfirmation == [][wipeFlag /\ ~wipeFlag' => ~se050.admin /\ salt = None]_vars

-----------------------------------------------------------------------------
(* The device implements the budget: page 124 is the charges, the salt is   *)
(* the owner, and the point the unlock has reached is the state.            *)

BudgetState ==
  CASE pc = "open" -> "open"
    [] Asking -> "asked"
    [] Matched \/ (pc = "optiga" /\ entry = "setup") ->
         IF entry = "setup" THEN "trusted" ELSE "accepted"
    [] OTHER -> "closed"

Budget == INSTANCE AttemptBudget
            WITH owner <- salt, charges <- attempts, wrong <- guesses, state <- BudgetState

(* Every step of the device is a step of AttemptBudget, or none of its      *)
(* business.                                                                *)
ImplementsBudget == Budget!Spec

-----------------------------------------------------------------------------
(* Liveness, for a device that is switched off and on again and again.      *)

RebootsKeepComing == []<>(pc = "off")

(* A wipe once begun is brought to its end.                                 *)
WipeFinishes == RebootsKeepComing => (wipeFlag ~> ~wipeFlag /\ pc \in Quiet)

(* A wallet nobody can open any more does not stay on the chips, and one    *)
(* whose budget is spent is wiped, though the prompts only say that it is   *)
(* locked.                                                                  *)
UnusableWalletGoes ==
  RebootsKeepComing => /\ salt = None /\ Provisioned ~> ~(salt = None /\ Provisioned)
                       /\ BudgetSpent /\ salt # None ~> ~BudgetSpent
=============================================================================
