----------------------------- MODULE GatedUnlock -----------------------------
(***************************************************************************)
(* One PIN attempt: nsc::gated_unlock around DualSecureElement::unlock, and *)
(* what each of its callers makes of the result.  The callers (`entry`):   *)
(*   boot    boot_pin_unlock, the prompt of a provisioned device           *)
(*   pendsv  the re-unlock dialog after the idle wipe                      *)
(*   cmd     CMD_REQUEST_UNLOCK from the non-secure world                  *)
(*   setup   the auto-unlock after a setup, which enters below the gate    *)
(***************************************************************************)
EXTENDS DeviceState

UnlockFrame == UNCHANGED <<wipeFlag, salt, page123, cuts, minted, live>>

(* A fault can meet the setup's own unlock only if power cuts can.          *)
UnlockFault == Here \notin SafePoints /\ Fault("unlock")

Answer(v) == verdict' = v /\ pc' = "verdict"

(* A chip object of wallet w is matched by the credential in hand.          *)
Matches(w) == pin = "right" /\ w = salt

Judged == IF pin = "wrong" THEN guesses + 1 ELSE guesses

-----------------------------------------------------------------------------
(* The gate.                                                                *)

AtMostLimit == attempts <= MaxAttempts                     \* mutant: off by one
BelowLimit == attempts < MaxAttempts

EnterPin ==
  /\ pc = "prompt"
  /\ pin' \in {"right", "wrong"}
  /\ \/ SaltAbsent /\ Answer("internal")       \* refused uncharged, no chip asked
     \/ ~SaltAbsent /\ ~BelowLimit /\ Answer("locked")
     \/ ~SaltAbsent /\ BelowLimit /\ pc' = "charge" /\ verdict' = "none"
  /\ Clean
  /\ UNCHANGED <<attempts, chips, entry, wiping, session, guesses>> /\ UnlockFrame

(* A command's prompt can be cancelled; the re-unlock dialog gives up after *)
(* its bound of PINs, whatever became of them.                              *)
CancelPin ==
  /\ pc = "prompt" /\ entry \in {"cmd", "pendsv"} /\ pc' = "locked"
  /\ Clean
  /\ UNCHANGED <<attempts, chips, call, wiping, session, guesses>> /\ UnlockFrame

(* The attempt is on flash before a chip is asked; if it is not, no chip is *)
(* asked.                                                                   *)
NotCharged == attempts                                     \* mutant: missing charge
Charged == attempts + 1

Charge ==
  /\ pc = "charge"
  /\ \/ Clean /\ attempts' = Charged /\ pc' = "optiga" /\ UNCHANGED verdict
     \/ Fault("flash") /\ attempts' \in {attempts, Charged} /\ Answer("internal")
  /\ UNCHANGED <<chips, entry, pin, wiping, session, guesses>> /\ UnlockFrame

-----------------------------------------------------------------------------
(* The OPTIGA.  Its counter advances when it judges the credential, before  *)
(* the answer is known; a lost answer may leave it advanced.                *)

OptigaLocked ==
  /\ pc = "optiga" /\ optiga.count = LucLimit
  /\ Answer("locked") /\ Clean
  /\ UNCHANGED <<attempts, chips, entry, pin, wiping, session, guesses>> /\ UnlockFrame

OptigaVerify ==
  /\ pc = "optiga" /\ optiga.count < LucLimit
  /\ \/ /\ Clean
        /\ optiga' = [optiga EXCEPT !.count = optiga.count + 1]
        /\ guesses' = Judged
        /\ IF Matches(optiga.key)
             THEN pc' = "e120" /\ UNCHANGED verdict
             ELSE pc' = "se050" /\ verdict' = "incorrect"
     \/ /\ UnlockFault /\ Answer("internal")
        /\ \/ UNCHANGED <<optiga, guesses>>
           \/ optiga' = [optiga EXCEPT !.count = optiga.count + 1] /\ guesses' = Judged
  /\ UNCHANGED <<attempts, se050, entry, pin, wiping, session>> /\ UnlockFrame

CounterKept == optiga                                      \* mutant: missing reset
CounterCleared == [optiga EXCEPT !.count = 0]

(* After a match: read the share, then put the counter back to zero.        *)
OptigaReset ==
  /\ pc = "e120"
  /\ \/ /\ Clean /\ optiga' = CounterCleared
        /\ pc' = "se050" /\ verdict' = "ok"
     \/ /\ UnlockFault /\ optiga' \in {optiga, CounterCleared}
        /\ Answer("internal")
  /\ UNCHANGED <<attempts, se050, entry, pin, wiping, session, guesses>> /\ UnlockFrame

-----------------------------------------------------------------------------
(* The SE050 is asked whether or not the OPTIGA matched, so that its own    *)
(* counter keeps step; the OPTIGA's error is reported first.  Last, both    *)
(* shares must reconstruct the wallet.                                      *)

Se050Counted ==                                            \* mutant: missing reset
  IF Matches(se050.user) THEN se050 ELSE [se050 EXCEPT !.tries = se050.tries + 1]
Se050Tried == [se050 EXCEPT !.tries = IF Matches(se050.user) THEN 0 ELSE se050.tries + 1]

Se050Verdict ==
  CASE se050.user = None           -> "internal"
    [] se050.user # None /\ se050.tries = MaxAttempts -> "locked"
    [] OTHER -> IF Matches(se050.user)
                  THEN IF se050.share # None THEN "ok" ELSE "internal"
                  ELSE "incorrect"

Reconstructs == optiga.share = salt /\ se050.share = salt

Se050Asked == se050.user # None /\ se050.tries < MaxAttempts

Se050Verify ==
  /\ pc = "se050"
  /\ \/ /\ Clean
        /\ se050' = IF Se050Asked THEN Se050Tried ELSE se050
        /\ IF verdict = "incorrect" THEN Answer("incorrect")
           ELSE IF Se050Verdict # "ok" THEN Answer(Se050Verdict)
           ELSE IF ~Reconstructs THEN Answer("internal")
           ELSE IF entry = "setup" THEN Answer("ok")
           ELSE pc' = "clear" /\ UNCHANGED verdict
     \/ /\ UnlockFault
        /\ se050' \in {se050, IF Se050Asked THEN Se050Tried ELSE se050}
        /\ Answer(IF verdict = "incorrect" THEN "incorrect" ELSE "internal")
  /\ UNCHANGED <<attempts, optiga, entry, pin, wiping, session, guesses>> /\ UnlockFrame

(* The verified-success arm forgives the counter; if that fails the unlock  *)
(* fails and the attempt stays charged.                                     *)
ClearAttempts ==
  /\ pc = "clear"
  /\ \/ Clean /\ attempts' = 0 /\ guesses' = 0 /\ Answer("ok")
     \/ Fault("flash") /\ Answer("internal") /\ UNCHANGED <<attempts, guesses>>
  /\ UNCHANGED <<chips, entry, pin, wiping, session>> /\ UnlockFrame

-----------------------------------------------------------------------------
(* What the caller does with the result.                                    *)

Return == verdict' = "none"

OpenSession ==
  /\ pc = "verdict" /\ verdict = "ok"
  /\ session' = salt /\ pc' = "open" /\ Return /\ Clean
  /\ UNCHANGED <<attempts, chips, entry, pin, wiping, guesses>> /\ UnlockFrame

(* The setup's auto-unlock falls back to the boot prompt.  The two prompts  *)
(* stop at a lockout, without a wipe; the re-unlock dialog also gives up on *)
(* repeated failures that judged nothing.                                   *)
PromptAgain ==
  /\ pc = "verdict" /\ verdict # "ok" /\ entry # "cmd"
  /\ entry' = IF entry = "setup" THEN "boot" ELSE entry
  /\ pc' \in IF verdict = "locked" /\ entry # "setup" THEN {"locked"}
             ELSE IF verdict = "internal" /\ entry = "pendsv" THEN {"prompt", "locked"}
             ELSE {"prompt"}
  /\ Return /\ Clean
  /\ UNCHANGED <<attempts, chips, pin, wiping, session, guesses>> /\ UnlockFrame

(* verify_pin_with_chip: the last wrong PIN, or a lockout, wipes at once.   *)
CommandResult ==
  /\ pc = "verdict" /\ verdict # "ok" /\ entry = "cmd"
  /\ IF verdict = "locked" \/ (verdict = "incorrect" /\ BudgetSpent)
       THEN StartWipe("locked")
       ELSE pc' = "locked" /\ UNCHANGED wiping
  /\ Return /\ Clean
  /\ UNCHANGED <<attempts, chips, entry, pin, session, guesses>> /\ UnlockFrame

UnlockStep ==
  \/ Charge \/ OptigaLocked \/ OptigaVerify \/ OptigaReset
  \/ Se050Verify \/ ClearAttempts
  \/ OpenSession \/ PromptAgain \/ CommandResult
=============================================================================
