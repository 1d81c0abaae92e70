----------------------------- MODULE FactoryReset -----------------------------
(***************************************************************************)
(* DualSecureElement::factory_reset_admin and the counter reset its callers *)
(* make after it, one persistent write per step, so that power can go      *)
(* between any two of them.  `ret` is the caller:                          *)
(*   resume   the boot reconcile        route   the boot resume            *)
(*   locked   trigger_lockout_wipe      halted  the rollback of a setup    *)
(***************************************************************************)
EXTENDS DeviceState

WipeFrame == UNCHANGED <<call, ret, cuts, minted, live>>

(* begin_wipe, first half: best effort, a flag that cannot be armed does    *)
(* not stop the wipe.                                                      *)
ArmFlag(at, next) ==
  /\ pc = at /\ pc' = next
  /\ \/ Clean /\ wipeFlag' = TRUE
     \/ Fault("flash") /\ ~wipeFlag /\ wipeFlag' = FALSE
  /\ UNCHANGED <<attempts, salt, page123, chips, failed, gone, session, guesses>> /\ WipeFrame

(* begin_wipe, second half: the record is overwritten with zeros.  If that  *)
(* does not take, page 125 is erased and the flag, which is on the same     *)
(* page, programmed again; either of the two may fail as well.              *)
DestroySalt(at, next) ==
  /\ pc = at /\ pc' = next
  /\ \/ Clean /\ salt' = None /\ gone' = TRUE /\ UNCHANGED <<wipeFlag, failed>>
     \/ Fault("flash") /\ salt' = None /\ wipeFlag' = TRUE /\ gone' = TRUE /\ UNCHANGED failed
     \/ Fault("flash") /\ salt' = None /\ wipeFlag' = FALSE /\ gone' = FALSE /\ failed' = TRUE
     \/ /\ Fault("flash") /\ salt' \in {salt, None} /\ gone' = FALSE /\ failed' = TRUE
        /\ UNCHANGED wipeFlag
  /\ guesses' = IF salt' = None THEN 0 ELSE guesses
  /\ UNCHANGED <<attempts, page123, chips, session>> /\ WipeFrame

(* Each leg arms the flag again before its first command.                   *)
ArmWipeFlag       == ArmFlag("wipe", "destroySalt")
DestroySaltFirst  == DestroySalt("destroySalt", "wipePage123")
ArmWipeFlagOptiga == ArmFlag("arm2", "wipeTempKey")
ArmWipeFlagSe050  == ArmFlag("arm3", "destroySalt3")
DestroySaltSe050  == DestroySalt("destroySalt3", "arm4")
ArmWipeFlagAgain  == ArmFlag("arm4", "wipeObjects")

ErasePage123 ==
  /\ pc = "wipePage123" /\ pc' = "arm2"
  /\ \/ Clean /\ page123' = Page123Erased /\ UNCHANGED failed
     \/ Fault("flash") /\ failed' = TRUE /\ UNCHANGED page123
  /\ UNCHANGED <<attempts, salt, wipeFlag, chips, gone, session, guesses>> /\ WipeFrame

-----------------------------------------------------------------------------
(* The OPTIGA's leg.  First the optional reset of E120: write a random key  *)
(* to F1D0, verify against it (which itself advances E120), write zero.  A  *)
(* failure there is tolerated if the session can be resynchronised; any     *)
(* other failure ends the leg, and the SE050's leg runs.                    *)

OptigaStep(at, next, new, onSkip) ==
  /\ pc = at
  /\ \/ Clean /\ optiga' = new /\ pc' = next /\ UNCHANGED failed
     \/ /\ onSkip # at /\ Fault("e120")
        /\ optiga' \in {optiga, new} /\ pc' = onSkip /\ UNCHANGED failed
     \/ /\ Fault("wipe")
        /\ optiga' \in {optiga, new} /\ pc' = "arm3" /\ failed' = TRUE
  /\ UNCHANGED <<flash, se050, gone, session, guesses>> /\ WipeFrame

WriteTempKey ==
  OptigaStep("wipeTempKey", "wipeVerify", [optiga EXCEPT !.key = Temp], "wipeMark")

VerifyTempKey ==
  /\ optiga.count < LucLimit
  /\ OptigaStep("wipeVerify", "wipeCounter",
                [optiga EXCEPT !.count = optiga.count + 1], "wipeMark")

(* A saturated E120 refuses the verification with a plain status.           *)
VerifyRefused ==
  /\ pc = "wipeVerify" /\ optiga.count = LucLimit
  /\ pc' = "wipeMark" /\ Clean
  /\ UNCHANGED <<flash, chips, failed, gone, session, guesses>> /\ WipeFrame

ResetE120 ==
  OptigaStep("wipeCounter", "wipeMark", [optiga EXCEPT !.count = 0], "wipeMark")

(* The sentinel goes first, so that a cut from here on leaves a chip that   *)
(* reads as blank.                                                          *)
WriteSentinel ==
  OptigaStep("wipeMark", "wipeKey", [optiga EXCEPT !.mark = FALSE], "wipeMark")
BlankKey ==
  OptigaStep("wipeKey", "wipeShare", [optiga EXCEPT !.key = None], "wipeKey")
BlankShare ==
  OptigaStep("wipeShare", "arm3", [optiga EXCEPT !.share = None], "wipeShare")

-----------------------------------------------------------------------------
(* The SE050's leg: delete the data, then the UserID where its policy       *)
(* allows it, then the admin UserID; look for survivors; erase page 125 if  *)
(* the admin UserID is gone and the leg's own begin_wipe left no salt.      *)

WithoutData   == [se050 EXCEPT !.share = None]
WithoutUserId == IF UserIdDeletable THEN [se050 EXCEPT !.user = None, !.tries = 0] ELSE se050
WithoutAdmin  == [se050 EXCEPT !.admin = FALSE]

(* The leg fails as a whole: no admin PIN (which is no error of the leg),   *)
(* or no session under it.  A chip that is silent from the start counts as  *)
(* one whose admin UserID is gone.                                          *)
Se050LegFails ==
  /\ \/ pc = "arm4" /\ Fault("wipe") /\ pc' = "rearm" /\ UNCHANGED failed
     \/ pc = "wipeObjects" /\ Fault("wipe") /\ pc' = "rearm" /\ failed' = TRUE
     \/ pc = "wipeObjects" /\ Fault("silent") /\ pc' = "wipePage125" /\ failed' = TRUE
  /\ UNCHANGED <<flash, chips, gone, session, guesses>> /\ WipeFrame

(* With no admin UserID only the unauthenticated sweep runs, and it cannot  *)
(* delete an object that has a policy.                                      *)
NoAdminUserId ==
  /\ pc = "wipeObjects" /\ ~se050.admin
  /\ pc' = "survivors" /\ Clean
  /\ UNCHANGED <<flash, chips, failed, gone, session, guesses>> /\ WipeFrame

(* One deletion after another in the admin's session.                       *)
DeleteObject(at, next, new) ==
  /\ pc = at /\ se050.admin /\ pc' = next
  /\ \/ Clean /\ se050' = new
     \/ Fault("delete") /\ UNCHANGED se050
  /\ UNCHANGED <<flash, optiga, failed, gone, session, guesses>> /\ WipeFrame

DeleteData   == DeleteObject("wipeObjects", "wipeUserId", WithoutData)
DeleteUserId == DeleteObject("wipeUserId", "wipeAdmin", WithoutUserId)
DeleteAdmin  == DeleteObject("wipeAdmin", "survivors", WithoutAdmin)

(* A UserID without an admin-delete entry refuses, and the refusal may      *)
(* leave the session unable to delete the admin UserID.  The reinit() that  *)
(* follows makes the queries reliable again.                                *)
UserIdRefused ==
  /\ pc = "wipeUserId" /\ ~UserIdDeletable /\ se050.user # None
  /\ pc' = "survivors" /\ Clean
  /\ UNCHANGED <<flash, chips, failed, gone, session, guesses>> /\ WipeFrame

Survivors == se050.share # None

AfterSurvivorsUnchecked(admin) == "wipePage125"            \* mutant: dropped check
AfterSurvivors(admin) == IF admin THEN "rearm" ELSE "wipePage125"

CheckSurvivors ==
  /\ pc = "survivors" /\ Clean
  /\ failed' = (failed \/ Survivors)
  /\ pc' = AfterSurvivors(se050.admin)
  /\ UNCHANGED <<flash, chips, gone, session, guesses>> /\ WipeFrame

(* Every remaining deletion fails and every query with it: unwrap_or(false) *)
(* reads them as "no survivors" and "no admin UserID".                      *)
LinkLost ==
  /\ pc \in {"wipeObjects", "wipeUserId", "wipeAdmin", "survivors"}
  /\ Fault("silent") /\ pc' = "wipePage125"
  /\ UNCHANGED <<flash, chips, failed, gone, session, guesses>> /\ WipeFrame

ErasePage125 ==
  /\ pc = "wipePage125" /\ pc' = "rearm"
  /\ \/ gone /\ Clean /\ wipeFlag' = FALSE
     \/ gone /\ Fault("flash") /\ UNCHANGED wipeFlag
     \/ ~gone /\ Clean /\ UNCHANGED wipeFlag
  /\ UNCHANGED <<attempts, salt, page123, chips, failed, gone, session, guesses>> /\ WipeFrame

(* "If any part of this wipe failed, put the flag back"; the SRAM caches    *)
(* are wiped whatever happened.                                             *)
NeverRearmed == wipeFlag                                   \* mutant: missing re-arm
Rearmed == wipeFlag \/ failed

RearmIfFailed ==
  /\ pc = "rearm" /\ pc' = "forgive"
  /\ session' = None
  /\ \/ Clean /\ wipeFlag' = Rearmed
     \/ failed /\ ~wipeFlag /\ Fault("flash") /\ UNCHANGED wipeFlag
  /\ UNCHANGED <<attempts, salt, page123, chips, failed, gone, guesses>> /\ WipeFrame

-----------------------------------------------------------------------------
(* The callers' last act: the counter is forgiven only if no salt is left.  *)
(* The rollback of a setup panics instead.                                  *)

ForgiveAlways == TRUE                                      \* mutant: dropped guard
ForgiveNever == FALSE                                      \* mutant: missing reset
MayForgive == SaltAbsent

ForgiveAfterWipe ==
  /\ pc = "forgive" /\ pc' = ret
  /\ \/ ret # "halted" /\ MayForgive /\ Clean /\ attempts' = 0
     \/ ret # "halted" /\ MayForgive /\ Fault("flash") /\ UNCHANGED attempts
     \/ (ret = "halted" \/ ~MayForgive) /\ Clean /\ UNCHANGED attempts
  /\ UNCHANGED <<salt, wipeFlag, page123, chips, failed, gone, session, guesses>> /\ WipeFrame

WipeStep ==
  \/ ArmWipeFlag \/ DestroySaltFirst \/ ErasePage123 \/ ArmWipeFlagOptiga
  \/ WriteTempKey \/ VerifyTempKey \/ VerifyRefused \/ ResetE120
  \/ WriteSentinel \/ BlankKey \/ BlankShare
  \/ ArmWipeFlagSe050 \/ DestroySaltSe050 \/ ArmWipeFlagAgain \/ Se050LegFails \/ NoAdminUserId
  \/ DeleteData \/ DeleteUserId \/ DeleteAdmin \/ UserIdRefused
  \/ CheckSurvivors \/ LinkLost \/ ErasePage125 \/ RearmIfFailed \/ ForgiveAfterWipe
=============================================================================
