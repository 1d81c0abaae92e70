---------------------------- MODULE PinGateProofs -----------------------------
(*****************************************************************************)
(* The inductive invariant of PinGate and what follows from it.  Most steps *)
(* retreat: they close whatever was going on and keep the wallet as it is   *)
(* or let it go.  One lemma disposes of them all; the rest advance an       *)
(* unlock or a setup, and are taken one by one.                             *)
(*****************************************************************************)
EXTENDS PinGateTypes

(* The points where no PIN is being judged and no session is open.          *)
Elsewhere == Points \ (UnlockPoints \cup {"open", "retire", "mint"})

(* A retreat ends at a point outside unlock and session, with no session;  *)
(* it keeps or drops the wallet, never changes it, and never takes a        *)
(* charge back while the guesses it paid for stand.                         *)
Retreat ==
  /\ pc' \in Elsewhere /\ session' = None
  /\ page123' \in {page123, None} /\ salt' \in {salt, None}
  /\ guesses' = 0 \/ (salt' = salt /\ guesses' = guesses /\ attempts' >= attempts)
  /\ salt' = None => guesses' = 0 /\ pc' \notin HasSalt
  /\ pc' = "prompt" => entry' # "setup"
  /\ pc' \in Writing => guesses' = 0

(* A retreat keeps the invariant: what it lets go of is all the invariant  *)
(* asks of a point outside unlock and session.                             *)
LEMMA RetreatSafe ==
  ASSUME IndInv, TypeOK', Retreat
  PROVE  IndInv'
<1> USE BoundsAssumption DEF Retreat, Elsewhere, Points, UnlockPoints, BootPoints,
       SetupPoints, WipePoints, None
<1>1. Paid' BY DEF IndInv, Paid, Asking, TypeOK, FlashOK, WorldOK
<1>2. Proven' BY DEF Proven, Matched, HasSalt, Writing
<1>3. SessionHere' BY DEF SessionHere
<1>4. Offchain' BY DEF IndInv, Offchain
<1> QED BY <1>1, <1>2, <1>3, <1>4 DEF IndInv

(* Next, split into the two kinds of step.                                  *)
SetupRetreat ==
  \/ WriteKey \/ WriteShareO \/ WriteMark \/ SweepStale \/ WriteUserId \/ WriteShareE

OtherRetreat ==
  \/ PowerOn \/ Reconcile \/ Resume \/ Route \/ CancelPin \/ PromptAgain
  \/ CommandResult \/ RequestUnlock \/ Lock \/ IdleLock \/ PowerCycle \/ PowerCut
  \/ TornErase \/ TornFallback

Advance ==
  \/ FinishWizard \/ RetireSalt \/ MintSalt \/ AutoUnlock \/ EnterPin \/ Charge
  \/ OptigaLocked \/ OptigaVerify \/ OptigaReset \/ Se050Verify \/ ClearAttempts
  \/ OpenSession \/ SignOffchain

-----------------------------------------------------------------------------
(* Every step of a wipe is a retreat.                                      *)
LEMMA WipeRetreats ==
  ASSUME IndInv, WipeStep
  PROVE  Retreat
<1> USE DEF None, IndInv, TypeOK, FlashOK, VolatileOK, WorldOK, Paid, Proven, HasSalt,
       Writing, SessionHere, Retreat, Elsewhere, Points, BootPoints, SetupPoints,
       UnlockPoints, WipePoints, Returns, SaltAbsent, StartWipe, Clean, Fault, flash,
       chips, call, wiping, observed, WipeFrame
<1>1. CASE ArmWipeFlag BY <1>1 DEF ArmWipeFlag, ArmFlag
<1>2. CASE DestroySaltFirst BY <1>2 DEF DestroySaltFirst, DestroySalt
<1>3. CASE ErasePage123 BY <1>3 DEF ErasePage123, Page123Erased
<1>4. CASE ArmWipeFlagOptiga BY <1>4 DEF ArmWipeFlagOptiga, ArmFlag
<1>5. CASE WriteTempKey BY <1>5 DEF WriteTempKey, OptigaStep
<1>6. CASE VerifyTempKey BY <1>6 DEF VerifyTempKey, OptigaStep
<1>7. CASE VerifyRefused BY <1>7 DEF VerifyRefused
<1>8. CASE ResetE120 BY <1>8 DEF ResetE120, OptigaStep
<1>9. CASE WriteSentinel BY <1>9 DEF WriteSentinel, OptigaStep
<1>10. CASE BlankKey BY <1>10 DEF BlankKey, OptigaStep
<1>11. CASE BlankShare BY <1>11 DEF BlankShare, OptigaStep
<1>12. CASE ArmWipeFlagSe050 BY <1>12 DEF ArmWipeFlagSe050, ArmFlag
<1>13. CASE DestroySaltSe050 BY <1>13 DEF DestroySaltSe050, DestroySalt
<1>14. CASE Se050LegFails BY <1>14 DEF Se050LegFails
<1>15. CASE NoAdminUserId BY <1>15 DEF NoAdminUserId
<1>16. CASE DeleteData BY <1>16 DEF DeleteData, DeleteObject, WithoutData
<1>17. CASE DeleteUserId BY <1>17 DEF DeleteUserId, DeleteObject, WithoutUserId
<1>18. CASE DeleteAdmin BY <1>18 DEF DeleteAdmin, DeleteObject, WithoutAdmin
<1>19. CASE CheckSurvivors BY <1>19 DEF CheckSurvivors, AfterSurvivors
<1>20. CASE LinkLost BY <1>20 DEF LinkLost
<1>21. CASE ErasePage125 BY <1>21 DEF ErasePage125
<1>22. CASE RearmIfFailed BY <1>22 DEF RearmIfFailed, Rearmed
<1>23. CASE ForgiveAfterWipe BY <1>23 DEF ForgiveAfterWipe, MayForgive
<1>24. CASE UserIdRefused BY <1>24 DEF UserIdRefused
<1>25. CASE ArmWipeFlagAgain BY <1>25 DEF ArmWipeFlagAgain, ArmFlag
<1> QED BY <1>1, <1>2, <1>3, <1>4, <1>5, <1>6, <1>7, <1>8, <1>9, <1>10, <1>11, <1>12,
       <1>13, <1>14, <1>15, <1>16, <1>17, <1>18, <1>19, <1>20, <1>21, <1>22, <1>23,
       <1>24, <1>25 DEF WipeStep

(* Every write of a setup to a chip is a retreat.                          *)
LEMMA SetupRetreats ==
  ASSUME IndInv, SetupRetreat
  PROVE  Retreat
<1> USE DEF None, IndInv, TypeOK, FlashOK, VolatileOK, WorldOK, Paid, Proven, HasSalt,
       Writing, SessionHere, Retreat, Elsewhere, Points, BootPoints, SetupPoints,
       UnlockPoints, WipePoints, Returns, SaltAbsent, StartWipe, Clean, Fault, flash,
       chips, call, wiping, observed, SetupFrame, Rollback
<1>1. CASE WriteKey BY <1>1 DEF WriteKey, WriteOptiga
<1>2. CASE WriteShareO BY <1>2 DEF WriteShareO, WriteOptiga
<1>3. CASE WriteMark BY <1>3 DEF WriteMark, WriteOptiga
<1>4. CASE SweepStale BY <1>4 DEF SweepStale
<1>5. CASE WriteUserId BY <1>5 DEF WriteUserId, WriteSe050
<1>6. CASE WriteShareE BY <1>6 DEF WriteShareE, WriteSe050
<1> QED BY <1>1, <1>2, <1>3, <1>4, <1>5, <1>6 DEF SetupRetreat

(* So are the boot, the end of a session, the answer to a failed unlock and*)
(* the loss of power.                                                      *)
LEMMA OtherRetreats ==
  ASSUME IndInv, OtherRetreat
  PROVE  Retreat
<1> USE DEF None, IndInv, TypeOK, FlashOK, VolatileOK, WorldOK, Paid, Proven, HasSalt,
       Writing, SessionHere, Retreat, Elsewhere, Points, BootPoints, SetupPoints,
       UnlockPoints, WipePoints, Returns, SaltAbsent, StartWipe, Clean, Fault, flash,
       chips, call, wiping, observed, BootFrame, SessionFrame, UnlockFrame, Return
<1>1. CASE PowerOn BY <1>1 DEF PowerOn
<1>2. CASE Reconcile BY <1>2 DEF Reconcile
<1>3. CASE Resume BY <1>3 DEF Resume
<1>4. CASE Route BY <1>4 DEF Route
<1>5. CASE CancelPin BY <1>5 DEF CancelPin
<1>6. CASE PromptAgain BY <1>6 DEF PromptAgain
<1>7. CASE CommandResult BY <1>7 DEF CommandResult
<1>8. CASE RequestUnlock BY <1>8 DEF RequestUnlock
<1>9. CASE Lock BY <1>9 DEF Lock, Zeroized
<1>10. CASE IdleLock BY <1>10 DEF IdleLock, Zeroized
<1>11. CASE PowerCycle BY <1>11 DEF PowerCycle, Reset
<1>12. CASE PowerCut BY <1>12 DEF PowerCut, Reset
<1>13. CASE TornErase BY <1>13 DEF TornErase, Reset
<1>14. CASE TornFallback BY <1>14 DEF TornFallback, Reset
<1> QED BY <1>1, <1>2, <1>3, <1>4, <1>5, <1>6, <1>7, <1>8, <1>9, <1>10, <1>11, <1>12,
       <1>13, <1>14 DEF OtherRetreat

-----------------------------------------------------------------------------
(* The steps that are no retreat keep the invariant.                       *)
LEMMA AdvanceSafe ==
  ASSUME IndInv, TypeOK', Advance
  PROVE  IndInv'
<1> USE BoundsAssumption DEF IndInv, TypeOK, SaltAbsent, None, Clean, Fault, flash,
       chips, call, wiping, observed
<1>1. CASE FinishWizard
  <2> USE <1>1 DEF FinishWizard, SetupFrame, Page123Erased
  <2>1. Paid' BY DEF Paid, Asking, Proven, UnlockPoints, FlashOK, WorldOK
  <2>2. Proven' BY DEF Proven, HasSalt, Writing, Matched, Complete, UnlockPoints, ChipsOK
  <2>3. SessionHere' BY DEF SessionHere, Proven, Complete
  <2>4. Offchain' BY DEF Offchain, SessionHere
  <2> QED BY <2>1, <2>2, <2>3, <2>4
<1>2. CASE RetireSalt
  <2> USE <1>2 DEF RetireSalt, SetupFrame, Rollback, StartWipe
  <2>1. Paid' BY DEF Paid, Asking, Proven, UnlockPoints, FlashOK, WorldOK
  <2>2. Proven' BY DEF Proven, HasSalt, Writing, Matched, Complete, UnlockPoints, ChipsOK
  <2>3. SessionHere' BY DEF SessionHere, Proven, Complete
  <2>4. Offchain' BY DEF Offchain, SessionHere
  <2> QED BY <2>1, <2>2, <2>3, <2>4
<1>3. CASE MintSalt
  <2> USE <1>3 DEF MintSalt, SetupFrame, Rollback, StartWipe
  <2>1. Paid' BY DEF Paid, Asking, Proven, UnlockPoints, FlashOK, WorldOK
  <2>2. Proven' BY DEF Proven, HasSalt, Writing, Matched, Complete, UnlockPoints,
         ChipsOK, WorldOK, Paid, Offchain
  <2>3. SessionHere' BY DEF SessionHere, Proven, Complete
  <2>4. Offchain' BY DEF Offchain, SessionHere
  <2> QED BY <2>1, <2>2, <2>3, <2>4
<1>4. CASE AutoUnlock
  <2> USE <1>4 DEF AutoUnlock, SetupFrame
  <2>1. Paid' BY DEF Paid, Asking, Proven, UnlockPoints, FlashOK, WorldOK
  <2>2. Proven' BY DEF Proven, HasSalt, Writing, Matched, Complete, UnlockPoints, ChipsOK
  <2>3. SessionHere' BY DEF SessionHere, Proven, Complete
  <2>4. Offchain' BY DEF Offchain, SessionHere
  <2> QED BY <2>1, <2>2, <2>3, <2>4
<1>5. CASE EnterPin
  <2> USE <1>5 DEF EnterPin, UnlockFrame, Answer, BelowLimit
  <2>1. Paid' BY DEF Paid, Asking, Proven, UnlockPoints, FlashOK, WorldOK
  <2>2. Proven' BY DEF Proven, HasSalt, Writing, Matched, Complete, UnlockPoints, ChipsOK
  <2>3. SessionHere' BY DEF SessionHere, Proven, Complete
  <2>4. Offchain' BY DEF Offchain, SessionHere
  <2> QED BY <2>1, <2>2, <2>3, <2>4
<1>6. CASE Charge
  <2> USE <1>6 DEF Charge, UnlockFrame, Answer, Charged
  <2>1. Paid' BY DEF Paid, Asking, Proven, UnlockPoints, FlashOK, WorldOK
  <2>2. Proven' BY DEF Proven, HasSalt, Writing, Matched, Complete, UnlockPoints, ChipsOK
  <2>3. SessionHere' BY DEF SessionHere, Proven, Complete
  <2>4. Offchain' BY DEF Offchain, SessionHere
  <2> QED BY <2>1, <2>2, <2>3, <2>4
<1>7. CASE OptigaLocked
  <2> USE <1>7 DEF OptigaLocked, UnlockFrame, Answer
  <2>1. Paid' BY DEF Paid, Asking, Proven, UnlockPoints, FlashOK, WorldOK
  <2>2. Proven' BY DEF Proven, HasSalt, Writing, Matched, Complete, UnlockPoints, ChipsOK
  <2>3. SessionHere' BY DEF SessionHere, Proven, Complete
  <2>4. Offchain' BY DEF Offchain, SessionHere
  <2> QED BY <2>1, <2>2, <2>3, <2>4
<1>8. CASE OptigaVerify
  <2> USE <1>8 DEF OptigaVerify, UnlockFrame, UnlockFault, Answer, Judged, Matches
  <2>1. Paid' BY DEF Paid, Asking, Proven, HasSalt, Writing, UnlockPoints, FlashOK, WorldOK
  <2>2. Proven' BY DEF Proven, HasSalt, Writing, Matched, Complete, UnlockPoints, ChipsOK
  <2>3. SessionHere' BY DEF SessionHere, Proven, Complete
  <2>4. Offchain' BY DEF Offchain, SessionHere
  <2> QED BY <2>1, <2>2, <2>3, <2>4
<1>9. CASE OptigaReset
  <2> USE <1>9 DEF OptigaReset, UnlockFrame, UnlockFault, Answer, CounterCleared
  <2>1. Paid' BY DEF Paid, Asking, Proven, UnlockPoints, FlashOK, WorldOK
  <2>2. Proven' BY DEF Proven, HasSalt, Writing, Matched, Complete, UnlockPoints, ChipsOK
  <2>3. SessionHere' BY DEF SessionHere, Proven, Complete
  <2>4. Offchain' BY DEF Offchain, SessionHere
  <2> QED BY <2>1, <2>2, <2>3, <2>4
<1>10. CASE Se050Verify
  <2> USE <1>10 DEF Se050Verify, UnlockFrame, UnlockFault, Answer, Se050Asked,
         Se050Tried, Se050Verdict, Reconstructs, Matches
  <2>1. Paid' BY DEF Paid, Asking, Proven, UnlockPoints, FlashOK, WorldOK
  <2>2. Proven' BY DEF Proven, HasSalt, Writing, Matched, Complete, UnlockPoints, ChipsOK
  <2>3. SessionHere' BY DEF SessionHere, Proven, Complete
  <2>4. Offchain' BY DEF Offchain, SessionHere
  <2> QED BY <2>1, <2>2, <2>3, <2>4
<1>11. CASE ClearAttempts
  <2> USE <1>11 DEF ClearAttempts, UnlockFrame, Answer
  <2>1. Paid' BY DEF Paid, Asking, Proven, UnlockPoints, FlashOK, WorldOK
  <2>2. Proven' BY DEF Proven, HasSalt, Writing, Matched, Complete, UnlockPoints, ChipsOK
  <2>3. SessionHere' BY DEF SessionHere, Proven, Complete
  <2>4. Offchain' BY DEF Offchain, SessionHere
  <2> QED BY <2>1, <2>2, <2>3, <2>4
<1>12. CASE OpenSession
  <2> USE <1>12 DEF OpenSession, UnlockFrame, Return
  <2>1. Paid' BY DEF Paid, Asking, Proven, UnlockPoints, FlashOK, WorldOK
  <2>2. Proven' BY DEF Proven, HasSalt, Writing, Matched, Complete, UnlockPoints, ChipsOK
  <2>3. SessionHere' BY DEF SessionHere, Proven, Complete
  <2>4. Offchain' BY DEF Offchain, SessionHere
  <2> QED BY <2>1, <2>2, <2>3, <2>4
<1>13. CASE SignOffchain
  <2> USE <1>13 DEF SignOffchain, SessionFrame
  <2>1. Paid' BY DEF Paid, Asking, Proven, UnlockPoints, FlashOK, WorldOK
  <2>2. Proven' BY DEF Proven, HasSalt, Writing, Matched, Complete, UnlockPoints, ChipsOK
  <2>3. SessionHere' BY DEF SessionHere, Proven, Complete
  <2>4. Offchain' BY DEF Offchain, SessionHere
  <2> QED BY <2>1, <2>2, <2>3, <2>4
<1> QED BY <1>1, <1>2, <1>3, <1>4, <1>5, <1>6, <1>7, <1>8, <1>9, <1>10, <1>11, <1>12,
       <1>13 DEF Advance

-----------------------------------------------------------------------------
(* The invariant holds of a blank device that is switched off.             *)
LEMMA InitInv == Init => IndInv
<1> SUFFICES ASSUME Init PROVE IndInv
  OBVIOUS
<1> USE DEF Init, None
<1>1. TypeOK
  <2> USE BoundsAssumption DEF Owners
  <2>1. FlashOK
    <3>1. attempts \in 0..Capacity OBVIOUS
    <3>2. salt \in Owners /\ page123 \in Owners OBVIOUS
    <3>3. wipeFlag \in BOOLEAN OBVIOUS
    <3> QED BY <3>1, <3>2, <3>3 DEF FlashOK
  <2>2. ChipsOK BY DEF ChipsOK
  <2>3. VolatileOK BY DEF VolatileOK, Points, Entries, Verdicts, Returns
  <2>4. WorldOK BY DEF WorldOK
  <2> QED BY <2>1, <2>2, <2>3, <2>4 DEF TypeOK
<1>2. Paid BY BoundsAssumption DEF Paid, Asking
<1>3. Proven BY DEF Proven, HasSalt, Writing, Matched, UnlockPoints
<1>4. SessionHere BY DEF SessionHere
<1>5. Offchain BY DEF Offchain
<1> QED BY <1>1, <1>2, <1>3, <1>4, <1>5 DEF IndInv

(* Every step keeps the types.                                             *)
LEMMA NextType ==
  ASSUME IndInv, Next
  PROVE  TypeOK'
<1>1. TypeOK /\ Paid /\ Offchain
  BY DEF IndInv
<1>2. CASE WipeStep
  BY <1>1, <1>2, WipeTypes
<1>3. CASE SetupStep
  BY <1>1, <1>3, SetupTypes
<1>4. CASE UnlockStep
  BY <1>1, <1>4, UnlockTypes
<1>5. CASE OtherStep
  BY <1>1, <1>5, OtherTypes
<1> QED BY <1>2, <1>3, <1>4, <1>5 DEF Next, User, Firmware, OtherStep, SetupStep

(* Every step keeps the invariant.                                         *)
LEMMA NextInv ==
  ASSUME IndInv, [Next]_vars
  PROVE  IndInv'
<1>1. CASE Next
  <2>1. TypeOK'
    BY <1>1, NextType
  <2>2. CASE WipeStep \/ SetupRetreat \/ OtherRetreat
    BY <2>1, <2>2, WipeRetreats, SetupRetreats, OtherRetreats, RetreatSafe
  <2>3. CASE Advance
    BY <2>1, <2>3, AdvanceSafe
  <2> QED BY <1>1, <2>2, <2>3 DEF Next, User, Firmware, Power, BootStep, SessionStep,
         UnlockStep, SetupRetreat, OtherRetreat, Advance
<1>2. CASE UNCHANGED vars
  BY <1>2 DEF vars, flash, chips, call, wiping, observed, IndInv, TypeOK, FlashOK,
     ChipsOK, VolatileOK, WorldOK, Paid, Asking, Proven, Matched, Complete, SessionHere,
     Offchain
<1> QED BY <1>1, <1>2

(* IndInv holds in every reachable state, whatever the limits, the faults  *)
(* and the power cuts.                                                     *)
THEOREM Invariant == Spec => []IndInv
<1>1. Init => IndInv
  BY InitInv
<1>2. IndInv /\ [Next]_vars => IndInv'
  BY NextInv
<1> QED BY <1>1, <1>2, PTL DEF Spec

-----------------------------------------------------------------------------
(* The properties.                                                         *)

(* The model is type correct.                                              *)
THEOREM TypeCorrect == Spec => []TypeOK
<1>1. IndInv => TypeOK BY DEF IndInv
<1> QED BY <1>1, Invariant, PTL

(* No more than MaxAttempts wrong PINs are judged by a chip between two    *)
(* right ones, for every limit, any number of faults and power cuts at any *)
(* point (nsc::gated_unlock).                                              *)
THEOREM BudgetKept == Spec => []GuessBudget
<1>1. IndInv => GuessBudget BY DEF IndInv, Paid, GuessBudget
<1> QED BY <1>1, Invariant, PTL

(* A session belongs to a wallet both chips hold                           *)
(* (DualSecureElement::unlock).                                            *)
THEOREM SessionsVerified == Spec => []OpenIsVerified
<1>1. IndInv => OpenIsVerified BY DEF IndInv, SessionHere, OpenIsVerified
<1> QED BY <1>1, Invariant, PTL

(* A session never signs with the off-chain counters of another wallet (the*)
(* erase of page 123).                                                     *)
THEOREM CountersOwned == Spec => []Page123Owned
<1>1. IndInv => Page123Owned
  BY DEF IndInv, SessionHere, Offchain, Complete, Page123Owned
<1> QED BY <1>1, Invariant, PTL

(* What a lowered counter needs.                                           *)
Earned == salt = None \/ (pin = "right" /\ optiga.key = salt /\ se050.user = salt)

(* Only a verified PIN, or a wallet that is gone, lowers page 124 in one   *)
(* step.                                                                   *)
LEMMA StepEarned ==
  ASSUME IndInv, [Next]_vars
  PROVE  attempts' < attempts => Earned
<1> USE DEF IndInv, TypeOK, FlashOK, flash, Earned
<1>1. CASE WipeStep
  <2>1. CASE ForgiveAfterWipe
    BY <2>1 DEF ForgiveAfterWipe, MayForgive, SaltAbsent
  <2>2. ASSUME ~ForgiveAfterWipe PROVE attempts' = attempts
    BY <1>1, <2>2 DEF WipeStep, ArmWipeFlag, DestroySaltFirst, ErasePage123,
       ArmWipeFlagOptiga, WriteTempKey, VerifyTempKey, VerifyRefused, ResetE120,
       WriteSentinel, BlankKey, BlankShare, ArmWipeFlagSe050, ArmWipeFlagAgain,
       DestroySaltSe050, Se050LegFails, NoAdminUserId, UserIdRefused, DeleteData,
       DeleteUserId, DeleteAdmin, CheckSurvivors, LinkLost, ErasePage125, RearmIfFailed,
       ArmFlag, DestroySalt, OptigaStep, DeleteObject
  <2> QED BY <2>1, <2>2
<1>2. CASE SetupStep
  BY <1>2 DEF SetupStep, FinishWizard, RetireSalt, MintSalt, WriteKey, WriteShareO,
     WriteMark, SweepStale, WriteUserId, WriteShareE, AutoUnlock, WriteOptiga,
     WriteSe050, SetupFrame
<1>3. CASE UnlockStep
  <2>1. CASE ClearAttempts
    BY <2>1 DEF ClearAttempts, Proven, Matched, Complete
  <2>2. CASE Charge
    BY <2>2 DEF Charge, Charged
  <2>3. ASSUME ~ClearAttempts, ~Charge PROVE attempts' = attempts
    BY <1>3, <2>3 DEF UnlockStep, OptigaLocked, OptigaVerify, OptigaReset, Se050Verify,
       OpenSession, PromptAgain, CommandResult
  <2> QED BY <2>1, <2>2, <2>3
<1>4. CASE OtherStep
  <2>1. CASE TornErase
    BY <2>1 DEF TornErase, Erasing124, MayForgive, SaltAbsent, Proven, Matched, Complete
  <2>2. ASSUME ~TornErase PROVE attempts' = attempts
    BY <1>4, <2>2 DEF OtherStep, PowerOn, BootStep, Reconcile, Resume, Route, BootFrame,
       EnterPin, CancelPin, SessionStep, RequestUnlock, Lock, IdleLock, SignOffchain,
       SessionFrame, Power, PowerCycle, PowerCut, TornFallback
  <2> QED BY <2>1, <2>2
<1>5. CASE UNCHANGED vars
  BY <1>5 DEF vars
<1> QED BY <1>1, <1>2, <1>3, <1>4, <1>5 DEF Next, User, Firmware, OtherStep, SetupStep

(* Page 124 goes down only for a right PIN both chips hold, or when no     *)
(* wallet is left (pin_attempts_reset_after_correct_pin,                   *)
(* pin_attempts_reset_after_wipe).                                         *)
THEOREM ResetsEarned == Spec => ResetEarned
<1>1. IndInv /\ [Next]_vars => [attempts' < attempts => Earned]_vars
  BY StepEarned
<1> QED BY <1>1, Invariant, PTL DEF Spec, ResetEarned, Earned

-----------------------------------------------------------------------------
(* A wipe is complete, or pending, as long as the page it writes and the     *)
(* queries it asks answer truly.                                            *)

FlashAndQueriesHold == {"flash", "silent"} \cap Faults = {}

FromHere == {"rearm", "forgive"}
From125 == FromHere \cup {"wipePage125"}
Se050Leg == {"arm3", "destroySalt3", "arm4", "wipeObjects", "wipeUserId", "wipeAdmin",
             "survivors"}
FromArm3 == From125 \cup Se050Leg
OptigaLeg == {"arm2", "wipeTempKey", "wipeVerify", "wipeCounter", "wipeMark", "wipeKey",
              "wipeShare"}

OptigaBlank == optiga.key = None /\ optiga.share = None /\ ~optiga.mark

(* How far the wipe has got, at each of its points.                         *)
Progress ==
  /\ pc \in WipePoints \ ({"wipe"} \cup FromHere) => wipeFlag
  /\ pc \in {"wipePage123"} \cup OptigaLeg \cup FromArm3 => salt = None
  /\ pc \in OptigaLeg \cup FromArm3 => page123 = None
  /\ pc \in {"wipeKey", "wipeShare"} => ~optiga.mark
  /\ pc = "wipeShare" => optiga.key = None
  /\ pc \in FromArm3 \ {"forgive"} => failed \/ OptigaBlank
  /\ pc = "wipePage125" => ~se050.admin /\ (failed \/ Wiped)
  /\ pc = "rearm" => wipeFlag \/ failed \/ Wiped
  /\ pc = "forgive" => wipeFlag \/ Wiped

(* Outside a wipe nothing is to be shown; a wipe starts at its first point.  *)
LEMMA WipeBegins ==
  ASSUME Next, ~WipeStep
  PROVE  pc' \notin WipePoints \ {"wipe"}
<1> USE DEF WipePoints, BootPoints, SetupPoints, UnlockPoints, StartWipe, Rollback,
       Answer, Reset, Clean
<1>1. CASE SetupStep
  BY <1>1 DEF SetupStep, FinishWizard, RetireSalt, MintSalt, WriteKey, WriteShareO,
     WriteMark, SweepStale, WriteUserId, WriteShareE, AutoUnlock, WriteOptiga,
     WriteSe050
<1>2. CASE UnlockStep
  BY <1>2 DEF UnlockStep, Charge, OptigaLocked, OptigaVerify, OptigaReset, Se050Verify,
     ClearAttempts, OpenSession, PromptAgain, CommandResult
<1>3. CASE PowerOn \/ BootStep
  BY <1>3 DEF PowerOn, BootStep, Reconcile, Resume, Route
<1>4. CASE EnterPin \/ CancelPin
  BY <1>4 DEF EnterPin, CancelPin
<1>5. CASE RequestUnlock \/ Lock \/ IdleLock
  BY <1>5 DEF RequestUnlock, Lock, IdleLock
<1>6. CASE SignOffchain
  BY <1>6 DEF SignOffchain
<1>7. CASE Power
  BY <1>7 DEF Power, PowerCycle, PowerCut, TornErase, TornFallback
<1> QED BY <1>1, <1>2, <1>3, <1>4, <1>5, <1>6, <1>7 DEF Next, User, Firmware, SetupStep,
       SessionStep

(* Every step of a wipe leaves what the ones before it have done.            *)
LEMMA WipeProgresses ==
  ASSUME FlashAndQueriesHold, TypeOK, Progress, WipeStep
  PROVE  Progress'
<1> USE DEF FlashAndQueriesHold, TypeOK, ChipsOK, Progress, Wiped, OptigaBlank,
       FromHere, From125, FromArm3, Se050Leg, OptigaLeg, WipePoints, WipeFrame, Clean,
       Fault, flash, chips
<1>1. CASE ArmWipeFlag BY <1>1 DEF ArmWipeFlag, ArmFlag
<1>2. CASE DestroySaltFirst BY <1>2 DEF DestroySaltFirst, DestroySalt
<1>3. CASE ErasePage123 BY <1>3 DEF ErasePage123, Page123Erased
<1>4. CASE ArmWipeFlagOptiga BY <1>4 DEF ArmWipeFlagOptiga, ArmFlag
<1>5. CASE WriteTempKey BY <1>5 DEF WriteTempKey, OptigaStep
<1>6. CASE VerifyTempKey BY <1>6 DEF VerifyTempKey, OptigaStep
<1>7. CASE VerifyRefused BY <1>7 DEF VerifyRefused
<1>8. CASE ResetE120 BY <1>8 DEF ResetE120, OptigaStep
<1>9. CASE WriteSentinel BY <1>9 DEF WriteSentinel, OptigaStep
<1>10. CASE BlankKey BY <1>10 DEF BlankKey, OptigaStep
<1>11. CASE BlankShare BY <1>11 DEF BlankShare, OptigaStep
<1>12. CASE ArmWipeFlagSe050 BY <1>12 DEF ArmWipeFlagSe050, ArmFlag
<1>13. CASE DestroySaltSe050 BY <1>13 DEF DestroySaltSe050, DestroySalt
<1>14. CASE ArmWipeFlagAgain BY <1>14 DEF ArmWipeFlagAgain, ArmFlag
<1>15. CASE Se050LegFails BY <1>15 DEF Se050LegFails
<1>16. CASE NoAdminUserId BY <1>16 DEF NoAdminUserId
<1>17. CASE DeleteData BY <1>17 DEF DeleteData, DeleteObject
<1>18. CASE DeleteUserId BY <1>18 DEF DeleteUserId, DeleteObject
<1>19. CASE DeleteAdmin BY <1>19 DEF DeleteAdmin, DeleteObject
<1>20. CASE UserIdRefused BY <1>20 DEF UserIdRefused
<1>21. CASE CheckSurvivors BY <1>21 DEF CheckSurvivors, Survivors, AfterSurvivors
<1>22. CASE LinkLost BY <1>22 DEF LinkLost
<1>23. CASE ErasePage125 BY <1>23 DEF ErasePage125
<1>24. CASE RearmIfFailed BY <1>24 DEF RearmIfFailed, Rearmed
<1>25. CASE ForgiveAfterWipe
  <2>1. pc' \notin WipePoints BY <1>25 DEF ForgiveAfterWipe, VolatileOK, Returns
  <2> QED BY <2>1
<1> QED BY <1>1, <1>2, <1>3, <1>4, <1>5, <1>6, <1>7, <1>8, <1>9, <1>10, <1>11, <1>12,
       <1>13, <1>14, <1>15, <1>16, <1>17, <1>18, <1>19, <1>20, <1>21, <1>22, <1>23,
       <1>24, <1>25 DEF WipeStep

(* In every reachable state a wipe is as far as its point says.              *)
LEMMA WipeProgress ==
  ASSUME FlashAndQueriesHold
  PROVE  Spec => []Progress
<1> USE DEF FromHere, From125, FromArm3, Se050Leg, OptigaLeg, WipePoints
<1>1. Init => Progress BY DEF Init, Progress
<1>2. ASSUME IndInv, Progress, [Next]_vars PROVE Progress'
  <2>1. CASE WipeStep BY <1>2, <2>1, WipeProgresses DEF IndInv
  <2>2. CASE Next /\ ~WipeStep BY <2>2, WipeBegins DEF Progress
  <2>3. CASE UNCHANGED vars
    BY <1>2, <2>3 DEF vars, flash, chips, wiping, Progress, Wiped, OptigaBlank
  <2> QED BY <1>2, <2>1, <2>2, <2>3
<1> QED BY <1>1, <1>2, Invariant, PTL DEF Spec

(* A wipe that has returned left nothing of the wallet, or the flag that     *)
(* makes the next boot wipe again, whatever cuts, torn erases of page 124,    *)
(* lost deletions and failing exchanges with the chips came in between        *)
(* (factory_reset_admin).                                                   *)
THEOREM WipesAccounted ==
  ASSUME FlashAndQueriesHold
  PROVE  Spec => []WipeAccounted
<1>1. Progress => WipeAccounted BY DEF Progress, WipeAccounted
<1> QED BY <1>1, WipeProgress, PTL

(* What lowering the flag needs.                                            *)
LEMMA FlagStep ==
  ASSUME FlashAndQueriesHold, TypeOK, Progress, [Next]_vars, wipeFlag, ~wipeFlag'
  PROVE  ~se050.admin /\ salt = None
<1> USE DEF FlashAndQueriesHold, TypeOK, FlashOK, Clean, Fault, flash
<1>1. CASE WipeStep
  <2>1. CASE ErasePage125 BY <2>1 DEF ErasePage125, Progress, FromArm3, From125
  <2>2. ASSUME ~ErasePage125 PROVE wipeFlag'
    BY <1>1, <2>2 DEF WipeStep, ArmWipeFlag, DestroySaltFirst, ErasePage123,
       ArmWipeFlagOptiga, WriteTempKey, VerifyTempKey, VerifyRefused, ResetE120,
       WriteSentinel, BlankKey, BlankShare, ArmWipeFlagSe050, ArmWipeFlagAgain,
       DestroySaltSe050, Se050LegFails, NoAdminUserId, UserIdRefused, DeleteData,
       DeleteUserId, DeleteAdmin, CheckSurvivors, LinkLost, RearmIfFailed, Rearmed,
       ForgiveAfterWipe, ArmFlag, DestroySalt, OptigaStep, DeleteObject
  <2> QED BY <2>1, <2>2
<1>2. CASE SetupStep
  BY <1>2 DEF SetupStep, FinishWizard, RetireSalt, MintSalt, WriteKey, WriteShareO,
     WriteMark, SweepStale, WriteUserId, WriteShareE, AutoUnlock, WriteOptiga,
     WriteSe050, SetupFrame
<1>3. CASE UnlockStep \/ EnterPin \/ CancelPin
  BY <1>3 DEF UnlockStep, Charge, OptigaLocked, OptigaVerify, OptigaReset, Se050Verify,
     ClearAttempts, OpenSession, PromptAgain, CommandResult, EnterPin, CancelPin,
     UnlockFrame
<1>4. CASE PowerOn \/ BootStep \/ SessionStep
  BY <1>4 DEF PowerOn, BootStep, Reconcile, Resume, Route, BootFrame, SessionStep,
     RequestUnlock, Lock, IdleLock, SignOffchain, SessionFrame
<1>5. CASE Power
  BY <1>5 DEF Power, PowerCycle, PowerCut, TornErase, TornFallback
<1>6. CASE UNCHANGED vars
  BY <1>6 DEF vars
<1> QED BY <1>1, <1>2, <1>3, <1>4, <1>5, <1>6 DEF Next, User, Firmware, SetupStep

(* The flag is lowered only over a chip without an admin UserID, and with    *)
(* the salt gone (Se050::factory_reset_admin).                              *)
THEOREM FlagLoweredLast ==
  ASSUME FlashAndQueriesHold
  PROVE  Spec => FlagLoweredOnConfirmation
<1>1. ASSUME IndInv, Progress, [Next]_vars
      PROVE  [wipeFlag /\ ~wipeFlag' => ~se050.admin /\ salt = None]_vars
  BY <1>1, FlagStep DEF IndInv
<1> QED BY <1>1, Invariant, WipeProgress, PTL DEF Spec, FlagLoweredOnConfirmation

-----------------------------------------------------------------------------
(* The wallet is not lost without cause, as long as it is power that fails,  *)
(* or an exchange of an unlock, and neither while a wallet gets its last      *)
(* share or is unlocked for the first time; and E120, which an interrupted   *)
(* wipe leaves one higher, does not saturate.                               *)

PowerOnly ==
  /\ Faults \subseteq {"unlock"}
  /\ {"setupUnlock", "writeShareE"} \subseteq SafePoints
  /\ MaxAttempts + MaxCuts < LucLimit

Booting == {"off", "reconcile", "resume"}

(* No wallet: the device is blank, or a setup was cut short.                 *)
NoWallet ==
  /\ attempts = 0 /\ ~wipeFlag /\ optiga.count = 0 /\ se050.user = None
  /\ \/ pc \in Booting \cup (SetupPoints \ {"writeShareE", "ready"}) \cup {"route"}
     \/ salt = None /\ pc = "locked"
     \/ salt = None /\ entry = "cmd" /\ pc = "prompt"
     \/ salt = None /\ entry = "cmd" /\ pc = "verdict" /\ verdict = "internal"

(* What a setup has written, and on which flash.                            *)
Written ==
  /\ pc \in Writing => page123 = None
  /\ pc \in Writing \ {"writeKey"} => optiga.key = salt
  /\ pc \in Writing \ {"writeKey", "writeShareO"} => optiga.share = salt
  /\ pc \in Writing \ {"writeKey", "writeShareO", "writeMark"} => optiga.mark
LastShare ==
  /\ pc = "writeShareE" /\ attempts = 0 /\ ~wipeFlag /\ optiga.count = 0
  /\ se050.user = salt /\ se050.tries = 0

(* A wallet: neither chip has counted more than page 124.  The one unlock    *)
(* that is not charged is the first.                                        *)
Counted ==
  IF pc \in UnlockPoints /\ entry = "setup"
  THEN /\ attempts = 0 /\ se050.tries = 0
       /\ IF pc = "e120" THEN optiga.count = 1 ELSE optiga.count = 0
       /\ pc \in {"se050", "verdict"} => verdict = "ok"
  ELSE /\ optiga.count <= attempts /\ se050.tries <= attempts
       /\ pc = "optiga" => optiga.count < attempts
       /\ pc \in {"optiga", "e120", "se050"} => se050.tries < attempts
       /\ pc = "se050" /\ verdict = "ok" => optiga.count = 0
       /\ pc = "clear" => optiga.count = 0 /\ se050.tries = 0
       /\ pc = "ready" => attempts = 0
       /\ pc = "verdict" /\ verdict = "locked" => BudgetSpent
Wallet ==
  /\ Complete(salt) /\ optiga.mark /\ ~wipeFlag /\ Counted
  /\ pc \in Booting \cup UnlockPoints \cup {"route", "prompt", "locked", "open", "ready"}

(* The end of a wallet, and only of one whose budget is spent: a wipe that   *)
(* will be run to its end, after any number of cuts.                         *)
Doomed ==
  /\ BudgetSpent /\ pc \in Booting \cup WipePoints
  /\ optiga.count <= MaxAttempts + cuts + (IF pc = "wipeCounter" THEN 1 ELSE 0)
  /\ pc \in WipePoints => ~failed /\ ret # "halted"
  /\ pc \in WipePoints \ {"wipe", "destroySalt"} => salt = None /\ gone
  /\ pc \in {"wipeMark", "wipeKey", "wipeShare"} \cup FromArm3 => optiga.count = 0
  /\ pc \in {"wipeUserId", "wipeAdmin"} => se050.share = None
  /\ pc = "wipeAdmin" => se050.user = None
  /\ pc \in From125 \cup {"survivors"} => ~se050.admin
  /\ pc \in FromHere => ~wipeFlag
  /\ ~UserIdDeletable => salt # None /\ se050.user = salt

(* Where the UserID cannot be deleted (the shipping image): once a wallet is *)
(* gone its UserID stays for good, no setup gets past it, and no PIN opens    *)
(* anything.  E120 still starts from zero under every new salt.              *)
Ruined ==
  /\ ~UserIdDeletable /\ se050.user # None /\ se050.user # salt
  /\ pc \notin {"writeUser", "writeShareE", "ready", "clear", "open"}
  /\ pc \in UnlockPoints => entry # "setup"
  /\ pc = "verdict" => verdict # "ok"
  /\ pc \in UnlockPoints \cup {"prompt", "locked"} /\ salt # None => optiga.mark
  /\ salt # None => optiga.count <= attempts
  /\ pc = "optiga" => optiga.count < attempts
  /\ optiga.count <= MaxAttempts + cuts + (IF pc = "wipeCounter" THEN 1 ELSE 0)
  /\ ~optiga.mark /\ (~wipeFlag \/ pc = "route") => optiga.count = 0
  /\ pc \in {"wizard", "retire", "mint", "wipeMark", "wipeKey", "wipeShare"} \cup FromArm3 =>
       optiga.count = 0

Sound ==
  /\ ~se050.admin => se050.user = None /\ se050.share = None
  /\ pc \in {"writeUser", "writeShareE"} => se050.admin
  /\ NoWallet \/ LastShare \/ Wallet \/ Doomed

(* On what ground all of this stands.                                       *)
Ground == attempts <= MaxAttempts /\ salt <= minted /\ se050.user <= minted /\ Written

Lives == Ground /\ (Sound \/ Ruined)

(* A wipe keeps the ground: it writes nothing of a new wallet.              *)
LEMMA WipeGround ==
  ASSUME PowerOnly, IndInv, Ground, WipeStep
  PROVE  Ground'
<1> USE BoundsAssumption DEF Ground, Written, Writing, IndInv, TypeOK, ChipsOK,
       VolatileOK, WorldOK, None, flash, chips, WipeFrame, Returns
<1>1. CASE ArmWipeFlag BY <1>1 DEF ArmWipeFlag, ArmFlag
<1>2. CASE DestroySaltFirst BY <1>2 DEF DestroySaltFirst, DestroySalt
<1>3. CASE ErasePage123 BY <1>3 DEF ErasePage123, Page123Erased
<1>4. CASE ArmWipeFlagOptiga BY <1>4 DEF ArmWipeFlagOptiga, ArmFlag
<1>5. CASE WriteTempKey BY <1>5 DEF WriteTempKey, OptigaStep
<1>6. CASE VerifyTempKey BY <1>6 DEF VerifyTempKey, OptigaStep
<1>7. CASE VerifyRefused BY <1>7 DEF VerifyRefused
<1>8. CASE ResetE120 BY <1>8 DEF ResetE120, OptigaStep
<1>9. CASE WriteSentinel BY <1>9 DEF WriteSentinel, OptigaStep
<1>10. CASE BlankKey BY <1>10 DEF BlankKey, OptigaStep
<1>11. CASE BlankShare BY <1>11 DEF BlankShare, OptigaStep
<1>12. CASE ArmWipeFlagSe050 BY <1>12 DEF ArmWipeFlagSe050, ArmFlag
<1>13. CASE DestroySaltSe050 BY <1>13 DEF DestroySaltSe050, DestroySalt
<1>14. CASE ArmWipeFlagAgain BY <1>14 DEF ArmWipeFlagAgain, ArmFlag
<1>15. CASE Se050LegFails BY <1>15 DEF Se050LegFails
<1>16. CASE NoAdminUserId BY <1>16 DEF NoAdminUserId
<1>17. CASE DeleteData BY <1>17 DEF DeleteData, DeleteObject, WithoutData
<1>18. CASE DeleteUserId
  <2>1. se050'.user \in {se050.user, None}
    BY <1>18 DEF DeleteUserId, DeleteObject, WithoutUserId
  <2>2. UNCHANGED <<attempts, salt, page123, optiga, minted>> /\ pc' \notin Writing
    BY <1>18 DEF DeleteUserId, DeleteObject
  <2> QED BY <2>1, <2>2
<1>19. CASE DeleteAdmin BY <1>19 DEF DeleteAdmin, DeleteObject, WithoutAdmin
<1>20. CASE UserIdRefused BY <1>20 DEF UserIdRefused
<1>21. CASE CheckSurvivors BY <1>21 DEF CheckSurvivors, Survivors, AfterSurvivors
<1>22. CASE LinkLost BY <1>22 DEF LinkLost
<1>23. CASE ErasePage125 BY <1>23 DEF ErasePage125
<1>24. CASE RearmIfFailed BY <1>24 DEF RearmIfFailed, Rearmed
<1>25. CASE ForgiveAfterWipe BY <1>25 DEF ForgiveAfterWipe, MayForgive
<1> QED BY <1>1, <1>2, <1>3, <1>4, <1>5, <1>6, <1>7, <1>8, <1>9, <1>10, <1>11, <1>12,
       <1>13, <1>14, <1>15, <1>16, <1>17, <1>18, <1>19, <1>20, <1>21, <1>22, <1>23,
       <1>24, <1>25 DEF WipeStep

(* A setup mints a new number and writes it from chip to chip.              *)
LEMMA SetupGround ==
  ASSUME PowerOnly, IndInv, Ground, SetupStep
  PROVE  Ground'
<1> USE BoundsAssumption DEF PowerOnly, Ground, Written, Writing, IndInv, TypeOK,
       ChipsOK, WorldOK, Offchain, Owners, Wallets, Fault, None, chips, observed,
       SetupFrame
<1>1. CASE FinishWizard BY <1>1 DEF FinishWizard, Page123Erased
<1>2. CASE RetireSalt BY <1>2 DEF RetireSalt
<1>3. CASE MintSalt BY <1>3 DEF MintSalt
<1>4. CASE WriteKey BY <1>4 DEF WriteKey, WriteOptiga
<1>5. CASE WriteShareO BY <1>5 DEF WriteShareO, WriteOptiga
<1>6. CASE WriteMark BY <1>6 DEF WriteMark, WriteOptiga
<1>7. CASE SweepStale BY <1>7 DEF SweepStale, Swept
<1>8. CASE WriteUserId BY <1>8 DEF WriteUserId, WriteSe050
<1>9. CASE WriteShareE BY <1>9 DEF WriteShareE, WriteSe050
<1>10. CASE AutoUnlock BY <1>10 DEF AutoUnlock
<1> QED BY <1>1, <1>2, <1>3, <1>4, <1>5, <1>6, <1>7, <1>8, <1>9, <1>10 DEF SetupStep

(* An unlock charges only below the limit.                                  *)
LEMMA UnlockGround ==
  ASSUME PowerOnly, IndInv, Ground, UnlockStep \/ EnterPin \/ CancelPin
  PROVE  Ground'
<1> USE BoundsAssumption DEF Ground, Written, Writing, IndInv, TypeOK, FlashOK, ChipsOK,
       Paid, chips, UnlockFrame, Answer, StartWipe
<1>1. CASE EnterPin BY <1>1 DEF EnterPin, BelowLimit
<1>2. CASE CancelPin BY <1>2 DEF CancelPin
<1>3. CASE Charge BY <1>3 DEF Charge, Charged
<1>4. CASE OptigaLocked BY <1>4 DEF OptigaLocked
<1>5. CASE OptigaVerify BY <1>5 DEF OptigaVerify, Matches
<1>6. CASE OptigaReset BY <1>6 DEF OptigaReset, CounterCleared
<1>7. CASE Se050Verify BY <1>7 DEF Se050Verify, Se050Asked, Se050Tried, Se050Verdict,
       Reconstructs, Matches
<1>8. CASE ClearAttempts BY <1>8 DEF ClearAttempts
<1>9. CASE OpenSession BY <1>9 DEF OpenSession
<1>10. CASE PromptAgain BY <1>10 DEF PromptAgain
<1>11. CASE CommandResult BY <1>11 DEF CommandResult
<1> QED BY <1>1, <1>2, <1>3, <1>4, <1>5, <1>6, <1>7, <1>8, <1>9, <1>10, <1>11 DEF UnlockStep

(* The boot, a session and the loss of power write nothing of the ground.   *)
LEMMA OtherGround ==
  ASSUME PowerOnly, IndInv, Ground, PowerOn \/ BootStep \/ SessionStep \/ Power
  PROVE  Ground'
<1> USE BoundsAssumption DEF PowerOnly, Ground, Written, Writing, Fault, flash, chips,
       observed, BootFrame, SessionFrame, Reset, StartWipe
<1>1. CASE PowerOn BY <1>1 DEF PowerOn
<1>2. CASE Reconcile BY <1>2 DEF Reconcile, ChipLeads, ChipCount
<1>3. CASE Resume BY <1>3 DEF Resume, Reported, Provisioned, WipeDue
<1>4. CASE Route BY <1>4 DEF Route, Reported, Provisioned
<1>5. CASE RequestUnlock BY <1>5 DEF RequestUnlock
<1>6. CASE Lock BY <1>6 DEF Lock
<1>7. CASE IdleLock BY <1>7 DEF IdleLock
<1>8. CASE SignOffchain BY <1>8 DEF SignOffchain
<1>9. CASE PowerCycle BY <1>9 DEF PowerCycle
<1>10. CASE PowerCut BY <1>10 DEF PowerCut
<1>11. CASE TornErase BY <1>11 DEF TornErase
<1>12. CASE TornFallback BY <1>12 DEF TornFallback
<1> QED BY <1>1, <1>2, <1>3, <1>4, <1>5, <1>6, <1>7, <1>8, <1>9, <1>10, <1>11, <1>12
       DEF BootStep, SessionStep, Power

(* A wipe dooms on: a wallet whose budget is spent is gone once the wipe has  *)
(* returned, or was gone with its salt where the UserID stays.               *)
LEMMA WipeSound ==
  ASSUME PowerOnly, IndInv, Progress, Ground, Sound, WipeStep
  PROVE  Sound' \/ Ruined'
<1>0. pc \in WipePoints
  BY DEF WipeStep, WipePoints, ArmWipeFlag, ArmFlag, DestroySaltFirst, DestroySalt,
     ErasePage123, ArmWipeFlagOptiga, WriteTempKey, OptigaStep, VerifyTempKey,
     VerifyRefused, ResetE120, WriteSentinel, BlankKey, BlankShare, ArmWipeFlagSe050,
     DestroySaltSe050, ArmWipeFlagAgain, Se050LegFails, NoAdminUserId, DeleteData,
     DeleteObject, DeleteUserId, DeleteAdmin, UserIdRefused, CheckSurvivors, LinkLost,
     ErasePage125, RearmIfFailed, ForgiveAfterWipe
<1>26. Doomed /\ (~se050.admin => se050.user = None /\ se050.share = None)
  BY <1>0 DEF Sound, NoWallet, LastShare, Wallet, Booting, BootPoints, SetupPoints,
     UnlockPoints, WipePoints
<1> USE <1>26 DEF PowerOnly, Sound, Doomed, IndInv, TypeOK, ChipsOK, VolatileOK,
       WorldOK, BudgetSpent, FromHere, From125, FromArm3, Se050Leg, WipePoints, Fault,
       flash, chips, WipeFrame
<1>1. CASE ArmWipeFlag BY <1>1 DEF ArmWipeFlag, ArmFlag
<1>2. CASE DestroySaltFirst
  <2>1. CASE UserIdDeletable BY <1>2, <2>1 DEF DestroySaltFirst, DestroySalt
  <2>2. CASE ~UserIdDeletable
    BY <1>2, <2>2 DEF DestroySaltFirst, DestroySalt, Ruined, Progress, UnlockPoints, None
  <2> QED BY <2>1, <2>2
<1>3. CASE ErasePage123 BY <1>3 DEF ErasePage123, Page123Erased
<1>4. CASE ArmWipeFlagOptiga BY <1>4 DEF ArmWipeFlagOptiga, ArmFlag
<1>5. CASE WriteTempKey BY <1>5 DEF WriteTempKey, OptigaStep
<1>6. CASE VerifyTempKey BY <1>6, BoundsAssumption DEF VerifyTempKey, OptigaStep
<1>7. CASE VerifyRefused BY <1>7, BoundsAssumption DEF VerifyRefused
<1>8. CASE ResetE120 BY <1>8, BoundsAssumption DEF ResetE120, OptigaStep
<1>9. CASE WriteSentinel BY <1>9 DEF WriteSentinel, OptigaStep
<1>10. CASE BlankKey BY <1>10 DEF BlankKey, OptigaStep
<1>11. CASE BlankShare BY <1>11 DEF BlankShare, OptigaStep
<1>12. CASE ArmWipeFlagSe050 BY <1>12 DEF ArmWipeFlagSe050, ArmFlag
<1>13. CASE DestroySaltSe050 BY <1>13 DEF DestroySaltSe050, DestroySalt
<1>14. CASE ArmWipeFlagAgain BY <1>14 DEF ArmWipeFlagAgain, ArmFlag
<1>15. CASE Se050LegFails BY <1>15 DEF Se050LegFails
<1>16. CASE NoAdminUserId BY <1>16 DEF NoAdminUserId
<1>17. CASE DeleteData BY <1>17 DEF DeleteData, DeleteObject, WithoutData
<1>18. CASE DeleteUserId BY <1>18 DEF DeleteUserId, DeleteObject, WithoutUserId
<1>19. CASE DeleteAdmin BY <1>19 DEF DeleteAdmin, DeleteObject, WithoutAdmin
<1>20. CASE UserIdRefused BY <1>20 DEF UserIdRefused
<1>21. CASE CheckSurvivors BY <1>21 DEF CheckSurvivors, Survivors, AfterSurvivors
<1>22. CASE LinkLost BY <1>22 DEF LinkLost
<1>23. CASE ErasePage125 BY <1>23 DEF ErasePage125
<1>24. CASE RearmIfFailed BY <1>24 DEF RearmIfFailed, Rearmed
<1>25. CASE ForgiveAfterWipe
  BY <1>25 DEF ForgiveAfterWipe, MayForgive, SaltAbsent, Returns, NoWallet, Booting,
     SetupPoints, None, FlashOK, Ground
<1> QED BY <1>1, <1>2, <1>3, <1>4, <1>5, <1>6, <1>7, <1>8, <1>9, <1>10, <1>11, <1>12,
       <1>13, <1>14, <1>15, <1>16, <1>17, <1>18, <1>19, <1>20, <1>21, <1>22, <1>23,
       <1>24, <1>25 DEF WipeStep

(* A setup leads from no wallet to a whole one; a cut in it, to none.       *)
LEMMA SetupSound ==
  ASSUME PowerOnly, IndInv, Ground, Sound, SetupStep
  PROVE  Sound'
<1> USE BoundsAssumption DEF PowerOnly, Ground, Sound, NoWallet, LastShare, Wallet,
       Counted, Complete, Doomed, Written, Writing, Booting, IndInv, TypeOK, ChipsOK,
       Proven, HasSalt, SetupPoints, UnlockPoints, WipePoints, Fault, chips, SetupFrame
<1>1. CASE FinishWizard BY <1>1 DEF FinishWizard, Page123Erased
<1>2. CASE RetireSalt BY <1>2 DEF RetireSalt
<1>3. CASE MintSalt BY <1>3 DEF MintSalt
<1>4. CASE WriteKey BY <1>4 DEF WriteKey, WriteOptiga
<1>5. CASE WriteShareO BY <1>5 DEF WriteShareO, WriteOptiga
<1>6. CASE WriteMark BY <1>6 DEF WriteMark, WriteOptiga
<1>7. CASE SweepStale BY <1>7 DEF SweepStale, Swept
<1>8. CASE WriteUserId BY <1>8 DEF WriteUserId, WriteSe050
<1>9. CASE WriteShareE BY <1>9 DEF WriteShareE, WriteSe050
<1>10. CASE AutoUnlock BY <1>10 DEF AutoUnlock
<1> QED BY <1>1, <1>2, <1>3, <1>4, <1>5, <1>6, <1>7, <1>8, <1>9, <1>10 DEF SetupStep

(* An unlock asks a whole wallet, and dooms only a spent one.               *)
LEMMA UnlockSound ==
  ASSUME PowerOnly, IndInv, Ground, Sound, UnlockStep \/ EnterPin \/ CancelPin
  PROVE  Sound'
<1> USE BoundsAssumption DEF PowerOnly, Ground, Sound, NoWallet, LastShare, Wallet,
       Counted, Complete, Doomed, Booting, IndInv, TypeOK, FlashOK, ChipsOK, WorldOK,
       Proven, BudgetSpent, FromHere, From125, FromArm3, Se050Leg, SetupPoints,
       UnlockPoints, WipePoints, chips, UnlockFrame, UnlockFault, Here, Answer,
       StartWipe, SaltAbsent
<1>1. CASE EnterPin BY <1>1 DEF EnterPin, BelowLimit
<1>2. CASE CancelPin BY <1>2 DEF CancelPin
<1>3. CASE Charge BY <1>3 DEF Charge, Charged
<1>4. CASE OptigaLocked BY <1>4 DEF OptigaLocked
<1>5. CASE OptigaVerify BY <1>5 DEF OptigaVerify, Matches
<1>6. CASE OptigaReset BY <1>6 DEF OptigaReset, CounterCleared
<1>7. CASE Se050Verify BY <1>7 DEF Se050Verify, Se050Asked, Se050Tried, Se050Verdict,
       Reconstructs, Matches
<1>8. CASE ClearAttempts BY <1>8 DEF ClearAttempts
<1>9. CASE OpenSession BY <1>9 DEF OpenSession
<1>10. CASE PromptAgain BY <1>10 DEF PromptAgain
<1>11. CASE CommandResult BY <1>11 DEF CommandResult
<1> QED BY <1>1, <1>2, <1>3, <1>4, <1>5, <1>6, <1>7, <1>8, <1>9, <1>10, <1>11 DEF UnlockStep

(* The boot goes on where power left the wallet, and wipes none but one that *)
(* is doomed.                                                               *)
LEMMA OtherSound ==
  ASSUME PowerOnly, IndInv, Ground, Sound, PowerOn \/ BootStep \/ SessionStep \/ Power
  PROVE  Sound'
<1> USE BoundsAssumption DEF PowerOnly, Ground, Sound, NoWallet, LastShare, Wallet,
       Counted, Complete, Doomed, Booting, IndInv, TypeOK, FlashOK, ChipsOK, WorldOK,
       BudgetSpent, FromHere, From125, FromArm3, Se050Leg, SetupPoints, UnlockPoints,
       WipePoints, Fault, flash, chips, BootFrame, SessionFrame, Here, Reset, Quiet,
       StartWipe, SaltAbsent
<1>1. CASE PowerOn BY <1>1 DEF PowerOn
<1>2. CASE Reconcile BY <1>2 DEF Reconcile, ChipLeads, ChipCount
<1>3. CASE Resume
  <2>1. PICK answer \in BOOLEAN :
          /\ salt = None => answer = Provisioned
          /\ IF WipeDue(answer) THEN StartWipe("route")
             ELSE pc' = "route" /\ UNCHANGED wiping
    BY <1>3 DEF Resume, Reported
  <2>2. WipeDue(answer) <=> BudgetSpent \/ wipeFlag
    BY <1>3, <2>1 DEF Resume, WipeDue, Provisioned
  <2>3. CASE BudgetSpent
    BY <1>3, <2>1, <2>2, <2>3 DEF Resume
  <2>4. CASE ~BudgetSpent
    BY <1>3, <2>1, <2>2, <2>4 DEF Resume
  <2> QED BY <2>3, <2>4
<1>4. CASE Route BY <1>4 DEF Route, Reported, Provisioned
<1>5. CASE RequestUnlock BY <1>5 DEF RequestUnlock
<1>6. CASE Lock BY <1>6 DEF Lock
<1>7. CASE IdleLock BY <1>7 DEF IdleLock
<1>8. CASE SignOffchain BY <1>8 DEF SignOffchain
<1>9. CASE PowerCycle BY <1>9 DEF PowerCycle
<1>10. CASE PowerCut BY <1>10 DEF PowerCut
<1>11. CASE TornErase BY <1>11 DEF TornErase
<1>12. CASE TornFallback BY <1>12 DEF TornFallback
<1> QED BY <1>1, <1>2, <1>3, <1>4, <1>5, <1>6, <1>7, <1>8, <1>9, <1>10, <1>11, <1>12
       DEF BootStep, SessionStep, Power

(* A wipe leaves the UserID, and clears E120 before it lowers the flag.     *)
LEMMA WipeRuined ==
  ASSUME PowerOnly, IndInv, Progress, Ground, Ruined, WipeStep
  PROVE  Ruined'
<1> USE BoundsAssumption DEF PowerOnly, Progress, OptigaLeg, Ruined, IndInv, TypeOK,
       ChipsOK, VolatileOK, WorldOK, FromHere, From125, FromArm3, Se050Leg,
       UnlockPoints, WipePoints, Fault, flash, chips, WipeFrame, Returns
<1>1. CASE ArmWipeFlag BY <1>1 DEF ArmWipeFlag, ArmFlag
<1>2. CASE DestroySaltFirst BY <1>2 DEF DestroySaltFirst, DestroySalt
<1>3. CASE ErasePage123 BY <1>3 DEF ErasePage123, Page123Erased
<1>4. CASE ArmWipeFlagOptiga BY <1>4 DEF ArmWipeFlagOptiga, ArmFlag
<1>5. CASE WriteTempKey BY <1>5 DEF WriteTempKey, OptigaStep
<1>6. CASE VerifyTempKey BY <1>6 DEF VerifyTempKey, OptigaStep
<1>7. CASE VerifyRefused BY <1>7 DEF VerifyRefused
<1>8. CASE ResetE120 BY <1>8 DEF ResetE120, OptigaStep
<1>9. CASE WriteSentinel BY <1>9 DEF WriteSentinel, OptigaStep
<1>10. CASE BlankKey BY <1>10 DEF BlankKey, OptigaStep
<1>11. CASE BlankShare BY <1>11 DEF BlankShare, OptigaStep
<1>12. CASE ArmWipeFlagSe050 BY <1>12 DEF ArmWipeFlagSe050, ArmFlag
<1>13. CASE DestroySaltSe050 BY <1>13 DEF DestroySaltSe050, DestroySalt
<1>14. CASE ArmWipeFlagAgain BY <1>14 DEF ArmWipeFlagAgain, ArmFlag
<1>15. CASE Se050LegFails BY <1>15 DEF Se050LegFails
<1>16. CASE NoAdminUserId BY <1>16 DEF NoAdminUserId
<1>17. CASE DeleteData BY <1>17 DEF DeleteData, DeleteObject, WithoutData
<1>18. CASE DeleteUserId BY <1>18 DEF DeleteUserId, DeleteObject, WithoutUserId
<1>19. CASE DeleteAdmin BY <1>19 DEF DeleteAdmin, DeleteObject, WithoutAdmin
<1>20. CASE UserIdRefused BY <1>20 DEF UserIdRefused
<1>21. CASE CheckSurvivors BY <1>21 DEF CheckSurvivors, Survivors, AfterSurvivors
<1>22. CASE LinkLost BY <1>22 DEF LinkLost
<1>23. CASE ErasePage125 BY <1>23 DEF ErasePage125
<1>24. CASE RearmIfFailed BY <1>24 DEF RearmIfFailed, Rearmed
<1>25. CASE ForgiveAfterWipe BY <1>25 DEF ForgiveAfterWipe, MayForgive
<1> QED BY <1>1, <1>2, <1>3, <1>4, <1>5, <1>6, <1>7, <1>8, <1>9, <1>10, <1>11, <1>12,
       <1>13, <1>14, <1>15, <1>16, <1>17, <1>18, <1>19, <1>20, <1>21, <1>22, <1>23,
       <1>24, <1>25 DEF WipeStep

(* A setup is rolled back at the sweep, which cannot delete the UserID.     *)
LEMMA SetupRuined ==
  ASSUME PowerOnly, IndInv, Progress, Ground, Ruined, SetupStep
  PROVE  Ruined'
<1> USE BoundsAssumption DEF PowerOnly, Ground, Ruined, IndInv, TypeOK, FlashOK,
       ChipsOK, WorldOK, FromHere, From125, FromArm3, Se050Leg, UnlockPoints, Fault,
       chips, SetupFrame, Rollback, StartWipe
<1>1. CASE FinishWizard BY <1>1 DEF FinishWizard, Page123Erased
<1>2. CASE RetireSalt BY <1>2 DEF RetireSalt
<1>3. CASE MintSalt BY <1>3 DEF MintSalt
<1>4. CASE WriteKey BY <1>4 DEF WriteKey, WriteOptiga
<1>5. CASE WriteShareO BY <1>5 DEF WriteShareO, WriteOptiga
<1>6. CASE WriteMark BY <1>6 DEF WriteMark, WriteOptiga
<1>7. CASE SweepStale BY <1>7 DEF SweepStale, Swept
<1>8. CASE WriteUserId BY <1>8 DEF WriteUserId, WriteSe050
<1>9. CASE WriteShareE BY <1>9 DEF WriteShareE, WriteSe050
<1>10. CASE AutoUnlock BY <1>10 DEF AutoUnlock
<1> QED BY <1>1, <1>2, <1>3, <1>4, <1>5, <1>6, <1>7, <1>8, <1>9, <1>10 DEF SetupStep

(* No PIN matches the UserID that stayed.                                   *)
LEMMA UnlockRuined ==
  ASSUME PowerOnly, IndInv, Progress, Ground, Ruined, UnlockStep \/ EnterPin \/ CancelPin
  PROVE  Ruined'
<1> USE BoundsAssumption DEF Ground, Ruined, IndInv, TypeOK, FlashOK, ChipsOK, WorldOK,
       Proven, HasSalt, FromHere, From125, FromArm3, Se050Leg, UnlockPoints, chips,
       UnlockFrame, Answer, StartWipe
<1>1. CASE EnterPin BY <1>1 DEF EnterPin, BelowLimit
<1>2. CASE CancelPin BY <1>2 DEF CancelPin
<1>3. CASE Charge BY <1>3 DEF Charge, Charged
<1>4. CASE OptigaLocked BY <1>4 DEF OptigaLocked
<1>5. CASE OptigaVerify
  <2>1. optiga'.count <= attempts /\ optiga'.mark
    BY <1>5 DEF OptigaVerify
  <2>2. /\ UNCHANGED <<attempts, salt, se050, entry, cuts>>
        /\ pc' \in {"e120", "se050", "verdict"}
        /\ pc' = "verdict" => verdict' = "internal"
    BY <1>5 DEF OptigaVerify
  <2>3. optiga'.count <= MaxAttempts + cuts'
    <3>1. PICK c \in Nat : c = optiga'.count BY <1>5 DEF OptigaVerify
    <3> QED BY <2>1, <2>2, <3>1
  <2> QED BY <1>5, <2>1, <2>2, <2>3 DEF OptigaVerify
<1>6. CASE OptigaReset BY <1>6 DEF OptigaReset, CounterCleared
<1>7. CASE Se050Verify BY <1>7 DEF Se050Verify, Se050Asked, Se050Tried, Se050Verdict,
       Reconstructs, Matches
<1>8. CASE ClearAttempts BY <1>8 DEF ClearAttempts
<1>9. CASE OpenSession BY <1>9 DEF OpenSession
<1>10. CASE PromptAgain BY <1>10 DEF PromptAgain
<1>11. CASE CommandResult BY <1>11 DEF CommandResult
<1> QED BY <1>1, <1>2, <1>3, <1>4, <1>5, <1>6, <1>7, <1>8, <1>9, <1>10, <1>11 DEF UnlockStep

(* Nor does a boot or the loss of power change that.                        *)
LEMMA OtherRuined ==
  ASSUME PowerOnly, IndInv, Progress, Ground, Ruined,
         PowerOn \/ BootStep \/ SessionStep \/ Power
  PROVE  Ruined'
<1> USE BoundsAssumption DEF PowerOnly, Ruined, IndInv, TypeOK, ChipsOK, WorldOK,
       FromHere, From125, FromArm3, Se050Leg, UnlockPoints, Fault, flash, chips,
       BootFrame, SessionFrame, Reset, Quiet, StartWipe
<1>1. CASE PowerOn BY <1>1 DEF PowerOn
<1>2. CASE Reconcile BY <1>2 DEF Reconcile, ChipLeads, ChipCount
<1>3. CASE Resume BY <1>3 DEF Resume, Reported, Provisioned, WipeDue
<1>4. CASE Route BY <1>4 DEF Route, Reported, Provisioned
<1>5. CASE RequestUnlock BY <1>5 DEF RequestUnlock
<1>6. CASE Lock BY <1>6 DEF Lock
<1>7. CASE IdleLock BY <1>7 DEF IdleLock
<1>8. CASE SignOffchain BY <1>8 DEF SignOffchain
<1>9. CASE PowerCycle BY <1>9 DEF PowerCycle
<1>10. CASE PowerCut BY <1>10 DEF PowerCut
<1>11. CASE TornErase BY <1>11 DEF TornErase
<1>12. CASE TornFallback BY <1>12 DEF TornFallback
<1> QED BY <1>1, <1>2, <1>3, <1>4, <1>5, <1>6, <1>7, <1>8, <1>9, <1>10, <1>11, <1>12
       DEF BootStep, SessionStep, Power

(* In every reachable state the wallet is absent, whole, doomed, or ruined.  *)
LEMMA LivesAlways ==
  ASSUME PowerOnly
  PROVE  Spec => []Lives
<1>1. Init => Lives
  BY BoundsAssumption DEF Init, Lives, Ground, Sound, NoWallet, Written, Writing,
     Booting, None
<1>2. ASSUME IndInv, Progress, Lives, [Next]_vars PROVE Lives'
  <2>1. CASE Next
    <3>1. Ground'
      BY <1>2, <2>1, WipeGround, SetupGround, UnlockGround, OtherGround DEF Lives, Next,
         User, Firmware, SetupStep
    <3>2. CASE Sound
      <4>1. Sound' \/ Ruined'
        BY <1>2, <2>1, <3>2, WipeSound, SetupSound, UnlockSound, OtherSound DEF Lives,
           Next, User, Firmware, SetupStep
      <4> QED BY <3>1, <4>1 DEF Lives
    <3>3. CASE Ruined
      <4>1. Ruined'
        BY <1>2, <2>1, <3>3, WipeRuined, SetupRuined, UnlockRuined, OtherRuined
           DEF Lives, Next, User, Firmware, SetupStep
      <4> QED BY <3>1, <4>1 DEF Lives
    <3> QED BY <1>2, <3>2, <3>3 DEF Lives
  <2>2. CASE UNCHANGED vars
    BY <1>2, <2>2 DEF vars, flash, chips, call, wiping, observed, Lives, Ground, Sound,
       NoWallet, LastShare, Wallet, Counted, Complete, Doomed, Ruined, Written,
       BudgetSpent
  <2> QED BY <1>2, <2>1, <2>2
<1>3. FlashAndQueriesHold BY DEF FlashAndQueriesHold, PowerOnly
<1>4. Spec => []Progress BY <1>3, WipeProgress
<1> QED BY <1>1, <1>2, <1>4, Invariant, PTL DEF Spec

(* While page 124 leaves attempts neither chip refuses the wallet's own PIN: *)
(* the three counters never part in the user's disfavour (the order of       *)
(* charge, verification and the two resets in an unlock).                    *)
THEOREM ChipsFollow ==
  ASSUME PowerOnly
  PROVE  Spec => []NoChipLocksFirst
<1>1. IndInv /\ Lives => NoChipLocksFirst
  BY BoundsAssumption DEF IndInv, TypeOK, FlashOK, ChipsOK, PowerOnly, NoChipLocksFirst,
     Lives, Ground, Sound, Ruined, NoWallet, LastShare, Wallet, Counted, Complete,
     Doomed, BudgetSpent, None
<1> QED BY <1>1, Invariant, LivesAlways, PTL

(* The boot reconcile never finds E120 ahead of page 124 over a wallet that   *)
(* is not to be wiped anyway.                                                *)
THEOREM ReconcileIsRight ==
  ASSUME PowerOnly
  PROVE  Spec => []ReconcileTrusts
<1>1. IndInv /\ Lives => ReconcileTrusts
  BY BoundsAssumption DEF IndInv, TypeOK, FlashOK, ChipsOK, PowerOnly, ReconcileTrusts,
     ChipLeads, ChipCount, Lives, Ground, Sound, Ruined, NoWallet, LastShare, Wallet,
     Counted, Doomed, BudgetSpent, None, UnlockPoints
<1> QED BY <1>1, Invariant, LivesAlways, PTL

(* A wallet just written has its whole budget, no wipe pending and blank      *)
(* off-chain counters.                                                       *)
THEOREM StartsFresh ==
  ASSUME PowerOnly
  PROVE  Spec => []FreshStart
<1>1. Lives => FreshStart
  BY DEF FreshStart, Lives, Ground, Sound, Ruined, NoWallet, LastShare, Wallet, Counted,
     Doomed, Written, Writing, Booting, SetupPoints, UnlockPoints, WipePoints
<1> QED BY <1>1, LivesAlways, PTL

(* The boot prompt stands over a whole wallet only, the wizard over none,     *)
(* where a UserID can be deleted: one that stays makes the next wallet look   *)
(* whole on both chips before it is (DualSecureElement::is_provisioned).      *)
THEOREM PromptsOverWhole ==
  ASSUME PowerOnly, UserIdDeletable
  PROVE  Spec => []ProvisionedIsComplete
<1>1. Lives => ProvisionedIsComplete
  BY DEF ProvisionedIsComplete, Lives, Ground, Sound, Ruined, NoWallet, LastShare,
     Wallet, Complete, Doomed, Booting, SetupPoints, UnlockPoints, WipePoints, None
<1> QED BY <1>1, LivesAlways, PTL

(* What the loss of a salt needs.                                            *)
LEMMA SaltStep ==
  ASSUME PowerOnly, IndInv, Lives, [Next]_vars, Complete(salt), salt' # salt
  PROVE  attempts >= MaxAttempts
<1> USE DEF PowerOnly, Clean, Fault, flash
<1>1. CASE DestroySaltFirst \/ DestroySaltSe050
  BY <1>1 DEF DestroySaltFirst, DestroySaltSe050, DestroySalt, Complete, Lives, Ground,
     Sound, Ruined, NoWallet, LastShare, Wallet, Doomed, BudgetSpent, Booting,
     SetupPoints, UnlockPoints, WipePoints
<1>2. CASE WipeStep /\ ~DestroySaltFirst /\ ~DestroySaltSe050
  BY <1>2 DEF WipeStep, ArmWipeFlag, ErasePage123, ArmWipeFlagOptiga, WriteTempKey,
     VerifyTempKey, VerifyRefused, ResetE120, WriteSentinel, BlankKey, BlankShare,
     ArmWipeFlagSe050, ArmWipeFlagAgain, Se050LegFails, NoAdminUserId, UserIdRefused,
     DeleteData, DeleteUserId, DeleteAdmin, CheckSurvivors, LinkLost, ErasePage125,
     RearmIfFailed, ForgiveAfterWipe, ArmFlag, OptigaStep, DeleteObject
<1>3. CASE RetireSalt \/ MintSalt
  BY <1>3 DEF RetireSalt, MintSalt, IndInv, Offchain, Complete, Lives, Ground, Sound,
     Ruined, NoWallet, LastShare, Wallet, Doomed, Booting, UnlockPoints, WipePoints
<1>4. CASE SetupStep /\ ~RetireSalt /\ ~MintSalt
  BY <1>4 DEF SetupStep, FinishWizard, WriteKey, WriteShareO, WriteMark, SweepStale,
     WriteUserId, WriteShareE, AutoUnlock, WriteOptiga, WriteSe050
<1>5. CASE UnlockStep \/ EnterPin \/ CancelPin
  BY <1>5 DEF UnlockStep, Charge, OptigaLocked, OptigaVerify, OptigaReset, Se050Verify,
     ClearAttempts, OpenSession, PromptAgain, CommandResult, EnterPin, CancelPin,
     UnlockFrame
<1>6. CASE PowerOn \/ BootStep \/ SessionStep
  BY <1>6 DEF PowerOn, BootStep, Reconcile, Resume, Route, BootFrame, SessionStep,
     RequestUnlock, Lock, IdleLock, SignOffchain, SessionFrame
<1>7. CASE Power
  BY <1>7 DEF Power, PowerCycle, PowerCut, TornErase, TornFallback
<1>8. CASE UNCHANGED vars
  BY <1>8 DEF vars
<1> QED BY <1>1, <1>2, <1>3, <1>4, <1>5, <1>6, <1>7, <1>8 DEF Next, User, Firmware,
       SetupStep

(* The salt of a wallet the user was told is ready is destroyed only when     *)
(* its budget is spent (the guards of RetireSalt, MintSalt and begin_wipe).   *)
THEOREM OnlyTheSpentGo ==
  ASSUME PowerOnly
  PROVE  Spec => OnlySpentWalletsAreWiped
<1>1. ASSUME IndInv, Lives, [Next]_vars
      PROVE  [Complete(salt) /\ live = salt /\ salt' # salt => attempts >= MaxAttempts]_vars
  BY <1>1, SaltStep
<1> QED BY <1>1, Invariant, LivesAlways, PTL DEF Spec, OnlySpentWalletsAreWiped
===============================================================================
