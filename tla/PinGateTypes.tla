----------------------------- MODULE PinGateTypes -----------------------------
(*****************************************************************************)
(* Type correctness of PinGate, one lemma for each component: every step    *)
(* keeps every variable in its type.                                        *)
(*****************************************************************************)
EXTENDS PinGateProperties, TLAPS

(* Next, without the steps of the wipe, the setup and the unlock.          *)
OtherStep ==
  \/ PowerOn \/ BootStep \/ EnterPin \/ CancelPin \/ SessionStep \/ Power

-----------------------------------------------------------------------------
(* The wipe.                                                               *)

(* The write of a UserID keeps the SE050's record a record of its type.     *)
LEMMA UserIdWritten ==
  ASSUME ChipsOK, NEW u \in Owners
  PROVE  [se050 EXCEPT !.user = u, !.tries = 0]
           \in [user : Owners, tries : 0..MaxAttempts, share : Owners, admin : BOOLEAN]
<1>1. [se050 EXCEPT !.user = u]
        \in [user : Owners, tries : 0..MaxAttempts, share : Owners, admin : BOOLEAN]
  BY DEF ChipsOK
<1>2. 0 \in 0..MaxAttempts
  BY BoundsAssumption
<1> QED BY <1>1, <1>2 DEF ChipsOK

(* ArmFlag, at any point of the wipe, keeps the types.                     *)
LEMMA ArmFlagType ==
  ASSUME TypeOK, NEW at, NEW next \in Points, ArmFlag(at, next)
  PROVE  TypeOK'
<1> USE BoundsAssumption DEF ArmFlag, WipeFrame, TypeOK, Clean, Fault
<1>1. FlashOK' BY DEF FlashOK, flash
<1>2. ChipsOK' BY DEF ChipsOK, chips
<1>3. VolatileOK' BY DEF VolatileOK, call, wiping
<1>4. WorldOK' BY DEF WorldOK, observed
<1> QED BY <1>1, <1>2, <1>3, <1>4

(* DestroySalt keeps the types.                                            *)
LEMMA DestroySaltType ==
  ASSUME TypeOK, NEW at, NEW next \in Points, DestroySalt(at, next)
  PROVE  TypeOK'
<1> USE BoundsAssumption DEF DestroySalt, WipeFrame, TypeOK, Clean, Fault
<1>1. FlashOK' BY DEF FlashOK, flash, SaltAbsent, Owners, None
<1>2. ChipsOK' BY DEF ChipsOK, chips
<1>3. VolatileOK' BY DEF VolatileOK, call, wiping
<1>4. WorldOK' BY DEF WorldOK, observed, None
<1> QED BY <1>1, <1>2, <1>3, <1>4

(* A step of the OPTIGA leg that writes a record of the type of the chip   *)
(* keeps the types.                                                        *)
LEMMA OptigaStepType ==
  ASSUME TypeOK, NEW at, NEW next \in Points, NEW onSkip \in Points,
         NEW new \in [count : 0..LucLimit, key : Owners \cup {Temp}, share : Owners,
                mark : BOOLEAN], OptigaStep(at, next, new, onSkip)
  PROVE  TypeOK'
<1> USE BoundsAssumption DEF OptigaStep, WipeFrame, TypeOK, Clean, Fault
<1>1. FlashOK' BY DEF FlashOK, flash
<1>2. ChipsOK' BY DEF ChipsOK, chips
<1>3. VolatileOK'
  <2>1. pc' \in {next, onSkip, "arm3"} /\ "arm3" \in Points BY DEF Points, WipePoints
  <2>2. failed' \in BOOLEAN BY Zenon DEF VolatileOK
  <2> QED BY <2>1, <2>2 DEF VolatileOK, call
<1>4. WorldOK' BY DEF WorldOK, observed
<1> QED BY <1>1, <1>2, <1>3, <1>4

(* So does a deletion on the SE050.                                        *)
LEMMA DeleteObjectType ==
  ASSUME TypeOK, NEW at, NEW next \in Points,
         NEW new \in [user : Owners, tries : 0..MaxAttempts, share : Owners,
                admin : BOOLEAN], DeleteObject(at, next, new)
  PROVE  TypeOK'
<1> USE BoundsAssumption DEF DeleteObject, WipeFrame, TypeOK, Clean, Fault
<1>1. FlashOK' BY DEF FlashOK, flash
<1>2. ChipsOK' BY DEF ChipsOK, chips
<1>3. VolatileOK' BY DEF VolatileOK, call, wiping
<1>4. WorldOK' BY DEF WorldOK, observed
<1> QED BY <1>1, <1>2, <1>3, <1>4

(* Every step of factory_reset_admin keeps the types.                      *)
LEMMA WipeTypes ==
  ASSUME TypeOK, WipeStep
  PROVE  TypeOK'
<1>1. CASE ArmWipeFlag BY <1>1, ArmFlagType DEF ArmWipeFlag, Points, WipePoints
<1>2. CASE DestroySaltFirst BY <1>2, DestroySaltType DEF DestroySaltFirst, Points,
       WipePoints
<1>3. CASE ErasePage123
  <2> USE BoundsAssumption, <1>3 DEF ErasePage123, WipeFrame, TypeOK, Clean, Fault
  <2>1. FlashOK' BY DEF FlashOK, flash, Page123Erased, Owners
  <2>2. ChipsOK' BY DEF ChipsOK, chips
  <2>3. VolatileOK' BY DEF VolatileOK, call, wiping, Points, WipePoints
  <2>4. WorldOK' BY DEF WorldOK, observed
  <2> QED BY <2>1, <2>2, <2>3, <2>4
<1>4. CASE ArmWipeFlagOptiga BY <1>4, ArmFlagType DEF ArmWipeFlagOptiga, Points, WipePoints
<1>5. CASE WriteTempKey BY <1>5, OptigaStepType DEF WriteTempKey, Points, WipePoints,
       TypeOK, ChipsOK, Owners, None, Temp
<1>6. CASE VerifyTempKey BY <1>6, OptigaStepType, BoundsAssumption DEF VerifyTempKey,
       Points, WipePoints, TypeOK, ChipsOK, Owners, None, Temp
<1>7. CASE VerifyRefused
  <2> USE BoundsAssumption, <1>7 DEF VerifyRefused, WipeFrame, TypeOK, Clean, Fault
  <2>1. FlashOK' BY DEF FlashOK, flash
  <2>2. ChipsOK' BY DEF ChipsOK, chips
  <2>3. VolatileOK' BY DEF VolatileOK, call, wiping, Points, WipePoints
  <2>4. WorldOK' BY DEF WorldOK, observed
  <2> QED BY <2>1, <2>2, <2>3, <2>4
<1>8. CASE ResetE120 BY <1>8, OptigaStepType, BoundsAssumption DEF ResetE120, Points,
       WipePoints, TypeOK, ChipsOK, Owners, None, Temp
<1>9. CASE WriteSentinel BY <1>9, OptigaStepType DEF WriteSentinel, Points, WipePoints,
       TypeOK, ChipsOK, Owners, None, Temp
<1>10. CASE BlankKey BY <1>10, OptigaStepType DEF BlankKey, Points, WipePoints, TypeOK,
       ChipsOK, Owners, None, Temp
<1>11. CASE BlankShare BY <1>11, OptigaStepType DEF BlankShare, Points, WipePoints, TypeOK,
       ChipsOK, Owners, None, Temp
<1>12. CASE ArmWipeFlagSe050 BY <1>12, ArmFlagType DEF ArmWipeFlagSe050, Points, WipePoints
<1>13. CASE DestroySaltSe050 BY <1>13, DestroySaltType DEF DestroySaltSe050, Points,
       WipePoints
<1>14. CASE Se050LegFails
  <2> USE BoundsAssumption, <1>14 DEF Se050LegFails, WipeFrame, TypeOK, Clean, Fault
  <2>1. FlashOK' BY DEF FlashOK, flash
  <2>2. ChipsOK' BY DEF ChipsOK, chips
  <2>3. VolatileOK' BY DEF VolatileOK, call, wiping, Points, WipePoints
  <2>4. WorldOK' BY DEF WorldOK, observed
  <2> QED BY <2>1, <2>2, <2>3, <2>4
<1>15. CASE NoAdminUserId
  <2> USE BoundsAssumption, <1>15 DEF NoAdminUserId, WipeFrame, TypeOK, Clean, Fault
  <2>1. FlashOK' BY DEF FlashOK, flash
  <2>2. ChipsOK' BY DEF ChipsOK, chips
  <2>3. VolatileOK' BY DEF VolatileOK, call, wiping, Points, WipePoints
  <2>4. WorldOK' BY DEF WorldOK, observed
  <2> QED BY <2>1, <2>2, <2>3, <2>4
<1>16. CASE DeleteData BY <1>16, DeleteObjectType DEF DeleteData, Points, WipePoints,
       WithoutData, TypeOK, ChipsOK, Owners, None
<1>17. CASE DeleteUserId
  <2>1. None \in Owners
    BY DEF Owners
  <2>2. WithoutUserId \in [user : Owners, tries : 0..MaxAttempts, share : Owners,
         admin : BOOLEAN]
    BY <2>1, UserIdWritten DEF WithoutUserId, TypeOK, ChipsOK
  <2> QED BY <1>17, <2>2, DeleteObjectType DEF DeleteUserId, Points, WipePoints
<1>18. CASE DeleteAdmin BY <1>18, DeleteObjectType DEF DeleteAdmin, Points, WipePoints,
       WithoutAdmin, TypeOK, ChipsOK, Owners, None
<1>19. CASE CheckSurvivors
  <2> USE BoundsAssumption, <1>19 DEF CheckSurvivors, WipeFrame, TypeOK, Clean, Fault
  <2>1. FlashOK' BY DEF FlashOK, flash
  <2>2. ChipsOK' BY DEF ChipsOK, chips
  <2>3. VolatileOK' BY DEF VolatileOK, call, wiping, Points, WipePoints, AfterSurvivors,
         Survivors
  <2>4. WorldOK' BY DEF WorldOK, observed
  <2> QED BY <2>1, <2>2, <2>3, <2>4
<1>20. CASE LinkLost
  <2> USE BoundsAssumption, <1>20 DEF LinkLost, WipeFrame, TypeOK, Clean, Fault
  <2>1. FlashOK' BY DEF FlashOK, flash
  <2>2. ChipsOK' BY DEF ChipsOK, chips
  <2>3. VolatileOK' BY DEF VolatileOK, call, wiping, Points, WipePoints
  <2>4. WorldOK' BY DEF WorldOK, observed
  <2> QED BY <2>1, <2>2, <2>3, <2>4
<1>21. CASE ErasePage125
  <2> USE BoundsAssumption, <1>21 DEF ErasePage125, WipeFrame, TypeOK, Clean, Fault
  <2>1. FlashOK' BY DEF FlashOK, flash
  <2>2. ChipsOK' BY DEF ChipsOK, chips
  <2>3. VolatileOK' BY DEF VolatileOK, call, wiping, Points, WipePoints
  <2>4. WorldOK' BY DEF WorldOK, observed
  <2> QED BY <2>1, <2>2, <2>3, <2>4
<1>22. CASE RearmIfFailed
  <2> USE BoundsAssumption, <1>22 DEF RearmIfFailed, WipeFrame, TypeOK, Clean, Fault
  <2>1. FlashOK' BY DEF FlashOK, flash, Rearmed
  <2>2. ChipsOK' BY DEF ChipsOK, chips
  <2>3. VolatileOK' BY DEF VolatileOK, call, wiping, Points, WipePoints, Owners
  <2>4. WorldOK' BY DEF WorldOK, observed
  <2> QED BY <2>1, <2>2, <2>3, <2>4
<1>23. CASE ForgiveAfterWipe
  <2> USE BoundsAssumption, <1>23 DEF ForgiveAfterWipe, WipeFrame, TypeOK, Clean, Fault
  <2>1. FlashOK' BY DEF FlashOK, flash
  <2>2. ChipsOK' BY DEF ChipsOK, chips
  <2>3. VolatileOK' BY DEF VolatileOK, call, wiping, Points, BootPoints, Returns
  <2>4. WorldOK' BY DEF WorldOK, observed
  <2> QED BY <2>1, <2>2, <2>3, <2>4
<1>25. CASE ArmWipeFlagAgain BY <1>25, ArmFlagType DEF ArmWipeFlagAgain, Points, WipePoints
<1>24. CASE UserIdRefused
  <2> USE BoundsAssumption, <1>24 DEF UserIdRefused, WipeFrame, TypeOK, Clean, Fault
  <2>1. FlashOK' BY DEF FlashOK, flash
  <2>2. ChipsOK' BY DEF ChipsOK, chips
  <2>3. VolatileOK' BY DEF VolatileOK, call, wiping, Points, WipePoints
  <2>4. WorldOK' BY DEF WorldOK, observed
  <2> QED BY <2>1, <2>2, <2>3, <2>4
<1> QED BY <1>1, <1>2, <1>3, <1>4, <1>5, <1>6, <1>7, <1>8, <1>9, <1>10, <1>11, <1>12,
       <1>13, <1>14, <1>15, <1>16, <1>17, <1>18, <1>19, <1>20, <1>21, <1>22, <1>23, <1>24, <1>25
       DEF WipeStep

-----------------------------------------------------------------------------
(* The setup.                                                              *)

(* A provisioning write to the OPTIGA keeps the types.                     *)
LEMMA WriteOptigaType ==
  ASSUME TypeOK, NEW at, NEW next \in Points,
         NEW new \in [count : 0..LucLimit, key : Owners \cup {Temp}, share : Owners,
                mark : BOOLEAN], WriteOptiga(at, next, new)
  PROVE  TypeOK'
<1> USE BoundsAssumption DEF WriteOptiga, SetupFrame, TypeOK, Clean, Fault
<1>1. FlashOK' BY DEF FlashOK, flash
<1>2. ChipsOK' BY DEF ChipsOK, chips
<1>3. VolatileOK' BY DEF VolatileOK, call, wiping, Points, WipePoints, Returns, Rollback,
       StartWipe
<1>4. WorldOK' BY DEF WorldOK, observed
<1> QED BY <1>1, <1>2, <1>3, <1>4

(* A provisioning write to the SE050 keeps the types.                      *)
LEMMA WriteSe050Type ==
  ASSUME TypeOK, live' \in Owners, NEW at, NEW next \in Points,
         NEW new \in [user : Owners, tries : 0..MaxAttempts, share : Owners,
                admin : BOOLEAN], WriteSe050(at, next, new)
  PROVE  TypeOK'
<1> USE BoundsAssumption DEF WriteSe050, SetupFrame, TypeOK, Clean, Fault
<1>1. FlashOK' BY DEF FlashOK, flash
<1>2. ChipsOK' BY DEF ChipsOK, chips
<1>3. VolatileOK' BY DEF VolatileOK, call, wiping, Points, WipePoints, Returns, Rollback,
       StartWipe
<1>4. WorldOK' BY DEF WorldOK, observed
<1> QED BY <1>1, <1>2, <1>3, <1>4

(* Every step of a setup keeps the types; that fewer than MaxWallets salts *)
(* were minted when one more is (Offchain) bounds the count.               *)
LEMMA SetupTypes ==
  ASSUME TypeOK, Offchain, SetupStep
  PROVE  TypeOK'
<1>1. CASE FinishWizard
  <2> USE BoundsAssumption, <1>1 DEF FinishWizard, SetupFrame, TypeOK, Clean, Fault
  <2>1. FlashOK' BY DEF FlashOK, flash, Page123Erased, Owners
  <2>2. ChipsOK' BY DEF ChipsOK, chips
  <2>3. VolatileOK' BY DEF VolatileOK, call, wiping, Points, SetupPoints
  <2>4. WorldOK' BY DEF WorldOK, observed
  <2> QED BY <2>1, <2>2, <2>3, <2>4
<1>2. CASE RetireSalt
  <2> USE BoundsAssumption, <1>2 DEF RetireSalt, SetupFrame, TypeOK, Clean, Fault
  <2>1. FlashOK' BY DEF FlashOK, flash, Owners, None
  <2>2. ChipsOK' BY DEF ChipsOK, chips
  <2>3. VolatileOK' BY DEF VolatileOK, call, wiping, Points, SetupPoints, WipePoints,
         Returns, Rollback, StartWipe
  <2>4. WorldOK' BY DEF WorldOK, observed, None
  <2> QED BY <2>1, <2>2, <2>3, <2>4
<1>3. CASE MintSalt
  <2> USE BoundsAssumption, <1>3 DEF MintSalt, SetupFrame, TypeOK, Clean, Fault
  <2>1. FlashOK' BY DEF FlashOK, flash, WorldOK, Offchain, Owners, Wallets
  <2>2. ChipsOK' BY DEF ChipsOK, chips
  <2>3. VolatileOK' BY DEF VolatileOK, call, wiping, Points, SetupPoints, WipePoints,
         Returns, Rollback, StartWipe
  <2>4. WorldOK' BY DEF WorldOK, observed, Offchain
  <2> QED BY <2>1, <2>2, <2>3, <2>4
<1>4. CASE WriteKey BY <1>4, WriteOptigaType DEF WriteKey, Points, SetupPoints, TypeOK,
       FlashOK, ChipsOK
<1>5. CASE WriteShareO BY <1>5, WriteOptigaType DEF WriteShareO, Points, SetupPoints,
       TypeOK, FlashOK, ChipsOK
<1>6. CASE WriteMark BY <1>6, WriteOptigaType DEF WriteMark, Points, SetupPoints, TypeOK,
       FlashOK, ChipsOK
<1>7. CASE SweepStale
  <2> USE BoundsAssumption, <1>7 DEF SweepStale, SetupFrame, TypeOK, Clean, Fault
  <2>1. FlashOK' BY DEF FlashOK, flash
  <2>2. ChipsOK'
    <3>1. Swept \in [user : Owners, tries : 0..MaxAttempts, share : Owners, admin : BOOLEAN]
      BY DEF Swept, ChipsOK, Owners, None
    <3> QED BY <3>1 DEF ChipsOK, chips, Owners, None
  <2>3. VolatileOK' BY DEF VolatileOK, call, wiping, Points, SetupPoints, WipePoints,
         Returns, Rollback, StartWipe
  <2>4. WorldOK' BY DEF WorldOK, observed
  <2> QED BY <2>1, <2>2, <2>3, <2>4
<1>8. CASE WriteUserId
  <2>1. [se050 EXCEPT !.user = salt, !.tries = 0]
          \in [user : Owners, tries : 0..MaxAttempts, share : Owners, admin : BOOLEAN]
    BY UserIdWritten DEF TypeOK, FlashOK
  <2>2. live' \in Owners BY <1>8 DEF WriteUserId, TypeOK, WorldOK
  <2> QED BY <1>8, <2>1, <2>2, WriteSe050Type DEF WriteUserId, Points, SetupPoints
<1>9. CASE WriteShareE
  <2> USE BoundsAssumption, <1>9 DEF WriteShareE, WriteSe050, SetupFrame, TypeOK, Clean,
         Fault
  <2>1. FlashOK' BY DEF FlashOK, flash
  <2>2. ChipsOK' BY DEF ChipsOK, chips, FlashOK
  <2>3. VolatileOK' BY DEF VolatileOK, call, wiping, Points, SetupPoints, WipePoints,
         Returns, Rollback, StartWipe
  <2>4. WorldOK' BY DEF WorldOK, observed, FlashOK
  <2> QED BY <2>1, <2>2, <2>3, <2>4
<1>10. CASE AutoUnlock
  <2> USE BoundsAssumption, <1>10 DEF AutoUnlock, SetupFrame, TypeOK, Clean, Fault
  <2>1. FlashOK' BY DEF FlashOK, flash
  <2>2. ChipsOK' BY DEF ChipsOK, chips
  <2>3. VolatileOK' BY DEF VolatileOK, call, wiping, Points, UnlockPoints, Entries, Verdicts
  <2>4. WorldOK' BY DEF WorldOK, observed
  <2> QED BY <2>1, <2>2, <2>3, <2>4
<1> QED BY <1>1, <1>2, <1>3, <1>4, <1>5, <1>6, <1>7, <1>8, <1>9, <1>10 DEF SetupStep

-----------------------------------------------------------------------------
(* The unlock.                                                             *)

(* Every step of an unlock keeps the types; the gate (Paid) bounds the     *)
(* charge.                                                                 *)
LEMMA UnlockTypes ==
  ASSUME TypeOK, Paid, UnlockStep
  PROVE  TypeOK'
<1>1. CASE Charge
  <2> USE BoundsAssumption, <1>1 DEF Charge, UnlockFrame, TypeOK, Clean, Fault
  <2>1. FlashOK' BY DEF FlashOK, flash, Charged, Paid
  <2>2. ChipsOK' BY DEF ChipsOK, chips
  <2>3. VolatileOK' BY DEF VolatileOK, call, wiping, Points, UnlockPoints, Verdicts, Answer
  <2>4. WorldOK' BY DEF WorldOK, observed
  <2> QED BY <2>1, <2>2, <2>3, <2>4
<1>2. CASE OptigaLocked
  <2> USE BoundsAssumption, <1>2 DEF OptigaLocked, UnlockFrame, TypeOK, Clean, Fault
  <2>1. FlashOK' BY DEF FlashOK, flash
  <2>2. ChipsOK' BY DEF ChipsOK, chips
  <2>3. VolatileOK' BY DEF VolatileOK, call, wiping, Points, UnlockPoints, Verdicts, Answer
  <2>4. WorldOK' BY DEF WorldOK, observed
  <2> QED BY <2>1, <2>2, <2>3, <2>4
<1>3. CASE OptigaVerify
  <2> USE BoundsAssumption, <1>3 DEF OptigaVerify, UnlockFault, UnlockFrame, TypeOK, Clean,
         Fault
  <2>1. FlashOK' BY DEF FlashOK, flash
  <2>2. ChipsOK' BY DEF ChipsOK, chips
  <2>3. VolatileOK' BY DEF VolatileOK, call, wiping, Points, UnlockPoints, Verdicts, Answer
  <2>4. WorldOK' BY DEF WorldOK, observed, Judged
  <2> QED BY <2>1, <2>2, <2>3, <2>4
<1>4. CASE OptigaReset
  <2> USE BoundsAssumption, <1>4 DEF OptigaReset, UnlockFault, UnlockFrame, TypeOK, Clean,
         Fault
  <2>1. FlashOK' BY DEF FlashOK, flash
  <2>2. ChipsOK' BY DEF ChipsOK, chips, CounterCleared
  <2>3. VolatileOK' BY DEF VolatileOK, call, wiping, Points, UnlockPoints, Verdicts, Answer
  <2>4. WorldOK' BY DEF WorldOK, observed
  <2> QED BY <2>1, <2>2, <2>3, <2>4
<1>5. CASE Se050Verify
  <2> USE BoundsAssumption, <1>5 DEF Se050Verify, UnlockFault, UnlockFrame, TypeOK, Clean,
         Fault
  <2>1. FlashOK' BY DEF FlashOK, flash
  <2>2. ChipsOK' BY DEF ChipsOK, chips, Se050Tried, Se050Asked
  <2>3. VolatileOK' BY DEF VolatileOK, call, wiping, Points, UnlockPoints, Verdicts,
         Answer, Se050Verdict
  <2>4. WorldOK' BY DEF WorldOK, observed
  <2> QED BY <2>1, <2>2, <2>3, <2>4
<1>6. CASE ClearAttempts
  <2> USE BoundsAssumption, <1>6 DEF ClearAttempts, UnlockFrame, TypeOK, Clean, Fault
  <2>1. FlashOK' BY DEF FlashOK, flash
  <2>2. ChipsOK' BY DEF ChipsOK, chips
  <2>3. VolatileOK' BY DEF VolatileOK, call, wiping, Points, UnlockPoints, Verdicts, Answer
  <2>4. WorldOK' BY DEF WorldOK, observed
  <2> QED BY <2>1, <2>2, <2>3, <2>4
<1>7. CASE OpenSession
  <2> USE BoundsAssumption, <1>7 DEF OpenSession, UnlockFrame, Return, TypeOK, Clean, Fault
  <2>1. FlashOK' BY DEF FlashOK, flash
  <2>2. ChipsOK' BY DEF ChipsOK, chips
  <2>3. VolatileOK' BY DEF VolatileOK, call, wiping, Points, UnlockPoints, Verdicts,
         Answer, FlashOK
  <2>4. WorldOK' BY DEF WorldOK, observed
  <2> QED BY <2>1, <2>2, <2>3, <2>4
<1>8. CASE PromptAgain
  <2> USE BoundsAssumption, <1>8 DEF PromptAgain, UnlockFrame, Return, TypeOK, Clean, Fault
  <2>1. FlashOK' BY DEF FlashOK, flash
  <2>2. ChipsOK' BY DEF ChipsOK, chips
  <2>3. VolatileOK' BY DEF VolatileOK, call, wiping, Points, Entries, Verdicts
  <2>4. WorldOK' BY DEF WorldOK, observed
  <2> QED BY <2>1, <2>2, <2>3, <2>4
<1>9. CASE CommandResult
  <2> USE BoundsAssumption, <1>9 DEF CommandResult, UnlockFrame, Return, TypeOK, Clean,
         Fault
  <2>1. FlashOK' BY DEF FlashOK, flash
  <2>2. ChipsOK' BY DEF ChipsOK, chips
  <2>3. VolatileOK' BY DEF VolatileOK, call, wiping, Points, WipePoints, Verdicts, Returns,
         StartWipe
  <2>4. WorldOK' BY DEF WorldOK, observed
  <2> QED BY <2>1, <2>2, <2>3, <2>4
<1> QED BY <1>1, <1>2, <1>3, <1>4, <1>5, <1>6, <1>7, <1>8, <1>9 DEF UnlockStep

-----------------------------------------------------------------------------
(* Boot, sessions, power.                                                  *)

(* A boot-time question costs at most one fault.                           *)
LEMMA QueryFaults ==
  ASSUME Resume \/ Route
  PROVE  UNCHANGED faults \/ (faults < MaxFaults /\ faults' = faults + 1)
BY DEF Resume, Route, Reported, Clean, Fault

(* Boot, sessions, the prompt and power keep the types.                    *)
LEMMA OtherTypes ==
  ASSUME TypeOK, OtherStep
  PROVE  TypeOK'
<1>1. CASE PowerOn
  <2> USE BoundsAssumption, <1>1 DEF PowerOn, BootFrame, TypeOK, Clean, Fault
  <2>1. FlashOK' BY DEF FlashOK, flash
  <2>2. ChipsOK' BY DEF ChipsOK, chips
  <2>3. VolatileOK' BY DEF VolatileOK, call, wiping, Points, BootPoints
  <2>4. WorldOK' BY DEF WorldOK, observed
  <2> QED BY <2>1, <2>2, <2>3, <2>4
<1>2. CASE Reconcile
  <2> USE BoundsAssumption, <1>2 DEF Reconcile, BootFrame, TypeOK, Clean, Fault
  <2>1. FlashOK' BY DEF FlashOK, flash
  <2>2. ChipsOK' BY DEF ChipsOK, chips
  <2>3. VolatileOK' BY DEF VolatileOK, call, wiping, Points, BootPoints, WipePoints,
         Returns, StartWipe
  <2>4. WorldOK' BY DEF WorldOK, observed
  <2> QED BY <2>1, <2>2, <2>3, <2>4
<1>3. CASE Resume
  <2> USE BoundsAssumption, <1>3 DEF Resume, BootFrame, TypeOK, Clean, Fault
  <2>1. FlashOK' BY DEF FlashOK, flash
  <2>2. ChipsOK' BY DEF ChipsOK, chips
  <2>3. VolatileOK' BY DEF VolatileOK, call, wiping, Points, BootPoints, WipePoints,
         Returns, StartWipe
  <2>4. WorldOK' BY QueryFaults DEF WorldOK, observed
  <2> QED BY <2>1, <2>2, <2>3, <2>4
<1>4. CASE Route
  <2> USE BoundsAssumption, <1>4 DEF Route, TypeOK, Clean, Fault
  <2>1. FlashOK' BY DEF FlashOK, flash
  <2>2. ChipsOK' BY DEF ChipsOK, chips
  <2>3. VolatileOK' BY DEF VolatileOK, call, wiping, Points, SetupPoints, Entries
  <2>4. WorldOK' BY QueryFaults DEF WorldOK, observed
  <2> QED BY <2>1, <2>2, <2>3, <2>4
<1>5. CASE EnterPin
  <2> USE BoundsAssumption, <1>5 DEF EnterPin, UnlockFrame, TypeOK, Clean, Fault
  <2>1. FlashOK' BY DEF FlashOK, flash
  <2>2. ChipsOK' BY DEF ChipsOK, chips
  <2>3. VolatileOK' BY DEF VolatileOK, call, wiping, Points, UnlockPoints, Verdicts, Answer
  <2>4. WorldOK' BY DEF WorldOK, observed
  <2> QED BY <2>1, <2>2, <2>3, <2>4
<1>6. CASE CancelPin
  <2> USE BoundsAssumption, <1>6 DEF CancelPin, UnlockFrame, TypeOK, Clean, Fault
  <2>1. FlashOK' BY DEF FlashOK, flash
  <2>2. ChipsOK' BY DEF ChipsOK, chips
  <2>3. VolatileOK' BY DEF VolatileOK, call, wiping, Points
  <2>4. WorldOK' BY DEF WorldOK, observed
  <2> QED BY <2>1, <2>2, <2>3, <2>4
<1>7. CASE RequestUnlock
  <2> USE BoundsAssumption, <1>7 DEF RequestUnlock, SessionFrame, TypeOK, Clean, Fault
  <2>1. FlashOK' BY DEF FlashOK, flash
  <2>2. ChipsOK' BY DEF ChipsOK, chips
  <2>3. VolatileOK' BY DEF VolatileOK, call, wiping, Points, Entries
  <2>4. WorldOK' BY DEF WorldOK, observed
  <2> QED BY <2>1, <2>2, <2>3, <2>4
<1>8. CASE Lock
  <2> USE BoundsAssumption, <1>8 DEF Lock, SessionFrame, TypeOK, Clean, Fault
  <2>1. FlashOK' BY DEF FlashOK, flash
  <2>2. ChipsOK' BY DEF ChipsOK, chips
  <2>3. VolatileOK' BY DEF VolatileOK, call, wiping, Points, Zeroized, Owners
  <2>4. WorldOK' BY DEF WorldOK, observed
  <2> QED BY <2>1, <2>2, <2>3, <2>4
<1>9. CASE IdleLock
  <2> USE BoundsAssumption, <1>9 DEF IdleLock, SessionFrame, TypeOK, Clean, Fault
  <2>1. FlashOK' BY DEF FlashOK, flash
  <2>2. ChipsOK' BY DEF ChipsOK, chips
  <2>3. VolatileOK' BY DEF VolatileOK, call, wiping, Points, Entries, Zeroized, Owners
  <2>4. WorldOK' BY DEF WorldOK, observed
  <2> QED BY <2>1, <2>2, <2>3, <2>4
<1>10. CASE SignOffchain
  <2> USE BoundsAssumption, <1>10 DEF SignOffchain, SessionFrame, TypeOK, Clean, Fault
  <2>1. FlashOK' BY DEF FlashOK, flash, VolatileOK
  <2>2. ChipsOK' BY DEF ChipsOK, chips
  <2>3. VolatileOK' BY DEF VolatileOK, call, wiping
  <2>4. WorldOK' BY DEF WorldOK, observed
  <2> QED BY <2>1, <2>2, <2>3, <2>4
<1>11. CASE PowerCycle
  <2> USE BoundsAssumption, <1>11 DEF PowerCycle, Reset, TypeOK, Clean, Fault
  <2>1. FlashOK' BY DEF FlashOK, flash
  <2>2. ChipsOK' BY DEF ChipsOK, chips
  <2>3. VolatileOK' BY DEF VolatileOK, call, wiping, Points, Entries, Verdicts, Returns,
         Owners
  <2>4. WorldOK' BY DEF WorldOK, observed
  <2> QED BY <2>1, <2>2, <2>3, <2>4
<1>12. CASE PowerCut
  <2> USE BoundsAssumption, <1>12 DEF PowerCut, Reset, TypeOK, Clean, Fault
  <2>1. FlashOK' BY DEF FlashOK, flash
  <2>2. ChipsOK' BY DEF ChipsOK, chips
  <2>3. VolatileOK' BY DEF VolatileOK, call, wiping, Points, Entries, Verdicts, Returns,
         Owners
  <2>4. WorldOK' BY DEF WorldOK, observed
  <2> QED BY <2>1, <2>2, <2>3, <2>4
<1>13. CASE TornErase
  <2> USE BoundsAssumption, <1>13 DEF TornErase, Reset, TypeOK, Clean, Fault
  <2>1. FlashOK' BY DEF FlashOK, flash
  <2>2. ChipsOK' BY DEF ChipsOK, chips
  <2>3. VolatileOK' BY DEF VolatileOK, call, wiping, Points, Entries, Verdicts, Returns,
         Owners
  <2>4. WorldOK' BY DEF WorldOK, observed
  <2> QED BY <2>1, <2>2, <2>3, <2>4
<1>14. CASE TornFallback
  <2> USE BoundsAssumption, <1>14 DEF TornFallback, Reset, TypeOK, Clean, Fault
  <2>1. FlashOK' BY DEF FlashOK, flash, Owners
  <2>2. ChipsOK' BY DEF ChipsOK, chips
  <2>3. VolatileOK' BY DEF VolatileOK, call, wiping, Points, Entries, Verdicts, Returns,
         Owners
  <2>4. WorldOK' BY DEF WorldOK, observed
  <2> QED BY <2>1, <2>2, <2>3, <2>4
<1> QED BY <1>1, <1>2, <1>3, <1>4, <1>5, <1>6, <1>7, <1>8, <1>9, <1>10, <1>11, <1>12,
       <1>13, <1>14 DEF OtherStep, BootStep, SessionStep, Power
===============================================================================
