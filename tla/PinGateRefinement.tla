-------------------------- MODULE PinGateRefinement ---------------------------
(*****************************************************************************)
(* PinGate implements AttemptBudget.  Every action is followed through the  *)
(* mapping: the owner is the salt, the charges are page 124, the state is   *)
(* the point the unlock has reached.                                        *)
(*****************************************************************************)
EXTENDS PinGateProofs

(* A step of the budget, or a stutter.                                     *)
BudgetStep == [Budget!Next]_(Budget!vars)

(* After a retreat the budget is closed.                                   *)
LEMMA ClosedAfter ==
  ASSUME pc' \in Elsewhere
  PROVE  BudgetState' = "closed"
BY DEF BudgetState, Asking, Matched, Elsewhere, Points, UnlockPoints

(* Nor is it open at a point of a setup before the first write.            *)
LEMMA ClosedBefore ==
  ASSUME pc \in Elsewhere \cup {"retire", "mint"}
  PROVE  BudgetState = "closed"
BY DEF BudgetState, Asking, Matched, Elsewhere, Points, UnlockPoints

(* A step that leaves wallet, charges and guesses alone, and the budget    *)
(* state or closes it, is a step of the budget.                            *)
LEMMA QuietStep ==
  ASSUME UNCHANGED <<salt, attempts, guesses>>, BudgetState' \in {BudgetState, "closed"}
  PROVE  BudgetStep
<1>1. CASE BudgetState' = BudgetState
  BY <1>1 DEF BudgetStep, Budget!vars
<1>2. CASE BudgetState' = "closed" /\ BudgetState # "closed"
  BY <1>2 DEF BudgetStep, Budget!Next, Budget!Close
<1> QED BY <1>1, <1>2

(* A wipe destroys the wallet, then reclaims its charges.                  *)
LEMMA WipeBudget ==
  ASSUME IndInv, WipeStep
  PROVE  BudgetStep
<1>1. BudgetState' = "closed"
  BY WipeRetreats, ClosedAfter DEF Retreat
<1>2. CASE DestroySaltFirst \/ DestroySaltSe050
  <2>1. BudgetState = "closed" /\ UNCHANGED attempts
    BY <1>2, ClosedBefore
       DEF DestroySaltFirst, DestroySaltSe050, DestroySalt, Elsewhere, Points, WipePoints,
              UnlockPoints
  <2>2. (salt' = 0 /\ guesses' = 0) \/ UNCHANGED <<salt, guesses>>
    BY <1>2 DEF DestroySaltFirst, DestroySaltSe050, DestroySalt, None
  <2> QED BY <1>1, <2>1, <2>2 DEF BudgetStep, Budget!vars, Budget!Next, Budget!Destroy,
         Budget!None
<1>3. CASE ForgiveAfterWipe
  <2>1. BudgetState = "closed" /\ UNCHANGED <<salt, guesses>>
    BY <1>3, ClosedBefore DEF ForgiveAfterWipe, Elsewhere, Points, WipePoints,
           UnlockPoints, WipeFrame
  <2>2. (salt = 0 /\ attempts' \in 0..attempts) \/ UNCHANGED attempts
    BY <1>3 DEF ForgiveAfterWipe, MayForgive, SaltAbsent, None, IndInv, TypeOK, FlashOK
  <2> QED BY <1>1, <2>1, <2>2
          DEF BudgetStep, Budget!vars, Budget!Next, Budget!Reclaim, Budget!None,
                 Budget!Interrupted
<1>4. ASSUME ~DestroySaltFirst, ~DestroySaltSe050, ~ForgiveAfterWipe
      PROVE  UNCHANGED <<salt, attempts, guesses>>
  BY <1>4 DEF WipeStep, ArmWipeFlag, ErasePage123, ArmWipeFlagOptiga, WriteTempKey,
     VerifyTempKey, VerifyRefused, ResetE120, WriteSentinel, BlankKey, BlankShare,
     ArmWipeFlagSe050, ArmWipeFlagAgain, Se050LegFails, NoAdminUserId, UserIdRefused, DeleteData, DeleteUserId, DeleteAdmin,
     CheckSurvivors, LinkLost, ErasePage125, RearmIfFailed, ArmFlag, OptigaStep,
            DeleteObject,
     WipeFrame, flash, observed
<1> QED BY <1>1, <1>2, <1>3, <1>4, QuietStep

(* A setup retires a wallet, mints one, and trusts the PIN it was given.   *)
LEMMA SetupBudget ==
  ASSUME IndInv, IndInv', SetupStep
  PROVE  BudgetStep
<1>1. CASE SetupRetreat
  <2>1. BudgetState' = "closed"
    BY <1>1, SetupRetreats, ClosedAfter DEF Retreat
  <2>2. UNCHANGED <<salt, attempts, guesses>>
    BY <1>1 DEF SetupRetreat, WriteKey, WriteShareO, WriteMark, SweepStale, WriteUserId,
       WriteShareE, WriteOptiga, WriteSe050, SetupFrame, observed
  <2> QED BY <2>1, <2>2, QuietStep
<1>2. CASE FinishWizard
  <2>1. BudgetState' = "closed"
    BY <1>2 DEF FinishWizard, BudgetState, Asking, Matched
  <2> QED BY <1>2, <2>1, QuietStep DEF FinishWizard, SetupFrame, observed
<1>3. CASE RetireSalt
  <2>1. BudgetState = "closed" /\ BudgetState' = "closed" /\ UNCHANGED attempts
    BY <1>3 DEF RetireSalt, Rollback, StartWipe, SetupFrame, BudgetState, Asking, Matched
  <2>2. (salt' = 0 /\ guesses' = 0) \/ UNCHANGED <<salt, guesses>>
    BY <1>3 DEF RetireSalt, None
  <2> QED BY <2>1, <2>2 DEF BudgetStep, Budget!vars, Budget!Next, Budget!Destroy,
         Budget!None
<1>4. CASE MintSalt
  <2>1. BudgetState = "closed" /\ BudgetState' = "closed" /\ UNCHANGED <<attempts, guesses>>
    BY <1>4 DEF MintSalt, Rollback, StartWipe, SetupFrame, BudgetState, Asking, Matched
  <2>2. salt = 0 /\ salt' \in 1..MaxWallets \cup {0}
    BY <1>4 DEF MintSalt, IndInv, Offchain, None, TypeOK, FlashOK, Owners, Wallets
  <2> QED BY <2>1, <2>2 DEF BudgetStep, Budget!vars, Budget!Next, Budget!Mint, Budget!None
<1>5. CASE AutoUnlock
  <2>1. BudgetState = "closed" /\ BudgetState' = "trusted"
    BY <1>5 DEF AutoUnlock, BudgetState, Asking, Matched
  <2>2. salt # 0 /\ guesses = 0 /\ UNCHANGED <<salt, attempts, guesses>>
    BY <1>5 DEF AutoUnlock, IndInv, Proven, HasSalt, Writing, None, SetupFrame, observed
  <2> QED BY <2>1, <2>2 DEF BudgetStep, Budget!Next, Budget!Trust, Budget!None
<1> QED BY <1>1, <1>2, <1>3, <1>4, <1>5 DEF SetupStep, SetupRetreat

(* An unlock charges, asks, and is judged, forgiven and opened.            *)
LEMMA UnlockBudget ==
  ASSUME IndInv, UnlockStep
  PROVE  BudgetStep
<1> USE DEF BudgetState, Asking, Matched, UnlockFrame
<1>1. CASE Charge
  <2>1. salt # 0 /\ attempts < MaxAttempts /\ entry # "setup"
    BY <1>1 DEF Charge, IndInv, Paid, Proven, HasSalt, None
  <2>2. BudgetState = "closed" /\ BudgetState' \in {"asked", "closed"}
    BY <1>1, <2>1 DEF Charge, Answer
  <2>3. attempts' \in {attempts, attempts + 1} /\ UNCHANGED <<salt, guesses>>
    BY <1>1 DEF Charge, Charged
  <2>4. attempts' = attempts => BudgetState' = "closed"
    BY <1>1 DEF Charge, Charged, Answer, IndInv, TypeOK, FlashOK
  <2> QED BY <2>1, <2>2, <2>3, <2>4, QuietStep
          DEF BudgetStep, Budget!Next, Budget!Charge, Budget!None
<1>2. CASE OptigaLocked
  <2>1. BudgetState' = "closed"
    BY <1>2 DEF OptigaLocked, Answer
  <2> QED BY <1>2, <2>1, QuietStep DEF OptigaLocked
<1>3. CASE OptigaVerify
  <2>1. UNCHANGED <<salt, attempts, entry, pin>>
    BY <1>3 DEF OptigaVerify
  <2>2. CASE entry = "setup"
    <3>1. UNCHANGED guesses
      BY <1>3, <2>2 DEF OptigaVerify, Judged, IndInv, Proven, UnlockPoints
    <3>2. BudgetState = "trusted" /\ BudgetState' \in {"trusted", "closed"}
      BY <1>3, <2>1, <2>2 DEF OptigaVerify, Answer
    <3> QED BY <2>1, <3>1, <3>2, QuietStep
  <2>3. CASE entry # "setup"
    <3>1. BudgetState = "asked" /\ BudgetState' \in {"accepted", "closed"}
      BY <1>3, <2>1, <2>3 DEF OptigaVerify, Answer
    <3>2. BudgetState' = "accepted" => UNCHANGED guesses
      BY <1>3 DEF OptigaVerify, Answer, Judged, Matches, IndInv, TypeOK, VolatileOK
    <3>3. guesses' \in {guesses, guesses + 1}
      BY <1>3 DEF OptigaVerify, Judged
    <3> QED BY <2>1, <3>1, <3>2, <3>3, QuietStep
            DEF BudgetStep, Budget!Next, Budget!Wrong, Budget!Accept
  <2> QED BY <2>2, <2>3
<1>4. CASE OptigaReset
  <2>1. BudgetState' \in {BudgetState, "closed"}
    BY <1>4 DEF OptigaReset, Answer
  <2> QED BY <1>4, <2>1, QuietStep DEF OptigaReset
<1>5. CASE Se050Verify
  <2>1. BudgetState' \in {BudgetState, "closed"}
    BY <1>5 DEF Se050Verify, Answer, Se050Verdict, IndInv, Proven
  <2> QED BY <1>5, <2>1, QuietStep DEF Se050Verify
<1>6. CASE ClearAttempts
  <2>1. BudgetState = "accepted" /\ UNCHANGED salt
    BY <1>6 DEF ClearAttempts, IndInv, Proven
  <2>2. \/ BudgetState' = "accepted" /\ attempts' = 0 /\ guesses' = 0
        \/ BudgetState' = "closed" /\ UNCHANGED <<attempts, guesses>>
    BY <1>6 DEF ClearAttempts, Answer, IndInv, Proven
  <2> QED BY <2>1, <2>2, QuietStep DEF BudgetStep, Budget!Next, Budget!Forgive
<1>7. CASE OpenSession
  <2>1. BudgetState = "trusted" \/ (BudgetState = "accepted" /\ attempts = 0)
    BY <1>7 DEF OpenSession, IndInv, Proven
  <2>2. BudgetState' = "open" /\ UNCHANGED <<salt, attempts, guesses>>
    BY <1>7 DEF OpenSession
  <2> QED BY <2>1, <2>2 DEF BudgetStep, Budget!Next, Budget!Open
<1>8. CASE PromptAgain \/ CommandResult
  <2>1. BudgetState' = "closed"
    BY <1>8 DEF PromptAgain, CommandResult, StartWipe
  <2> QED BY <1>8, <2>1, QuietStep DEF PromptAgain, CommandResult
<1> QED BY <1>1, <1>2, <1>3, <1>4, <1>5, <1>6, <1>7, <1>8 DEF UnlockStep

(* Boot, sessions and power close the budget; a torn erase of page 124     *)
(* leaves it half forgiven.                                                *)
LEMMA OtherBudget ==
  ASSUME IndInv, OtherStep
  PROVE  BudgetStep
<1>1. CASE EnterPin
  <2>1. BudgetState' = "closed"
    BY <1>1 DEF EnterPin, Answer, BudgetState, Asking, Matched
  <2> QED BY <1>1, <2>1, QuietStep DEF EnterPin, UnlockFrame
<1>2. CASE SignOffchain
  <2>1. BudgetState' = BudgetState
    BY <1>2 DEF SignOffchain, BudgetState, Asking, Matched
  <2> QED BY <1>2, <2>1, QuietStep DEF SignOffchain, SessionFrame, observed
<1>3. CASE TornErase
  <2>1. BudgetState' = "closed" /\ attempts' \in 0..attempts \cup {Capacity}
        /\ guesses' = 0 /\ UNCHANGED salt
    BY <1>3 DEF TornErase, Reset, BudgetState, Asking, Matched
  <2>2. CASE pc = "clear"
    <3>1. BudgetState = "accepted"
      BY <2>2 DEF BudgetState, Asking, Matched, IndInv, Proven
    <3> QED BY <2>1, <3>1
            DEF BudgetStep, Budget!Next, Budget!ForgiveInterrupted, Budget!Interrupted
  <2>3. CASE pc = "forgive" /\ salt = None
    <3>1. BudgetState = "closed" /\ salt = 0 /\ guesses = 0
      BY <2>3 DEF BudgetState, Asking, Matched, IndInv, Paid, None
    <3> QED BY <2>1, <3>1
            DEF BudgetStep, Budget!Next, Budget!Reclaim, Budget!None, Budget!Interrupted
  <2> QED BY <1>3, <2>2, <2>3 DEF TornErase, Erasing124, MayForgive, SaltAbsent
<1>5. CASE TornFallback
  <2>1. BudgetState = "closed"
    BY <1>5, ClosedBefore DEF TornFallback, Elsewhere, Points, WipePoints, UnlockPoints
  <2>2. BudgetState' = "closed" /\ UNCHANGED attempts
    BY <1>5 DEF TornFallback, Reset, BudgetState, Asking, Matched
  <2>3. (salt' = 0 /\ guesses' = 0) \/ UNCHANGED <<salt, guesses>>
    BY <1>5 DEF TornFallback, None
  <2> QED BY <2>1, <2>2, <2>3 DEF BudgetStep, Budget!vars, Budget!Next, Budget!Destroy,
         Budget!None
<1>4. CASE OtherRetreat /\ ~TornErase /\ ~TornFallback
  <2>1. OtherRetreat => pc' \in Elsewhere
    BY OtherRetreats DEF Retreat
  <2>2. UNCHANGED <<salt, attempts, guesses>>
    BY <1>4 DEF OtherRetreat, PowerOn, Reconcile, Resume, Route, BootFrame, CancelPin,
           PromptAgain,
       CommandResult, UnlockFrame, RequestUnlock, Lock, IdleLock, SessionFrame, PowerCycle,
       PowerCut, flash, observed
  <2> QED BY <1>4, <2>1, <2>2, ClosedAfter, QuietStep
<1> QED BY <1>1, <1>2, <1>3, <1>4, <1>5 DEF OtherStep, OtherRetreat, BootStep, SessionStep, Power

(* Every step of the device is a step of the budget, or none.              *)
LEMMA BudgetRefined ==
  ASSUME IndInv, IndInv', [Next]_vars
  PROVE  BudgetStep
<1>1. CASE UNCHANGED vars
  BY <1>1 DEF vars, flash, call, observed, BudgetStep, Budget!vars, BudgetState, Asking,
         Matched
<1> QED BY <1>1, WipeBudget, SetupBudget, UnlockBudget, OtherBudget
        DEF Next, User, Firmware, OtherStep, SetupStep

(* The device implements AttemptBudget, under the refinement mapping of    *)
(* PinGateProperties.                                                      *)
THEOREM Refinement == Spec => ImplementsBudget
<1>1. Init => Budget!Init
  BY DEF Init, Budget!Init, Budget!None, None, BudgetState, Asking, Matched
<1>2. IndInv /\ IndInv' /\ [Next]_vars => [Budget!Next]_(Budget!vars)
  BY BudgetRefined DEF BudgetStep
<1> QED BY <1>1, <1>2, Invariant, PTL DEF Spec, ImplementsBudget, Budget!Spec
===============================================================================
