-------------------------- MODULE PinSaltLogProofs --------------------------
(***************************************************************************)
(* The properties of page 125 hold for a log of any length, and for any     *)
(* number of salts, power cuts and failing operations; and the log          *)
(* implements SaltCell.                                                    *)
(***************************************************************************)
EXTENDS PinSaltLogProperties, WellFoundedInduction, TLAPS

-----------------------------------------------------------------------------
(* The inductive invariant.                                                 *)

Retiring == {"invalidate", "sweep", "draw"}
Minting == {"create", "program", "verify"}
Wiping == {"arm", "invalidate", "sweep", "erase", "armAgain", "chips", "erasePage", "settle"}

NoRecord == \A i \in Index, s \in 1..MaxSalts : ~Holds(i, s)

(* Who is at work, and how many salts it may still draw.                    *)
Control ==
  /\ op = "none" <=> pc = "idle"
  /\ op = "setup" => pc \in Retiring \cup Minting
  /\ op = "wipe" => pc \in Wiping
  /\ op = "setup" /\ pc \in Retiring => drawn < MaxSalts
  /\ pc \in Minting => drawn > 0

GoneInWipe == gone => op = "wipe"

(* What TypeOK says of everything but the two flags of a wipe.              *)
Shape ==
  /\ cells \in [Index -> Cell] /\ flag \in Flag
  /\ pc \in Points /\ op \in {"none", "setup", "wipe"}
  /\ base \in 0..(N - 3) /\ k \in 0..2 /\ drawn \in 0..MaxSalts
  /\ cuts \in 0..MaxCuts /\ faults \in 0..MaxFaults

(* Where control has come, the log is empty, or blank from some word on.    *)
Reached ==
  /\ pc \in {"draw", "program"} => NoRecord
  /\ pc = "program" => \A i \in Index : i >= base + k => cells[i] = Blank
  /\ pc = "armAgain" => cells = Erased

(* A wipe that got past arming has its flag, unless the flag failed.        *)
Flagged ==
  pc \in {"invalidate", "sweep", "erase", "chips", "erasePage"} /\ op = "wipe"
    /\ flag = "blank" => faults > 0

IndInv == TypeOK /\ Control /\ Reached /\ Flagged /\ OneRecord /\ NothingLeft
            /\ GoneInWipe

-----------------------------------------------------------------------------
(* Least and greatest elements of sets of naturals.                         *)

(* Every nonempty set of naturals has a least element.                      *)
LEMMA LeastExists ==
  ASSUME NEW S, S \subseteq Nat, S # {}
  PROVE  \E x \in S : \A y \in S : x <= y
<1> DEFINE R == OpToRel(<, Nat)
<1>1. IsWellFoundedOn(R, Nat)
  BY NatLessThanWellFounded
<1>2. \A x, y \in Nat : <<x, y>> \in R <=> x < y
  BY DEF OpToRel
<1> HIDE DEF R
<1>3. \E x \in S : \A y \in S : ~(<<y, x>> \in R)
  BY <1>1, WFMin
<1>4. PICK x \in S : \A y \in S : ~(<<y, x>> \in R)
  BY <1>3
<1>5. ASSUME NEW y \in S PROVE x <= y
  <2>1. x \in Nat /\ y \in Nat
    OBVIOUS
  <2>2. ~(y < x)
    BY <1>2, <1>4, <2>1
  <2> QED  BY <2>1, <2>2
<1> QED  BY <1>5

(* Min returns it.                                                          *)
LEMMA MinOfNaturals ==
  ASSUME NEW S, S \subseteq Nat, S # {}
  PROVE  Min(S) \in S /\ \A y \in S : Min(S) <= y
<1>1. \E x \in S : \A y \in S : x <= y
  BY LeastExists
<1> QED  BY <1>1 DEF Min

(* Max returns the greatest element of a nonempty set of naturals up to n.  *)
LEMMA MaxOfBounded ==
  ASSUME NEW n \in Nat, NEW S, S \subseteq 0..n, S # {}
  PROVE  Max(S) \in S /\ \A y \in S : Max(S) >= y
<1> DEFINE T == {n - x : x \in S}
<1>1. T \subseteq Nat /\ T # {}
  OBVIOUS
<1>2. PICK t \in T : \A u \in T : t <= u
  BY <1>1, LeastExists
<1>3. PICK x \in S : t = n - x
  OBVIOUS
<1>4. ASSUME NEW y \in S PROVE x >= y
  <2>1. n - x <= n - y
    BY <1>2, <1>3
  <2> QED  BY <2>1
<1>5. \E m \in S : \A y \in S : m >= y
  BY <1>4
<1> QED  BY <1>5 DEF Max

-----------------------------------------------------------------------------
(* Scans of the log.                                                        *)

(* A scan recognises exactly the records the log holds.                     *)
LEMMA ScanFindsRecords ==
  ASSUME TypeOK, NEW i \in Index
  PROVE  RecordAt(i) <=> \E s \in 1..MaxSalts : Holds(i, s)
<1>1. ASSUME RecordAt(i) PROVE \E s \in 1..MaxSalts : Holds(i, s)
  <2>1. cells[i] \in Cell /\ cells[i].part = "lo"
    BY <1>1 DEF TypeOK, RecordAt
  <2>2. cells[i].salt \in 1..MaxSalts
    BY <2>1 DEF Cell, Blank, Zero, Noise
  <2> QED  BY <1>1, <2>2 DEF RecordAt, Holds
<1>2. ASSUME NEW s \in 1..MaxSalts, Holds(i, s) PROVE RecordAt(i)
  <2>1. i + 2 < N /\ \A j \in 0..2 : cells[i + j] = [part |-> Part[j + 1], salt |-> s]
    BY <1>2 DEF Holds
  <2>2. cells[i + 0] = [part |-> Part[0 + 1], salt |-> s]
    BY <2>1
  <2>3. cells[i].part = "lo" /\ cells[i].salt = s
    BY <2>2 DEF Index, Part
  <2> QED  BY <2>1, <2>3 DEF RecordAt
<1> QED  BY <1>1, <1>2

(* Records is empty when, and only when, no record is held.                 *)
LEMMA NoneFound ==
  ASSUME TypeOK
  PROVE  Records = {} <=> NoRecord
BY ScanFindsRecords DEF Records, NoRecord

(* The frontier is a word number, and every word from it on is blank.       *)
LEMMA BlankFromFrontier ==
  ASSUME TypeOK
  PROVE  /\ Frontier \in Nat
         /\ \A i \in Index : i >= Frontier => cells[i] = Blank
<1> DEFINE S == {0} \cup {i + 1 : i \in {j \in Index : cells[j] # Blank}}
<1>1. N \in Nat
  BY LogAssumption
<1>2. S \subseteq 0..N /\ S # {}
  BY <1>1 DEF Index
<1>3. Max(S) \in S /\ \A y \in S : Max(S) >= y
  BY <1>1, <1>2, MaxOfBounded
<1>4. Frontier = Max(S)
  BY DEF Frontier
<1>5. ASSUME NEW i \in Index, i >= Frontier PROVE cells[i] = Blank
  <2>1. SUFFICES ASSUME cells[i] # Blank PROVE FALSE
    OBVIOUS
  <2>2. i + 1 \in S
    BY <2>1
  <2>3. Frontier >= i + 1
    BY <1>3, <1>4, <2>2
  <2>4. i \in Nat /\ Frontier \in Nat
    BY <1>1, <1>2, <1>3, <1>4 DEF Index
  <2> QED  BY <1>5, <2>3, <2>4
<1> QED  BY <1>1, <1>2, <1>3, <1>4, <1>5

(* The word a sweep or an invalidation writes next is one of the log.       *)
LEMMA NextToClear ==
  /\ Records # {} => Min(Records) \in Index /\ Min(Records) \in Records
  /\ Residue # {} => Min(Residue) \in Index /\ Min(Residue) \in Residue
<1>1. Records \subseteq Nat /\ Residue \subseteq Nat
  BY DEF Records, Residue, Index
<1>2. Records \subseteq Index /\ Residue \subseteq Index
  BY DEF Records, Residue
<1> QED  BY <1>1, <1>2, MinOfNaturals

-----------------------------------------------------------------------------
(* Types and control: one step per action.                                  *)
LEMMA ShapeStep ==
  ASSUME TypeOK, Control, [Next]_vars
  PROVE  Shape' /\ Control'
<1> USE DEF vars, page, append, wiping, Clean, Fault, CallFrame,
            Points, Flag, Control, Retiring, Minting, Wiping
<1>S. Shape
  BY DEF TypeOK, Shape
<1>0. /\ N \in Nat /\ N >= 3 /\ MaxSalts \in Nat /\ MaxCuts \in Nat /\ MaxFaults \in Nat
      /\ Blank \in Cell /\ Zero \in Cell /\ Noise \in Cell
  BY LogAssumption DEF Cell
<1>1. CASE BeginSetup
  BY <1>S, <1>0, <1>1 DEF BeginSetup, Shape
<1>2. CASE BeginWipe
  BY <1>S, <1>0, <1>2 DEF BeginWipe, StartWipe, BeginWipeAt, NoLocals, Shape
<1>3. ASSUME NEW i \in Index, NEW left \in Cell, Put(i, left)
      PROVE  cells' \in [Index -> Cell]
  BY <1>S, <1>3 DEF Put, Shape
<1>4. ASSUME NEW i \in Index, ZeroQuadWord(i), pc \in {"invalidate", "sweep"},
             UNCHANGED <<flag, drawn, cuts>>
      PROVE  Shape' /\ Control'
  <2>1. cells[i] \in Cell
    BY <1>S DEF Shape
  <2>2. cells' \in [Index -> Cell]
    BY <1>S, <1>0, <1>3, <1>4, <2>1 DEF ZeroQuadWord, PutFails
  <2> QED  BY <1>S, <1>0, <1>4, <2>2 DEF ZeroQuadWord, NotDestroyed, StartWipe,
                                   BeginWipeAt, NoLocals, Shape
<1>5. CASE Invalidate
  <2>1. CASE Records # {} /\ ZeroQuadWord(Min(Records))
    BY <1>4, <1>5, <2>1, NextToClear DEF Invalidate
  <2>2. CASE Records = {} /\ pc' = "sweep" /\ Clean /\ UNCHANGED <<cells, op, append, wiping>>
    BY <1>S, <1>5, <2>2 DEF Invalidate, Shape
  <2> QED  BY <1>S, <1>5, <2>1, <2>2 DEF Invalidate
<1>6. CASE Sweep
  <2>1. CASE Residue # {} /\ ZeroQuadWord(Min(Residue))
    BY <1>4, <1>6, <2>1, NextToClear DEF Sweep
  <2>2. CASE ~(Residue # {} /\ ZeroQuadWord(Min(Residue)))
    BY <1>S, <1>0, <1>6, <2>2 DEF Sweep, Destroyed, NotDestroyed, StartWipe, BeginWipeAt,
                            NoLocals, Shape
  <2> QED  BY <2>1, <2>2
<1>7. CASE Draw
  BY <1>S, <1>0, <1>7 DEF Draw, StartWipe, BeginWipeAt, NoLocals, Shape
<1>8. CASE Create
  <2>1. CASE Records # {} \/ ~Fits
    BY <1>S, <1>0, <1>8, <2>1 DEF Create, StartWipe, BeginWipeAt, NoLocals, Shape
  <2>2. CASE ~(Records # {} \/ ~Fits)
    <3>1. Frontier \in 0..(N - 3)
      BY <1>S, <1>0, <2>2, BlankFromFrontier DEF Fits
    <3> QED  BY <1>S, <1>0, <1>8, <2>2, <3>1 DEF Create, Shape
  <2> QED  BY <2>1, <2>2
<1>9. CASE Program
  <2> DEFINE new == [part |-> Part[k + 1], salt |-> drawn]
  <2>1. base + k \in Index
    BY <1>S, <1>0 DEF Shape, Index
  <2>2. new \in Cell /\ cells[base + k] \in Cell
    <3>1. Part[k + 1] \in {"lo", "hi", "head"} /\ drawn \in 1..MaxSalts
      BY <1>S, <1>0, <1>9 DEF Program, Part, Shape
    <3> QED  BY <1>S, <2>1, <3>1 DEF Cell, Shape
  <2> HIDE DEF new
  <2>3. \/ /\ Clean /\ Put(base + k, new)
           /\ IF k < 2 THEN k' = k + 1 /\ UNCHANGED pc ELSE pc' = "verify" /\ UNCHANGED k
           /\ UNCHANGED <<op, base, wiping>>
        \/ Fault /\ PutFails(base + k, new) /\ StartWipe
    BY <1>9 DEF Program, new
  <2>4. cells' \in [Index -> Cell]
    BY <1>S, <1>0, <1>3, <2>1, <2>2, <2>3 DEF PutFails
  <2> QED  BY <1>S, <1>0, <1>9, <2>3, <2>4 DEF Program, StartWipe, BeginWipeAt, NoLocals, Shape
<1>10. CASE Verify
  BY <1>S, <1>0, <1>10 DEF Verify, Return, StartWipe, BeginWipeAt, NoLocals, Shape
<1>11. Erased \in [Index -> Cell]
  BY <1>S, <1>0 DEF Erased
<1>12. CASE ArmFlag
  BY <1>S, <1>0, <1>12 DEF ArmFlag, Arm, Shape
<1>13. CASE EraseRegion
  BY <1>S, <1>0, <1>11, <1>13 DEF EraseRegion, Shape
<1>14. CASE ArmAgain
  BY <1>S, <1>0, <1>14 DEF ArmAgain, Shape
<1>15. CASE NextLeg \/ ChipsFail \/ ChipsBlank
  BY <1>S, <1>0, <1>15 DEF NextLeg, ChipsFail, ChipsBlank, Shape
<1>16. CASE ErasePage
  BY <1>S, <1>0, <1>11, <1>16 DEF ErasePage, Shape
<1>17. CASE Settle
  BY <1>S, <1>0, <1>17 DEF Settle, Arm, Return, NoLocals, Shape
<1>18. CASE PowerCut
  <2>1. cells' \in [Index -> Cell] /\ flag' \in Flag
    <3>1. CASE UNCHANGED page
      BY <1>S, <3>1 DEF Shape
    <3>2. CASE TornProgram
      <4>1. base + k \in Index
        BY <1>S, <1>0 DEF Shape, Index
      <4> QED  BY <1>S, <1>0, <1>3, <3>2, <4>1, NextToClear DEF TornProgram, Shape
    <3>3. CASE TornFlag
      BY <1>S, <3>3 DEF TornFlag, Shape
    <3>4. CASE TornErase
      BY <1>S, <1>0, <3>4 DEF TornErase, Shape
    <3> QED  BY <1>18, <3>1, <3>2, <3>3, <3>4 DEF PowerCut
  <2> QED  BY <1>S, <1>0, <1>18, <2>1 DEF PowerCut, Return, NoLocals, Shape
<1>19. CASE UNCHANGED vars
  BY <1>S, <1>19 DEF Shape
<1> QED
  BY <1>1, <1>2, <1>5, <1>6, <1>7, <1>8, <1>9, <1>10, <1>12, <1>13, <1>14, <1>15,
     <1>16, <1>17, <1>18, <1>19 DEF Next, SetupStep, WipeStep

(* The two flags of a wipe stay Booleans, and one of them is up only then.  *)
LEMMA WipeFlagsStep ==
  ASSUME TypeOK, Control, GoneInWipe, [Next]_vars
  PROVE  failed' \in BOOLEAN /\ gone' \in BOOLEAN /\ GoneInWipe'
<1> USE DEF GoneInWipe
<1>1. failed \in BOOLEAN /\ gone \in BOOLEAN
  BY DEF TypeOK
<1>2. CASE UNCHANGED wiping /\ (op' = "wipe" \/ ~gone)
  BY <1>1, <1>2 DEF wiping
<1>3. CASE NoLocals
  BY <1>3 DEF NoLocals
<1>4. op # "wipe" => ~gone
  OBVIOUS
<1>5. CASE UNCHANGED <<op, wiping>>
  BY <1>1, <1>5 DEF wiping
<1>6. CASE BeginSetup
  BY <1>2, <1>4, <1>6 DEF BeginSetup, Control
<1>7. CASE BeginWipe
  BY <1>3, <1>7 DEF BeginWipe, StartWipe
<1>8. CASE NotDestroyed
  BY <1>3, <1>5, <1>8 DEF NotDestroyed, StartWipe
<1>9. CASE Invalidate
  BY <1>5, <1>8, <1>9 DEF Invalidate, ZeroQuadWord
<1>10. CASE Sweep /\ Destroyed
  <2>1. CASE op = "setup"
    BY <1>5, <1>10, <2>1 DEF Destroyed
  <2>2. CASE op # "setup"
    <3>1. op = "wipe" /\ op' = op
      BY <1>10, <2>2 DEF Sweep, Destroyed, Control, TypeOK
    <3>2. gone' = TRUE /\ failed' = failed
      BY <1>10, <2>2 DEF Destroyed
    <3> QED  BY <1>1, <3>1, <3>2
  <2> QED  BY <2>1, <2>2
<1>11. CASE Sweep
  BY <1>5, <1>8, <1>10, <1>11 DEF Sweep, ZeroQuadWord
<1>12. CASE Draw
  BY <1>3, <1>5, <1>12 DEF Draw, StartWipe
<1>13. CASE Create
  BY <1>3, <1>5, <1>13 DEF Create, StartWipe
<1>14. CASE Program
  BY <1>3, <1>5, <1>14 DEF Program, StartWipe
<1>15. CASE Verify
  BY <1>3, <1>15 DEF Verify, StartWipe, Return
<1>16. CASE ArmFlag \/ NextLeg \/ ChipsBlank \/ ErasePage
  BY <1>5, <1>16 DEF ArmFlag, NextLeg, ChipsBlank, ErasePage, CallFrame
<1>17. CASE EraseRegion
  BY <1>1, <1>5, <1>17 DEF EraseRegion, wiping
<1>18. CASE ArmAgain
  <2>1. op = "wipe" /\ op' = op
    BY <1>18 DEF ArmAgain, Control, TypeOK, Retiring, Minting
  <2>2. CASE gone' = (Records = {}) /\ failed' = (failed \/ ~gone')
    BY <2>1, <2>2
  <2>3. CASE gone' = FALSE /\ failed' = TRUE
    BY <2>1, <2>3
  <2> QED  BY <1>18, <2>2, <2>3 DEF ArmAgain
<1>19. CASE ChipsFail
  BY <1>1, <1>19 DEF ChipsFail
<1>20. CASE Settle
  BY <1>3, <1>20 DEF Settle, Return
<1>21. CASE PowerCut
  BY <1>3, <1>21 DEF PowerCut, Return
<1>22. CASE UNCHANGED vars
  BY <1>5, <1>22 DEF vars
<1> QED
  BY <1>6, <1>7, <1>9, <1>11, <1>12, <1>13, <1>14, <1>15, <1>16, <1>17, <1>18, <1>19,
     <1>20, <1>21, <1>22 DEF Next, SetupStep, WipeStep

(* Together: the type invariant is kept.                                    *)
LEMMA TypeStep ==
  ASSUME TypeOK, Control, GoneInWipe, [Next]_vars
  PROVE  TypeOK' /\ Control' /\ GoneInWipe'
BY ShapeStep, WipeFlagsStep DEF TypeOK, Shape

-----------------------------------------------------------------------------
(* What a step does to the log.                                             *)

(* What everything but create does to a word; and what a setup never does.  *)
Fades == \A i \in Index : cells'[i] \in {cells[i], Blank, Zero, Noise}
InPlace == flag' = flag /\ \A i \in Index : cells[i] # Blank => cells'[i] # Blank

(* One word zeroed, with or without success.                                *)
LEMMA ZeroFades ==
  ASSUME TypeOK, NEW i \in Index, ZeroQuadWord(i)
  PROVE  Fades /\ \A j \in Index : cells[j] # Blank => cells'[j] # Blank
<1>1. Blank # Zero /\ Blank # Noise
  BY DEF Blank, Zero, Noise
<1> QED  BY <1>1 DEF ZeroQuadWord, PutFails, Put, Fades, TypeOK

(* Only create writes the words of a record.  Everything else leaves a word *)
(* alone, blanks it, zeroes it or makes it noise; and while a setup is at   *)
(* work nothing is erased.                                                  *)
LEMMA StepFades ==
  ASSUME TypeOK, Control, [Next]_vars
  PROVE  Program \/ (Fades /\ (op = "setup" => InPlace))
<1> USE DEF vars, page, append
<1>1. CASE UNCHANGED page
  BY <1>1 DEF Fades, InPlace
<1>2. CASE Invalidate
  <2>1. CASE Records # {} /\ ZeroQuadWord(Min(Records))
    BY <1>2, <2>1, NextToClear, ZeroFades DEF InPlace, Invalidate
  <2> QED  BY <1>1, <1>2, <2>1 DEF Invalidate
<1>3. CASE Sweep
  <2>1. CASE Residue # {} /\ ZeroQuadWord(Min(Residue))
    BY <1>3, <2>1, NextToClear, ZeroFades DEF InPlace, Sweep
  <2> QED  BY <1>1, <1>3, <2>1 DEF Sweep
<1>4. CASE BeginSetup \/ BeginWipe \/ Draw \/ Create \/ Verify \/ NextLeg \/ ChipsFail \/ ChipsBlank
  BY <1>1, <1>4 DEF BeginSetup, BeginWipe, Draw, Create, Verify, NextLeg, ChipsFail, ChipsBlank
<1>5. pc \notin Retiring \cup Minting => op # "setup"
  BY DEF Control
<1>6. CASE UNCHANGED cells /\ op # "setup"
  BY <1>6 DEF Fades
<1>7. CASE cells' = Erased /\ op # "setup"
  BY <1>7 DEF Fades, Erased
<1>8. CASE ArmFlag \/ ArmAgain \/ Settle
  BY <1>5, <1>6, <1>8 DEF ArmFlag, ArmAgain, Settle, Retiring, Minting
<1>9. CASE EraseRegion \/ ErasePage
  BY <1>1, <1>5, <1>7, <1>9 DEF EraseRegion, ErasePage, Retiring, Minting
<1>10. CASE PowerCut
  <2>1. CASE TornProgram
    <3>1. PICK i \in Index : Put(i, Noise)
      <4>1. base + k \in Index
        BY LogAssumption DEF TypeOK, Index
      <4> QED  BY <2>1, <4>1, NextToClear DEF TornProgram
    <3>2. Blank # Noise
      BY DEF Blank, Noise
    <3> QED  BY <2>1, <3>1, <3>2 DEF TornProgram, Put, Fades, InPlace, TypeOK
  <2>2. CASE TornFlag
    BY <1>5, <1>6, <2>2 DEF TornFlag, Retiring, Minting, Control
  <2>3. CASE TornErase
    <3>1. op # "setup"
      BY <1>5, <2>3 DEF TornErase, Retiring, Minting
    <3>2. Fades
      BY <2>3 DEF TornErase, Fades
    <3> QED  BY <3>1, <3>2
  <2> QED  BY <1>1, <1>10, <2>1, <2>2, <2>3 DEF PowerCut
<1>11. CASE UNCHANGED vars
  BY <1>1, <1>11
<1> QED
  BY <1>2, <1>3, <1>4, <1>8, <1>9, <1>10, <1>11 DEF Next, SetupStep, WipeStep

(* A fading log gains no record.                                            *)
LEMMA FadingGainsNothing ==
  ASSUME TypeOK, Fades, NEW i \in Index, NEW s \in 1..MaxSalts, Holds(i, s)'
  PROVE  Holds(i, s)
<1>1. i + 2 < N /\ \A j \in 0..2 : cells'[i + j] = [part |-> Part[j + 1], salt |-> s]
  BY DEF Holds
<1>2. ASSUME NEW j \in 0..2 PROVE cells[i + j] = [part |-> Part[j + 1], salt |-> s]
  <2>1. i + j \in Index
    BY <1>1, LogAssumption DEF Index
  <2>2. [part |-> Part[j + 1], salt |-> s] \notin {Blank, Zero, Noise}
    BY DEF Part, Blank, Zero, Noise
  <2> QED  BY <1>1, <2>1, <2>2 DEF Fades
<1> QED  BY <1>1, <1>2 DEF Holds

(* Program completes at most the record it is at, with its third word.      *)
LEMMA ProgramCompletes ==
  ASSUME TypeOK, Reached, Program, NEW i \in Index, NEW s \in 1..MaxSalts, Holds(i, s)'
  PROVE  i = base /\ s = drawn /\ k = 2
<1> DEFINE word(j, t) == [part |-> Part[j + 1], salt |-> t]
<1>1. i + 2 < N /\ \A j \in 0..2 : cells'[i + j] = word(j, s)
  BY DEF Holds
<1>2. N \in Nat /\ base \in 0..(N - 3) /\ k \in 0..2 /\ base + k \in Index
  BY LogAssumption DEF TypeOK, Index
<1>3. \E left \in {cells[base + k], Noise, word(k, drawn)} : Put(base + k, left)
  BY DEF Program, PutFails
<1>4. PICK left \in {cells[base + k], Noise, word(k, drawn)} :
        cells' = [cells EXCEPT ![base + k] = left]
  BY <1>3 DEF Put
<1>5. \A n \in Index : n # base + k => cells'[n] = cells[n]
  BY <1>4 DEF TypeOK
<1>6. cells'[base + k] = left
  BY <1>2, <1>4 DEF TypeOK
<1>7. ~Holds(i, s) /\ \A n \in Index : n >= base + k => cells[n] = Blank
  BY DEF Reached, NoRecord, Program
<1>8. cells[base + k] = Blank
  BY <1>2, <1>7
<1>9. \A j \in 0..2 : i + j \in Index
  BY <1>1, <1>2 DEF Index
<1>10. PICK j \in 0..2 : i + j = base + k
  <2>1. SUFFICES ASSUME \A j \in 0..2 : i + j # base + k PROVE FALSE
    OBVIOUS
  <2>2. \A j \in 0..2 : cells[i + j] = word(j, s)
    BY <1>1, <1>5, <1>9, <2>1
  <2> QED  BY <1>1, <1>7, <2>2 DEF Holds
<1>11. word(j, s) = left
  BY <1>1, <1>6, <1>10
<1>12. word(j, s) \notin {Blank, Noise}
  BY DEF Part, Blank, Noise
<1>13. word(j, s) = word(k, drawn)
  BY <1>4, <1>8, <1>11, <1>12
<1>14. j = k /\ s = drawn
  BY <1>2, <1>13 DEF Part
<1>15. k = 2
  <2>1. SUFFICES ASSUME k < 2 PROVE FALSE
    BY <1>2
  <2>2. i + 2 \in Index /\ i + 2 >= base + k /\ i + 2 # base + k
    <3>1. i \in Nat /\ i + k = base + k
      BY <1>10, <1>14 DEF Index
    <3> QED  BY <1>2, <1>9, <2>1, <3>1
  <2>3. cells'[i + 2] = Blank
    BY <1>5, <1>7, <2>2
  <2>4. cells'[i + 2] = word(2, s)
    BY <1>1
  <2> QED  BY <2>3, <2>4 DEF Part, Blank
<1> QED  BY <1>2, <1>10, <1>14, <1>15 DEF Index

-----------------------------------------------------------------------------
(* The inductive invariant is kept.                                         *)

(* Fading adds no record, and create writes into a log without one.         *)
LEMMA OneRecordStep ==
  ASSUME TypeOK, Control, Reached, OneRecord, [Next]_vars
  PROVE  OneRecord'
<1>1. CASE Fades
  BY <1>1, FadingGainsNothing DEF OneRecord
<1>2. CASE Program
  BY <1>2, ProgramCompletes DEF OneRecord
<1> QED  BY <1>1, <1>2, StepFades

(* With neither records nor residue left, a wipe writes nothing more.       *)
LEMMA NothingToClear ==
  ASSUME TypeOK, \A i \in Index : cells[i] \in {Blank, Zero}
  PROVE  Records = {} /\ Residue = {}
<1>1. \A i \in Index : cells[i].part # "lo"
  BY DEF Blank, Zero
<1>2. Records = {}
  BY <1>1 DEF Records, RecordAt
<1> QED  BY <1>2 DEF Residue

(* A wipe that has reported Ok finds nothing to write before it ends.        *)
LEMMA NothingLeftStep ==
  ASSUME TypeOK, Control, GoneInWipe, Reached, NothingLeft, [Next]_vars
  PROVE  NothingLeft'
<1> USE DEF vars, page, wiping, NothingLeft
<1>1. SUFFICES ASSUME gone' PROVE \A i \in Index : cells'[i] \in {Blank, Zero}
  OBVIOUS
<1>2. ~NoLocals
  BY <1>1 DEF NoLocals
<1>3. CASE cells' = Erased
  BY <1>3 DEF Erased
<1>4. CASE gone /\ UNCHANGED cells
  BY <1>4
<1>5. op # "wipe" => ~gone
  BY DEF GoneInWipe
<1>6. gone => op = "wipe" /\ Records = {} /\ Residue = {}
  BY NothingToClear DEF GoneInWipe
<1>7. CASE Sweep /\ gone' # gone
  <2>1. Residue = {} /\ UNCHANGED cells
    BY <1>2, <1>7 DEF Sweep, ZeroQuadWord, NotDestroyed, StartWipe
  <2> QED  BY <2>1 DEF Residue
<1>8. CASE ArmAgain
  BY <1>3, <1>8 DEF ArmAgain, Reached
<1>9. CASE BeginSetup
  BY <1>1, <1>4, <1>9 DEF BeginSetup
<1>10. CASE BeginWipe \/ Verify \/ Settle \/ PowerCut
  BY <1>2, <1>10 DEF BeginWipe, Verify, Settle, PowerCut, Return, StartWipe
<1>11. CASE Invalidate \/ (Sweep /\ gone' = gone)
  <2>1. gone
    BY <1>1, <1>2, <1>11 DEF Invalidate, ZeroQuadWord, NotDestroyed, StartWipe
  <2>2. UNCHANGED cells
    BY <1>6, <1>11, <2>1 DEF Invalidate, Sweep
  <2> QED  BY <1>4, <2>1, <2>2
<1>12. CASE Draw \/ Create \/ Program
  <2>1. op # "wipe"
    BY <1>12 DEF Draw, Create, Program, Control, Wiping
  <2>2. gone' = gone
    BY <1>2, <1>12 DEF Draw, Create, Program, StartWipe
  <2> QED  BY <1>1, <1>5, <2>1, <2>2
<1>13. CASE EraseRegion
  BY <1>1, <1>3, <1>13 DEF EraseRegion
<1>14. CASE ErasePage
  BY <1>1, <1>3, <1>4, <1>14 DEF ErasePage, CallFrame
<1>15. CASE ArmFlag \/ NextLeg \/ ChipsFail \/ ChipsBlank
  BY <1>1, <1>4, <1>15 DEF ArmFlag, NextLeg, ChipsFail, ChipsBlank, CallFrame
<1>16. CASE UNCHANGED vars
  BY <1>1, <1>4, <1>16
<1> QED
  BY <1>7, <1>8, <1>9, <1>10, <1>11, <1>12, <1>13, <1>14, <1>15, <1>16
     DEF Next, SetupStep, WipeStep

(* The emptiness each point of the code relies on was established before it. *)
LEMMA ReachedStep ==
  ASSUME TypeOK, Control, Reached, [Next]_vars
  PROVE  Reached'
<1> USE DEF vars, page, append, wiping
<1>1. UNCHANGED cells => (NoRecord <=> NoRecord')
  BY DEF NoRecord, Holds
<1>2. CASE UNCHANGED <<cells, pc, append>>
  BY <1>1, <1>2 DEF Reached
<1>3. CASE pc' \notin {"draw", "program", "armAgain"}
  BY <1>3 DEF Reached
<1>4. CASE Return \/ StartWipe
  BY <1>3, <1>4 DEF Return, StartWipe, BeginWipeAt
<1>5. CASE UNCHANGED cells /\ pc' = "draw" /\ Records = {}
  BY <1>1, <1>5, NoneFound DEF Reached
<1>6. CASE BeginSetup
  BY <1>3, <1>5, <1>6 DEF BeginSetup
<1>7. ASSUME NEW i \in Index, ZeroQuadWord(i), pc \in {"invalidate", "sweep"} PROVE Reached'
  <2>1. pc' = pc \/ StartWipe \/ pc' = "erase"
    BY <1>7 DEF ZeroQuadWord, NotDestroyed
  <2> QED  BY <1>3, <1>4, <1>7, <2>1
<1>8. CASE Invalidate
  BY <1>3, <1>7, <1>8, NextToClear DEF Invalidate
<1>9. CASE Sweep
  <2>1. CASE Residue # {} /\ ZeroQuadWord(Min(Residue))
    BY <1>7, <1>9, <2>1, NextToClear DEF Sweep
  <2>2. CASE UNCHANGED cells /\ Records = {} /\ Destroyed
    <3>1. pc' \in {"draw", "chips"}
      BY <2>2 DEF Destroyed
    <3> QED  BY <1>3, <1>5, <2>2, <3>1
  <2>3. CASE NotDestroyed
    <3>1. StartWipe \/ pc' = "erase"
      BY <2>3 DEF NotDestroyed
    <3> QED  BY <1>3, <1>4, <3>1
  <2> QED  BY <1>9, <2>1, <2>2, <2>3 DEF Sweep
<1>10. CASE Create
  <2>1. CASE Records # {} \/ ~Fits
    BY <1>4, <1>10, <2>1 DEF Create
  <2>2. CASE ~(Records # {} \/ ~Fits)
    <3>1. UNCHANGED cells /\ base' = Frontier /\ k' = 0 /\ pc' = "program" /\ Records = {}
      BY <1>10, <2>2 DEF Create
    <3>2. \A i \in Index : i >= base' + k' => cells'[i] = Blank
      BY <3>1, BlankFromFrontier
    <3> QED  BY <1>1, <3>1, <3>2, NoneFound DEF Reached
  <2> QED  BY <2>1, <2>2
<1>11. CASE Program
  <2>1. CASE StartWipe
    BY <1>4, <2>1
  <2>2. CASE k < 2 /\ k' = k + 1 /\ base' = base /\ pc' = pc
             /\ Put(base + k, [part |-> Part[k + 1], salt |-> drawn])
    <3>1. NoRecord'
      BY <1>11, <2>2, ProgramCompletes DEF NoRecord
    <3>2. base \in 0..(N - 3) /\ k \in 0..2
      BY DEF TypeOK
    <3>3. \A i \in Index : i >= base' + k' => cells'[i] = cells[i] /\ cells[i] = Blank
      BY <1>11, <2>2, <3>2 DEF Put, Program, Reached, TypeOK, Index
    <3> QED  BY <1>11, <2>2, <3>1, <3>3 DEF Reached, Program
  <2>3. CASE pc' = "verify"
    BY <1>3, <2>3
  <2> QED  BY <1>11, <2>1, <2>2, <2>3 DEF Program
<1>12. CASE Draw \/ Verify \/ BeginWipe \/ PowerCut \/ Settle
  BY <1>3, <1>4, <1>12 DEF Draw, Verify, BeginWipe, PowerCut, Settle
<1>13. CASE EraseRegion
  BY <1>3, <1>13 DEF EraseRegion, Reached
<1>14. CASE ArmFlag \/ ArmAgain \/ NextLeg \/ ChipsFail \/ ChipsBlank \/ ErasePage
  BY <1>3, <1>14 DEF ArmFlag, ArmAgain, NextLeg, ChipsFail, ChipsBlank, ErasePage
<1>15. CASE UNCHANGED vars
  BY <1>2, <1>15
<1> QED
  BY <1>6, <1>8, <1>9, <1>10, <1>11, <1>12, <1>13, <1>14, <1>15
     DEF Next, SetupStep, WipeStep

(* Faults are only counted up; a wipe lowers its flag only in an erase, and  *)
(* arms it again or records the fault that kept it from doing so.           *)
LEMMA FlaggedStep ==
  ASSUME TypeOK, Control, Flagged, [Next]_vars
  PROVE  Flagged'
<1> USE DEF vars, page, append, wiping
<1>1. faults \in Nat /\ faults' \in Nat /\ faults' >= faults
  <2>1. faults' = faults \/ faults' = faults + 1
    BY DEF Next, SetupStep, WipeStep, BeginSetup, BeginWipe, Invalidate, Sweep, Draw, Create,
           Program, Verify, ArmFlag, EraseRegion, ArmAgain, NextLeg, ChipsFail, ChipsBlank,
           ErasePage, Settle, PowerCut, Clean, Fault, ZeroQuadWord, Arm
  <2>2. faults \in Nat
    BY LogAssumption DEF TypeOK
  <2> QED  BY <2>1, <2>2
<1> DEFINE Late == {"invalidate", "sweep", "erase", "chips", "erasePage"}
<1>2. CASE pc' \notin Late \/ op' # "wipe"
  BY <1>2 DEF Flagged
<1>3. CASE pc \in Late /\ op = "wipe" /\ flag' = flag
  BY <1>1, <1>3 DEF Flagged
<1>4. CASE Return \/ StartWipe
  BY <1>2, <1>4 DEF Return, StartWipe, BeginWipeAt
<1>5. CASE faults' = faults + 1
  BY <1>1, <1>5 DEF Flagged
<1>6. CASE BeginSetup
  BY <1>2, <1>6 DEF BeginSetup
<1>7. CASE Invalidate \/ Sweep
  <2>1. flag' = flag
    BY <1>7 DEF Invalidate, Sweep
  <2>2. op' = op \/ StartWipe
    BY <1>7 DEF Invalidate, Sweep, ZeroQuadWord, Destroyed, NotDestroyed
  <2>3. CASE op = "wipe"
    BY <1>3, <1>7, <2>1, <2>3 DEF Invalidate, Sweep
  <2> QED  BY <1>2, <1>4, <2>2, <2>3
<1>8. CASE Draw \/ Create \/ Program \/ Verify
  <2>1. Return \/ StartWipe \/ pc' \in {"create", "program", "verify"}
    BY <1>8 DEF Draw, Create, Program, Verify
  <2> QED  BY <1>2, <1>4, <2>1
<1>9. CASE BeginWipe \/ Settle \/ PowerCut
  BY <1>4, <1>9 DEF BeginWipe, Settle, PowerCut
<1>10. CASE ArmFlag
  <2>1. flag' # "blank" \/ faults' = faults + 1
    BY <1>10 DEF ArmFlag, Arm, Fault
  <2> QED  BY <1>5, <2>1 DEF Flagged
<1>11. CASE EraseRegion
  BY <1>2, <1>5, <1>11 DEF EraseRegion, Fault
<1>12. CASE ArmAgain
  <2>1. flag' # "blank" \/ faults' = faults + 1
    BY <1>12 DEF ArmAgain, Fault
  <2> QED  BY <1>5, <2>1 DEF Flagged
<1>13. CASE NextLeg \/ ChipsFail \/ ErasePage
  BY <1>2, <1>13 DEF NextLeg, ChipsFail, ErasePage
<1>14. CASE ChipsBlank
  BY <1>3, <1>2, <1>14 DEF ChipsBlank, CallFrame
<1>15. CASE UNCHANGED vars
  BY <1>15 DEF Flagged
<1> QED
  BY <1>6, <1>7, <1>8, <1>9, <1>10, <1>11, <1>12, <1>13, <1>14, <1>15
     DEF Next, SetupStep, WipeStep

(* The inductive invariant holds.                                           *)
LEMMA IndInvHolds ==
  Spec => []IndInv
<1>1. Init => IndInv
  <2> SUFFICES ASSUME Init PROVE IndInv
    OBVIOUS
  <2>1. N \in Nat /\ N >= 3 /\ MaxSalts \in Nat /\ MaxCuts \in Nat /\ MaxFaults \in Nat
    BY LogAssumption
  <2>2. Shape /\ Control /\ Flagged
    BY <2>1 DEF Init, Shape, Control, Flagged, Erased, Cell, Flag, Points, Retiring, Minting
  <2>3. TypeOK /\ GoneInWipe /\ NothingLeft
    BY <2>2 DEF Init, TypeOK, Shape, GoneInWipe, NothingLeft
  <2>4. \A i \in Index : cells[i] = Blank
    BY DEF Init, Erased
  <2>5. NoRecord
    BY <2>3, <2>4, NothingToClear, NoneFound
  <2>6. OneRecord /\ Reached
    BY <2>5 DEF OneRecord, NoRecord, Reached, Init
  <2> QED  BY <2>2, <2>3, <2>6 DEF IndInv
<1>2. IndInv /\ [Next]_vars => IndInv'
  BY TypeStep, OneRecordStep, NothingLeftStep, ReachedStep, FlaggedStep DEF IndInv
<1> QED  BY <1>1, <1>2, PTL DEF Spec

(* TypeOK for a log of any length.                                          *)
THEOREM TypeCorrect == Spec => []TypeOK
BY IndInvHolds, PTL DEF IndInv

(* A scan of the log can never find two records, however often power is cut *)
(* while salts are appended, retired and erased: SaltState::Ambiguous is    *)
(* out of this module's reach.                                              *)
THEOREM NeverAmbiguous == Spec => []OneRecord
BY IndInvHolds, PTL DEF IndInv

(* What begin_wipe reports is true: no part of any salt is left, and none   *)
(* comes back before the wipe ends.                                         *)
THEOREM WipeLeavesNothing == Spec => []NothingLeft
BY IndInvHolds, PTL DEF IndInv

(* create never programs a quad-word that is not blank.                     *)
THEOREM BlankWhenProgrammed == Spec => ProgramsBlankOnly
<1>1. IndInv /\ [Next]_vars => [pc = "program" => cells[base + k] = Blank]_vars
  <2> SUFFICES ASSUME IndInv, pc = "program" PROVE cells[base + k] = Blank
    OBVIOUS
  <2>1. base + k \in Index /\ base + k >= base + k
    BY LogAssumption DEF IndInv, TypeOK, Index
  <2> QED  BY <2>1 DEF IndInv, Reached
<1> QED  BY <1>1, IndInvHolds, PTL DEF Spec, ProgramsBlankOnly

(* A wipe destroys a salt only under an armed flag, except where the flag   *)
(* itself failed; a setup that retires a salt erases nothing on the page.   *)
THEOREM FlagArmedFirst == Spec => FlagBeforeSalt
<1> DEFINE Wipe == op = "wipe" /\ Loaded # None /\ Loaded' = None /\ flag = "blank" => faults > 0
           Setup == op = "setup" => /\ flag' = flag
                                    /\ \A i \in Index : cells[i] # Blank => cells'[i] # Blank
<1>1. ASSUME IndInv, [Next]_vars PROVE Wipe
  <2>1. SUFFICES ASSUME op = "wipe", Loaded # None, Loaded' = None, flag = "blank"
                 PROVE  faults > 0
    OBVIOUS
  <2>2. cells' # cells
    BY <2>1 DEF Loaded, Records, RecordAt
  <2>3. pc \in {"invalidate", "sweep", "erase", "erasePage", "program"}
    BY <1>1, <2>2 DEF Next, SetupStep, WipeStep, BeginSetup, BeginWipe, Invalidate, Sweep, Draw,
       Create, Program, Verify, ArmFlag, EraseRegion, ArmAgain, NextLeg, ChipsFail, ChipsBlank,
       ErasePage, Settle, PowerCut, TornProgram, TornFlag, TornErase, vars, page
  <2>4. pc # "program"
    BY <1>1, <2>1 DEF IndInv, Control, Wiping
  <2> QED  BY <1>1, <2>1, <2>3, <2>4 DEF IndInv, Flagged
<1>2. ASSUME IndInv, [Next]_vars PROVE Setup
  <2>1. CASE Program
    <3>1. base + k \in Index /\ flag' = flag
      BY <2>1, <1>2, LogAssumption DEF Program, IndInv, TypeOK, Index
    <3>2. PICK left \in {cells[base + k], Noise, [part |-> Part[k + 1], salt |-> drawn]} :
            cells' = [cells EXCEPT ![base + k] = left]
      BY <2>1 DEF Program, PutFails, Put
    <3>3. Noise # Blank /\ [part |-> Part[k + 1], salt |-> drawn] # Blank
      BY <1>2 DEF Noise, Blank, Part, IndInv, TypeOK
    <3> QED  BY <1>2, <3>1, <3>2, <3>3 DEF IndInv, TypeOK
  <2>2. CASE op = "setup" => InPlace
    BY <2>2 DEF InPlace
  <2> QED  BY <1>2, <2>1, <2>2, StepFades DEF IndInv
<1>3. IndInv /\ [Next]_vars =>
        [/\ op = "wipe" /\ Loaded # None /\ Loaded' = None /\ flag = "blank" => faults > 0
         /\ op = "setup" => /\ flag' = flag
                            /\ \A i \in Index : cells[i] # Blank => cells'[i] # Blank]_vars
  BY <1>1, <1>2
<1> QED  BY <1>3, IndInvHolds, PTL DEF Spec, FlagBeforeSalt

-----------------------------------------------------------------------------
(* The log implements SaltCell.                                             *)

(* What the refinement mapping reads from the log: the salt of the record   *)
(* it holds, if it holds one.                                              *)

HeldIsStored == \A i \in Index, s \in 1..MaxSalts : Holds(i, s) => Stored = s

(* With one record at most, the mapping is well defined.                    *)
LEMMA StoredIsHeld ==
  OneRecord => HeldIsStored
<1> SUFFICES ASSUME OneRecord, NEW i \in Index, NEW s \in 1..MaxSalts, Holds(i, s)
             PROVE  Stored = s
  BY DEF HeldIsStored
<1> DEFINE held == {t \in 1..MaxSalts : \E j \in Index : Holds(j, t)}
<1>1. ASSUME NEW t \in held PROVE t = s
  <2>1. PICK j \in Index : Holds(j, t)
    OBVIOUS
  <2>2. i = j
    BY <2>1 DEF OneRecord
  <2>3. cells[i + 0] = [part |-> Part[0 + 1], salt |-> s]
        /\ cells[i + 0] = [part |-> Part[0 + 1], salt |-> t]
    BY <2>1, <2>2 DEF Holds
  <2> QED  BY <2>3
<1>2. held = {s}
  BY <1>1
<1>3. Max({s}) = s
  BY MaxOfBounded, LogAssumption
<1> QED  BY <1>2, <1>3 DEF Stored

(* Without one it reads None.                                               *)
LEMMA StoredIsNone ==
  NoRecord => Stored = None
BY DEF NoRecord, Stored

(* Fading empties the cell or leaves it.                                    *)
LEMMA StoredFades ==
  ASSUME TypeOK, OneRecord, OneRecord', Fades
  PROVE  Stored' = Stored \/ Stored' = None
<1>1. CASE NoRecord'
  <2>1. (NoRecord => Stored = None)'
    BY StoredIsNone, PTL
  <2> QED  BY <1>1, <2>1
<1>2. CASE \E i \in Index, s \in 1..MaxSalts : Holds(i, s)'
  <2>1. PICK i \in Index, s \in 1..MaxSalts : Holds(i, s)'
    BY <1>2
  <2>2. Holds(i, s)
    BY <2>1, FadingGainsNothing
  <2>3. Stored = s
    BY <2>2, StoredIsHeld DEF HeldIsStored
  <2>4. (OneRecord => HeldIsStored)'
    BY StoredIsHeld, PTL
  <2> QED  BY <2>1, <2>3, <2>4 DEF HeldIsStored
<1> QED  BY <1>1, <1>2 DEF NoRecord

(* Programming fills an empty cell with the salt drawn last, or leaves it.  *)
LEMMA StoredProgrammed ==
  ASSUME TypeOK, Reached, OneRecord', Program
  PROVE  Stored = None /\ Stored' \in {None, drawn} /\ (k < 2 => Stored' = None)
<1>1. Stored = None
  BY StoredIsNone DEF Reached, Program
<1>2. CASE NoRecord'
  <2>1. (NoRecord => Stored = None)'
    BY StoredIsNone, PTL
  <2> QED  BY <1>1, <1>2, <2>1
<1>3. CASE \E i \in Index, s \in 1..MaxSalts : Holds(i, s)'
  <2>1. PICK i \in Index, s \in 1..MaxSalts : Holds(i, s)'
    BY <1>3
  <2>2. s = drawn /\ k = 2
    BY <2>1, ProgramCompletes
  <2>3. (OneRecord => HeldIsStored)'
    BY StoredIsHeld, PTL
  <2>4. Stored' = s
    BY <2>1, <2>3 DEF HeldIsStored
  <2> QED  BY <1>1, <2>2, <2>4
<1> QED  BY <1>2, <1>3 DEF NoRecord

(* Every step of the log is a step of the cell, or leaves it alone.         *)
LEMMA StepRefines ==
  ASSUME IndInv, IndInv', [Next]_vars
  PROVE  Promised!Next \/ UNCHANGED <<Stored, drawn, Phase>>
<1>0. TypeOK /\ Control /\ Reached /\ OneRecord /\ OneRecord'
  BY DEF IndInv
<1> USE DEF vars, page, append, wiping, Control, Retiring, Minting, Wiping
<1>1. /\ pc = "idle" <=> Phase = "rest"
      /\ op = "setup" /\ pc \in Retiring => Phase = "retire"
      /\ op = "setup" /\ pc \in Minting => Phase = "mint"
      /\ op = "wipe" => Phase = "wipe"
  <2>1. op = "none" => Phase = "rest"
    BY DEF Phase
  <2>2. op = "wipe" => Phase = "wipe"
    BY DEF Phase
  <2>3. op = "setup" /\ pc \in Retiring => Phase = "retire"
    BY DEF Phase
  <2>4. op = "setup" /\ pc \in Minting => Phase = "mint"
    BY DEF Phase
  <2> QED  BY <1>0, <2>1, <2>2, <2>3, <2>4 DEF TypeOK
<1>2. /\ op' = "none" => Phase' = "rest"
      /\ op' = "setup" /\ pc' \in Retiring => Phase' = "retire"
      /\ op' = "setup" /\ pc' \in Minting => Phase' = "mint"
      /\ op' = "wipe" => Phase' = "wipe"
  <2>1. op' = "none" => Phase' = "rest"
    BY DEF Phase
  <2>2. op' = "wipe" => Phase' = "wipe"
    BY DEF Phase
  <2>3. op' = "setup" /\ pc' \in Retiring => Phase' = "retire"
    BY DEF Phase
  <2>4. op' = "setup" /\ pc' \in Minting => Phase' = "mint"
    BY DEF Phase
  <2> QED  BY <2>1, <2>2, <2>3, <2>4
<1>3. UNCHANGED cells => UNCHANGED Stored
  BY DEF Stored, Holds
<1>4. /\ Return => Phase' = "rest"
      /\ StartWipe => Phase' = "wipe"
  BY <1>2 DEF Return, StartWipe
<1>5. Fades => Stored' = Stored \/ Stored' = None
  BY <1>0, StoredFades
<1>6. UNCHANGED <<pc, op>> => UNCHANGED Phase
  BY DEF Phase
<1> HIDE DEF Control
<1>7. CASE BeginSetup
  BY <1>1, <1>2, <1>3, <1>7 DEF BeginSetup, Promised!Next, Promised!Begin
<1>8. CASE BeginWipe
  BY <1>1, <1>3, <1>4, <1>8 DEF BeginWipe, Promised!Next, Promised!Begin
<1>9. CASE Invalidate \/ Sweep
  <2>1. UNCHANGED drawn
    BY <1>9 DEF Invalidate, Sweep
  <2>2. op # "none" /\ Phase \in {"retire", "wipe"}
    BY <1>0, <1>1, <1>9 DEF Invalidate, Sweep, TypeOK, Control
  <2>3. Phase' = Phase \/ Phase' = "wipe"
    BY <1>0, <1>1, <1>2, <1>4, <1>6, <1>9, <2>2 DEF Invalidate, Sweep, ZeroQuadWord,
       Destroyed, NotDestroyed, TypeOK, Control
  <2>4. Stored' = Stored \/ Stored' = None
    BY <1>0, <1>5, <1>9, StepFades DEF Invalidate, Sweep, Program
  <2> QED  BY <2>1, <2>2, <2>3, <2>4 DEF Promised!Next, Promised!Empty, Promised!GiveUp,
       Promised!None, None
<1>10. CASE Draw
  <2>1. op = "setup" /\ pc \in Retiring /\ UNCHANGED Stored /\ Phase = "retire"
    BY <1>0, <1>1, <1>3, <1>10 DEF Draw, TypeOK, Control
  <2>2. Stored = None
    BY <1>0, <1>10, StoredIsNone DEF Reached, Draw
  <2>3. CASE StartWipe /\ UNCHANGED drawn
    BY <1>4, <2>1, <2>3 DEF Promised!Next, Promised!GiveUp
  <2>4. CASE drawn' = drawn + 1 /\ pc' = "create" /\ UNCHANGED op
    BY <1>2, <2>1, <2>2, <2>4 DEF Promised!Next, Promised!Draw, Promised!None, None
  <2> QED  BY <1>10, <2>3, <2>4 DEF Draw
<1>11. CASE Create \/ Verify
  <2>1. Phase = "mint" /\ UNCHANGED <<Stored, drawn>> /\ op = "setup"
    BY <1>0, <1>1, <1>3, <1>11 DEF Create, Verify, TypeOK, Control
  <2>2. Phase' \in {"mint", "wipe", "rest"}
    BY <1>2, <1>4, <1>11, <2>1 DEF Create, Verify
  <2> QED  BY <2>1, <2>2 DEF Promised!Next, Promised!GiveUp, Promised!Finish
<1>12. CASE Program
  <2>1. Phase = "mint" /\ op = "setup" /\ UNCHANGED drawn
    BY <1>0, <1>1, <1>12 DEF Program, TypeOK, Control
  <2>2. Phase' \in {"mint", "wipe"}
    BY <1>2, <1>4, <1>12, <2>1 DEF Program
  <2>3. Stored = None /\ Stored' \in {None, drawn}
    BY <1>0, <1>12, StoredProgrammed
  <2> QED  BY <2>1, <2>2, <2>3 DEF Promised!Next, Promised!Mint, Promised!GiveUp,
       Promised!None, None
<1>13. CASE ArmFlag \/ EraseRegion \/ ArmAgain \/ NextLeg \/ ChipsFail \/ ChipsBlank \/ ErasePage
  <2>1. op = "wipe" /\ op' = op /\ UNCHANGED drawn
    BY <1>0, <1>13 DEF ArmFlag, EraseRegion, ArmAgain, NextLeg, ChipsFail, ChipsBlank, ErasePage,
       CallFrame, TypeOK, Control
  <2>2. Stored' = Stored \/ Stored' = None
    BY <1>0, <1>5, <1>13, StepFades DEF ArmFlag, EraseRegion, ArmAgain, NextLeg, ChipsFail,
       ChipsBlank, ErasePage, Program
  <2> QED  BY <1>1, <1>2, <2>1, <2>2 DEF Promised!Next, Promised!Empty, Promised!GiveUp,
       Promised!None, None
<1>14. CASE Settle
  <2>1. op = "wipe" /\ UNCHANGED <<Stored, drawn>>
    BY <1>0, <1>3, <1>14 DEF Settle, TypeOK, Control
  <2> QED  BY <1>1, <1>4, <1>14, <2>1 DEF Settle, Promised!Next, Promised!Finish
<1>15. CASE PowerCut
  <2>1. Phase # "rest" /\ Phase' = "rest" /\ UNCHANGED drawn
    BY <1>0, <1>1, <1>4, <1>15 DEF PowerCut, Control
  <2>2. CASE op = "setup" /\ pc \in Minting
    <3>1. UNCHANGED cells \/ pc = "program"
      BY <1>15, <2>2 DEF PowerCut, TornProgram, TornFlag, TornErase
    <3>2. CASE pc = "program"
      <4>1. NoRecord
        BY <1>0, <3>2 DEF Reached
      <4>2. Stored = None
        BY <4>1, StoredIsNone
      <4>3. Fades \/ Program
        BY <1>0, StepFades
      <4>4. Stored' = Stored \/ Stored' = None \/ Program
        BY <1>5, <4>3
      <4>5. ~Program
        BY <1>15, <3>2 DEF Program, PowerCut, Return, StartWipe, BeginWipeAt
      <4> QED  BY <2>1, <4>2, <4>4, <4>5 DEF Promised!Next, Promised!Crash
    <3> QED  BY <1>3, <2>1, <3>1, <3>2 DEF Promised!Next, Promised!Crash
  <2>3. CASE ~(op = "setup" /\ pc \in Minting)
    <3>1. Phase \in {"retire", "wipe"}
      BY <1>0, <1>1, <2>1, <2>3 DEF TypeOK, Control
    <3>2. ~Program
      BY <1>0, <2>3 DEF Program, TypeOK, Control
    <3>3. Stored' = Stored \/ Stored' = None
      BY <1>0, <1>5, <3>2, StepFades
    <3> QED  BY <2>1, <3>1, <3>3 DEF Promised!Next, Promised!Crash, Promised!None, None
  <2> QED  BY <2>2, <2>3
<1>16. CASE UNCHANGED vars
  BY <1>3, <1>6, <1>16
<1> QED
  BY <1>7, <1>8, <1>9, <1>10, <1>11, <1>12, <1>13, <1>14, <1>15, <1>16
     DEF Next, SetupStep, WipeStep

(* The log implements SaltCell: only the salt drawn last can be loaded, only *)
(* into an empty log, and a salt that was retired, destroyed or torn never  *)
(* parses again.                                                           *)
THEOREM LogImplementsCell == Spec => ImplementsSaltCell
<1>1. Init => Promised!Init
  <2> SUFFICES ASSUME Init PROVE Promised!Init
    OBVIOUS
  <2>1. \A i \in Index : cells[i].part = "blank"
    BY DEF Init, Erased, Blank
  <2>2. NoRecord
    <3> SUFFICES ASSUME NEW i \in Index, NEW s \in 1..MaxSalts, Holds(i, s) PROVE FALSE
      BY DEF NoRecord
    <3>1. \A j \in 0..2 : cells[i + j] = [part |-> Part[j + 1], salt |-> s]
      BY DEF Holds
    <3>2. cells[i + 0] = [part |-> Part[0 + 1], salt |-> s]
      <4>1. 0 \in 0..2
        OBVIOUS
      <4> QED  BY <3>1, <4>1
    <3> QED  BY <2>1, <3>2 DEF Index, Part
  <2> QED  BY <2>2, StoredIsNone DEF Init, Phase, Promised!Init, Promised!None, None
<1>2. IndInv /\ IndInv' /\ [Next]_vars => [Promised!Next]_(Promised!vars)
  BY StepRefines DEF Promised!vars
<1> QED  BY <1>1, <1>2, IndInvHolds, PTL DEF Spec, ImplementsSaltCell, Promised!Spec
=============================================================================
