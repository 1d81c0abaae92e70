----------------------------- MODULE PinSaltLog -----------------------------
(***************************************************************************)
(* Page 125 of the secure flash, quad-word by quad-word: the append-only    *)
(* log that holds the PIN salt, and the wipe-in-progress flag it shares its *)
(* page with.  Module PinGate sees this page as two cells, `salt` and       *)
(* `wipeFlag`; here they are built from what NOR flash can do: program a    *)
(* blank quad-word once, program zeros over anything, erase the whole page, *)
(* and leave any of the three half done when power goes.                    *)
(*                                                                         *)
(* The drawn salts are numbered.  A quad-word is blank, all zeros, noise    *)
(* (half programmed, half erased), or one of the three of a record: the two *)
(* halves of a salt and the header that carries its checksum.               *)
(***************************************************************************)
EXTENDS Integers, FiniteSetsExt

CONSTANTS
  N,           \* quad-words in the log (496)
  MaxSalts,    \* bound: salts drawn
  MaxCuts,     \* bound: power cuts
  MaxFaults    \* bound: failing programs and erases

ASSUME LogAssumption ==
  N \in Nat /\ N >= 3 /\ MaxSalts \in Nat /\ MaxCuts \in Nat /\ MaxFaults \in Nat

VARIABLES
  cells,    \* the log
  flag,     \* the wipe-in-progress quad-word; only "armed" reads as armed
  pc,       \* the next thing the firmware does to the page
  op,       \* for whom: a setup, a wipe, or nobody
  base, k,  \* the record being appended: where, and its quad-words written
  drawn,    \* salts drawn so far; the last one is the one being minted
  failed,   \* some part of the running wipe failed
  gone,     \* the last begin_wipe reported that no salt is left
  cuts, faults

page == <<cells, flag>>
append == <<base, k>>
wiping == <<failed, gone>>
vars == <<page, pc, op, append, drawn, wiping, cuts, faults>>

None == 0
Index == 0..(N - 1)
Part  == <<"lo", "hi", "head">>
Blank == [part |-> "blank", salt |-> None]
Zero  == [part |-> "zero", salt |-> None]
Noise == [part |-> "noise", salt |-> None]
Cell  == {Blank, Zero, Noise} \cup [part : {"lo", "hi", "head"}, salt : 1..MaxSalts]
Flag  == {"blank", "armed", "noise"}
Points == {"idle", "invalidate", "sweep", "draw", "create", "program", "verify",
           "arm", "erase", "armAgain", "chips", "erasePage", "settle"}

TypeOK ==
  /\ cells \in [Index -> Cell] /\ flag \in Flag
  /\ pc \in Points /\ op \in {"none", "setup", "wipe"}
  /\ base \in 0..(N - 3) /\ k \in 0..2 /\ drawn \in 0..MaxSalts
  /\ failed \in BOOLEAN /\ gone \in BOOLEAN
  /\ cuts \in 0..MaxCuts /\ faults \in 0..MaxFaults

Erased == [i \in Index |-> Blank]

Init ==
  /\ cells = Erased /\ flag = "blank"
  /\ pc = "idle" /\ op = "none" /\ base = 0 /\ k = 0 /\ drawn = 0
  /\ failed = FALSE /\ gone = FALSE /\ cuts = 0 /\ faults = 0

-----------------------------------------------------------------------------
(* What a scan of the log finds.  A record may start at any quad-word: the  *)
(* frontier it is appended at is one past whatever a torn write left.       *)

RecordAt(i) ==
  /\ i + 2 < N /\ cells[i].part = "lo"
  /\ \A j \in 0..2 : cells[i + j] = [part |-> Part[j + 1], salt |-> cells[i].salt]

AlignedRecords == {i \in Index : i % 3 = 0 /\ RecordAt(i)}  \* mutant: fixed slots
Records == {i \in Index : RecordAt(i)}

FrontierOfRecords ==                                       \* mutant: skips residue
  IF Records = {} THEN 0 ELSE Max(Records) + 3
Frontier == Max({0} \cup {i + 1 : i \in {j \in Index : cells[j] # Blank}})

UnfinishedResidue ==                                       \* mutant: misses torn words
  {i \in Index : cells[i] \notin {Zero, Blank, Noise}}
Residue == {i \in Index : cells[i] \notin {Zero, Blank}}

(* The salt an unlock loads: that of the only record.                       *)
Loaded == IF Cardinality(Records) = 1 THEN cells[Min(Records)].salt ELSE None

-----------------------------------------------------------------------------
(* Flash operations that report an error may have done all, some or none.   *)

Clean == UNCHANGED faults
Fault == faults < MaxFaults /\ faults' = faults + 1

Put(i, new) == cells' = [cells EXCEPT ![i] = new]
PutFails(i, new) == \E left \in {cells[i], Noise, new} : Put(i, left)

(* A setup that cannot get its salt rolls back, and the rollback is a wipe. *)
BeginWipeLate == "invalidate"                              \* mutant: flag not armed first
BeginWipeAt == "arm"
NoLocals == base' = 0 /\ k' = 0 /\ failed' = FALSE /\ gone' = FALSE
StartWipe == pc' = BeginWipeAt /\ op' = "wipe" /\ NoLocals
Return == pc' = "idle" /\ op' = "none" /\ NoLocals

(* destroy_in_place returns.                                                *)
Destroyed ==
  IF op = "setup" THEN pc' = "draw" /\ UNCHANGED <<op, append, wiping>>
                  ELSE pc' = "chips" /\ gone' = TRUE /\ UNCHANGED <<op, append, failed>>

NotDestroyed ==
  IF op = "setup" THEN StartWipe
                  ELSE pc' = "erase" /\ UNCHANGED <<op, append, wiping>>

CallFrame == UNCHANGED <<op, append, drawn, wiping, cuts>>

-----------------------------------------------------------------------------
(* Callers: a setup asks for a salt, something asks for a wipe.  Bound: no  *)
(* more than MaxSalts salts are drawn.                                     *)

BeginSetup ==
  /\ pc = "idle" /\ drawn < MaxSalts /\ op' = "setup"
  /\ pc' = IF Records = {} THEN "draw" ELSE "invalidate"
  /\ Clean /\ UNCHANGED <<page, append, drawn, wiping, cuts>>

BeginWipe ==
  /\ pc = "idle" /\ StartWipe /\ Clean
  /\ UNCHANGED <<page, drawn, cuts>>

-----------------------------------------------------------------------------
(* destroy_in_place.  First one quad-word of every record goes to zero,     *)
(* then everything that is neither zero nor blank.                          *)

ZeroQuadWord(i) ==
  \/ Clean /\ Put(i, Zero) /\ UNCHANGED <<pc, op, append, wiping>>
  \/ Fault /\ PutFails(i, Zero) /\ NotDestroyed

Invalidate ==
  /\ pc = "invalidate"
  /\ \/ Records # {} /\ ZeroQuadWord(Min(Records))
     \/ /\ Records = {} /\ pc' = "sweep" /\ Clean
        /\ UNCHANGED <<cells, op, append, wiping>>
  /\ UNCHANGED <<flag, drawn, cuts>>

Sweep ==
  /\ pc = "sweep"
  /\ \/ Residue # {} /\ ZeroQuadWord(Min(Residue))
     \/ /\ Residue = {} /\ Clean /\ UNCHANGED cells
        /\ IF Records = {} THEN Destroyed ELSE NotDestroyed
  /\ UNCHANGED <<flag, drawn, cuts>>

-----------------------------------------------------------------------------
(* create: the record is appended at the frontier, its header last.         *)

Draw ==
  /\ pc = "draw"
  /\ \/ Clean /\ drawn' = drawn + 1 /\ pc' = "create" /\ UNCHANGED <<op, append, wiping>>
     \/ Fault /\ StartWipe /\ UNCHANGED drawn
  /\ UNCHANGED <<page, cuts>>

Fits == Frontier + 3 <= N

Create ==
  /\ pc = "create"
  /\ IF Records # {} \/ ~Fits
       THEN StartWipe
       ELSE /\ base' = Frontier /\ k' = 0 /\ pc' = "program"
            /\ UNCHANGED <<op, wiping>>
  /\ Clean /\ UNCHANGED <<page, drawn, cuts>>

Program ==
  /\ pc = "program"
  /\ LET new == [part |-> Part[k + 1], salt |-> drawn] IN
     \/ /\ Clean /\ Put(base + k, new)
        /\ IF k < 2 THEN k' = k + 1 /\ UNCHANGED pc ELSE pc' = "verify" /\ UNCHANGED k
        /\ UNCHANGED <<op, base, wiping>>
     \/ Fault /\ PutFails(base + k, new) /\ StartWipe
  /\ UNCHANGED <<flag, drawn, cuts>>

Verify ==
  /\ pc = "verify"
  /\ IF Loaded = drawn THEN Return ELSE StartWipe
  /\ Clean /\ UNCHANGED <<page, drawn, cuts>>

-----------------------------------------------------------------------------
(* begin_wipe: arm the flag if it is not armed, destroy the salt in place,  *)
(* and if that fails erase the page and put the flag back.                  *)

(* A flag left half programmed can only be programmed after an erase.       *)
Arm ==
  \/ flag = "armed" /\ UNCHANGED flag /\ Clean
  \/ flag = "blank" /\ flag' = "armed" /\ Clean
  \/ flag = "blank" /\ flag' \in Flag /\ Fault
  \/ flag = "noise" /\ UNCHANGED flag /\ Clean

ArmFlag ==
  /\ pc = "arm" /\ Arm /\ pc' = "invalidate"
  /\ UNCHANGED cells /\ CallFrame

(* erase_region: the error of the erase leaves the flag as it is.           *)
EraseRegion ==
  /\ pc = "erase"
  /\ \/ /\ Clean /\ cells' = Erased /\ flag' = "blank" /\ pc' = "armAgain"
        /\ UNCHANGED wiping
     \/ /\ Fault /\ pc' = "chips" /\ failed' = TRUE /\ gone' = FALSE
        /\ \/ UNCHANGED page
           \/ cells' = Erased /\ flag' = "blank"
  /\ UNCHANGED <<op, append, drawn, cuts>>

ArmAgain ==
  /\ pc = "armAgain" /\ pc' = "chips"
  /\ \/ Clean /\ flag' = "armed" /\ gone' = (Records = {}) /\ failed' = (failed \/ ~gone')
     \/ Fault /\ flag' \in Flag /\ gone' = FALSE /\ failed' = TRUE
  /\ UNCHANGED <<cells, op, append, drawn, cuts>>

-----------------------------------------------------------------------------
(* The rest of a wipe, as far as page 125 sees it: the chips' legs, which   *)
(* call begin_wipe again, and the erase of the page when they succeeded and *)
(* the last begin_wipe did.                                                 *)

NextLeg ==
  /\ pc = "chips" /\ pc' = "arm" /\ Clean
  /\ UNCHANGED page /\ CallFrame

ChipsFail ==
  /\ pc = "chips" /\ pc' = "settle" /\ failed' = TRUE /\ Clean
  /\ UNCHANGED <<page, op, append, drawn, gone, cuts>>

ChipsBlank ==
  /\ pc = "chips" /\ pc' = IF gone THEN "erasePage" ELSE "settle"
  /\ Clean /\ UNCHANGED page /\ CallFrame

ErasePage ==
  /\ pc = "erasePage" /\ pc' = "settle"
  /\ \/ Clean /\ cells' = Erased /\ flag' = "blank"
     \/ Fault /\ UNCHANGED page
     \/ Fault /\ cells' = Erased /\ flag' = "blank"
  /\ CallFrame

Settle ==
  /\ pc = "settle" /\ Return
  /\ IF failed THEN Arm ELSE UNCHANGED flag /\ Clean
  /\ UNCHANGED <<cells, drawn, cuts>>

-----------------------------------------------------------------------------
(* Power fails: the quad-word or the page being written is left half done.  *)

TornProgram ==
  /\ \/ pc = "invalidate" /\ Records # {} /\ Put(Min(Records), Noise)
     \/ pc = "sweep" /\ Residue # {} /\ Put(Min(Residue), Noise)
     \/ pc = "program" /\ Put(base + k, Noise)
  /\ UNCHANGED flag

TornFlag ==
  /\ pc \in {"arm", "armAgain"} \/ (pc = "settle" /\ failed)
  /\ flag = "blank" /\ flag' = "noise" /\ UNCHANGED cells

TornErase ==
  /\ pc \in {"erase", "erasePage"}
  /\ \E left \in [{i \in Index : cells[i] # Blank} -> {"kept", "noise", "blank"}] :
       cells' = [i \in Index |-> IF cells[i] = Blank \/ left[i] = "blank" THEN Blank
                                ELSE IF left[i] = "noise" THEN Noise ELSE cells[i]]
  /\ flag' \in {flag, "noise", "blank"}

PowerCut ==
  /\ pc # "idle" /\ cuts < MaxCuts /\ cuts' = cuts + 1
  /\ UNCHANGED page \/ TornProgram \/ TornFlag \/ TornErase
  /\ Return /\ Clean /\ UNCHANGED drawn

-----------------------------------------------------------------------------
SetupStep == BeginSetup \/ Draw \/ Create \/ Program \/ Verify
WipeStep  == \/ BeginWipe \/ ArmFlag \/ EraseRegion \/ ArmAgain
             \/ NextLeg \/ ChipsFail \/ ChipsBlank \/ ErasePage \/ Settle

Next == SetupStep \/ Invalidate \/ Sweep \/ WipeStep \/ PowerCut

Spec == Init /\ [][Next]_vars
=============================================================================
