------------------------------ MODULE FirstBoot ------------------------------
(***************************************************************************)
(* The first boot of a production unit (first_boot/): the owner confirms    *)
(* the lock (phase A), and the locked device draws its root key BHK and     *)
(* moves both chips from the factory's transport credentials to its own     *)
(* (phase B), noting each finished step in the append-only journal of page  *)
(* 127.  One action per persistent effect or chip exchange; any of them may *)
(* fail, power may go between any two and inside the program of a word, and *)
(* a warm reset keeps the locked backup registers that a power cut clears.  *)
(***************************************************************************)
EXTENDS Naturals, Sequences

CONSTANTS
  PageQws,    \* words of page 127
  MaxCuts,    \* power cuts and warm resets at inconvenient moments
  MaxFaults   \* operations that fail, before or after their effect

ASSUME FirstBootAssumption ==
  PageQws \in Nat \ {0} /\ MaxCuts \in Nat /\ MaxFaults \in Nat

VARIABLES
  locked,   \* RDP is at level 2
  otp,      \* the factory burned the OTP master
  page126,  \* the wrapped BHK
  journal,  \* the words of page 127 that are not blank
  tamp,     \* the BHK in the locked backup registers
  scp03,    \* SE050: platform keyset, named by the BHK it derives from
  admin,    \* SE050: credential of the admin UserID, likewise
  e140,     \* OPTIGA: binding secret, named by the salt it derives from
  pc,
  salt,     \* RAM: the salt of this run
  shield,   \* RAM: what the OPTIGA's shielded session was opened under
  drawn,    \* observer: secrets drawn so far, the last one being in RAM
  cuts, faults

flash == <<locked, otp, page126, journal>>
chips == <<scp03, admin, e140>>
ram == <<salt, shield>>
bounds == <<cuts, faults>>
vars == <<flash, tamp, chips, pc, ram, drawn, bounds>>

(* Secrets are numbered as they are drawn.                                  *)
None == 0
Transport == 1   \* the factory's credentials, derived from the OTP master
Half == 2        \* a BHK page with one of its two words programmed

-----------------------------------------------------------------------------
(* The journal codec (first_boot/journal.rs).                               *)

Bhk == 1     \* STEP_*
Scp03 == 2
Admin == 3
Pbs == 4
All == 5
Kinds == {"step", "low", "high", "header", "noise"}
Words == [kind : Kinds, of : Nat]
Word(k, x) == [kind |-> k, of |-> x]

SaltRecordQws == 3
SaltCompletionReserveQws == SaltRecordQws + 2
CanAppend(n) == Len(journal) + n <= PageQws

(* scan, over the words of a page j.                                        *)
Marked(j, step) == \E i \in 1..Len(j) : j[i] = Word("step", step)

(* A header counts if the two words before it are the salt it vouches for;  *)
(* the last one that counts wins.                                           *)
SaltAt(j, i) ==
  /\ i \in 3..Len(j) /\ j[i].kind = "header"
  /\ j[i - 1] = Word("high", j[i].of)
  /\ j[i - 2] = Word("low", j[i].of)
SaltOf(j) ==
  IF \E i \in 1..Len(j) : SaltAt(j, i)
  THEN j[CHOOSE i \in 1..Len(j) : SaltAt(j, i) /\ \A k \in 1..Len(j) : SaltAt(j, k) => k <= i].of
  ELSE None

Done(step) == Marked(journal, step)
StoredSalt == SaltOf(journal)

-----------------------------------------------------------------------------
(* Outcomes.                                                                *)

(* The fault screen, which only switching off or a reset leaves.            *)
Halt == pc' = "halt"
Fault == faults < MaxFaults /\ faults' = faults + 1 /\ Halt
Goto(p) == pc' = p /\ UNCHANGED faults

(* Something is made to happen; it may fail before or after it has.         *)
Attempt(effect, unchanged, next) ==
  \/ effect /\ Goto(next)
  \/ (effect \/ unchanged) /\ Fault

(* write_journal_qw at next_free, read back.                                *)
AppendWord(w, next) ==
  \/ ~CanAppend(1) /\ Halt /\ UNCHANGED <<journal, faults>>
  \/ CanAppend(1) /\ journal' = Append(journal, w) /\ Goto(next)
  \/ CanAppend(1) /\ Fault
     /\ journal' \in {journal, Append(journal, w), Append(journal, Word("noise", None))}

LoadAnyway(next) ==   \* mutant: the active key is not compared (#712)
  /\ page126 # None /\ Goto(next)
  /\ tamp' = IF tamp = None THEN page126 ELSE tamp

(* bhk::load_and_lock: registers that are locked already are not written,   *)
(* and the key they hold must be the one on page 126.                       *)
LoadAndLock(next) ==
  \/ /\ page126 # None /\ tamp \in {None, page126}
     /\ tamp' = page126 /\ Goto(next)
  \/ /\ page126 = None \/ tamp \notin {None, page126}
     /\ Halt /\ UNCHANGED <<tamp, faults>>
  \/ tamp' \in {tamp, IF tamp = None THEN page126 ELSE tamp} /\ Fault

(* The first step after the given one that the journal does not have.       *)
Entry == <<"establish", "rotateScp03", "probeAdmin", "useSalt", "markAll">>
Continue(step) ==
  LET left == {n \in Bhk..All : n > step /\ ~Done(n)}
  IN IF left = {} THEN "ready" ELSE Entry[CHOOSE n \in left : \A m \in left : n <= m]
CommitStep(step) ==
  AppendWord(Word("step", step), Continue(step)) /\ UNCHANGED <<locked, otp, page126, tamp, chips, ram, drawn, cuts>>

-----------------------------------------------------------------------------
(* A unit as the factory ships it, or a bench part whose page 126 was used. *)
Init ==
  /\ locked = FALSE /\ otp \in BOOLEAN /\ page126 \in {None, Half} /\ journal = <<>>
  /\ tamp = None /\ scp03 = Transport /\ admin = Transport /\ e140 = Transport
  /\ pc = "off" /\ salt = None /\ shield = None
  /\ drawn = Half /\ cuts = 0 /\ faults = 0

(* The every-boot BHK block of main is only for finished units, and a       *)
(* finished unit below RDP level 2 halts.                                   *)
NoBlock ==   \* mutant: a finished unit does not load its key
  IF Done(All) THEN "ready" ELSE IF locked THEN "resume" ELSE "shipCheck"
AtBoot ==
  IF locked THEN IF Done(All) THEN "bhkBlock" ELSE "resume"
            ELSE IF Done(All) THEN "halt" ELSE "shipCheck"
PowerOn ==
  /\ pc = "off" /\ pc' = AtBoot
  /\ UNCHANGED <<flash, tamp, chips, ram, drawn, bounds>>

BhkBlock ==
  /\ pc = "bhkBlock" /\ LoadAndLock("ready")
  /\ UNCHANGED <<flash, chips, ram, drawn, cuts>>

(* Phase A: pages blank, OTP master burned; else halt, still unlocked.      *)
ShipCheck ==
  /\ pc = "shipCheck"
  /\ pc' = IF page126 = None /\ journal = <<>> /\ otp THEN "confirm" ELSE "halt"
  /\ UNCHANGED <<flash, tamp, chips, ram, drawn, bounds>>

(* Both buttons: RDP level 2 is programmed and the device resets.           *)
Lock ==
  /\ pc = "confirm"
  /\ \/ locked' = TRUE /\ Goto("off")
     \/ locked' \in BOOLEAN /\ Fault
  /\ UNCHANGED <<otp, page126, journal, tamp, chips, ram, drawn, cuts>>

Decline ==
  /\ pc = "confirm" /\ Halt
  /\ UNCHANGED <<flash, tamp, chips, ram, drawn, bounds>>

(* Phase B begins: the BHK of an earlier boot is loaded, the salt read.     *)
ResumeCeremony ==
  /\ pc = "resume"
  /\ IF Done(Bhk) THEN LoadAndLock(IF otp THEN Continue(0) ELSE "halt")
                  ELSE Attempt(tamp' = tamp, tamp' = tamp, IF otp THEN Continue(0) ELSE "halt")
  /\ salt' = StoredSalt
  /\ UNCHANGED <<flash, chips, shield, drawn, cuts>>

-----------------------------------------------------------------------------
(* The root key.                                                            *)

Establish(next) ==
  /\ \/ e140 = Transport /\ shield' = Transport /\ Goto(next)
     \/ e140 # Transport /\ shield' = None /\ Halt /\ UNCHANGED faults
     \/ shield' = None /\ Fault
  /\ UNCHANGED <<flash, tamp, chips, salt, drawn, cuts>>
EstablishForBhk == pc = "establish" /\ Establish("eraseBhk")

KeptPage == page126   \* mutant: a page that holds a BHK is not erased
ErasedPage == None

(* The SE050 answers under the transport keys, then page 126 is erased      *)
(* whatever it holds.                                                       *)
EraseBhk ==
  /\ pc = "eraseBhk"
  /\ \/ scp03 # Transport /\ Halt /\ UNCHANGED <<page126, faults>>
     \/ scp03 = Transport /\ Attempt(page126' = ErasedPage, page126' = page126, "drawBhk")
  /\ UNCHANGED <<locked, otp, journal, tamp, chips, ram, drawn, cuts>>

(* A draw from both chips, and the first of the page's two words, onto a    *)
(* blank page only.                                                         *)
DrawBhk ==
  /\ pc = "drawBhk"
  /\ \/ /\ page126 = None /\ drawn' = drawn + 1
        /\ Attempt(page126' = Half, page126' = page126, "programBhk")
     \/ page126 # None /\ Halt /\ UNCHANGED <<page126, drawn, faults>>
  /\ UNCHANGED <<locked, otp, journal, tamp, chips, ram, cuts>>

ProgramBhk ==
  /\ pc = "programBhk"
  /\ Attempt(page126' = drawn, page126' = page126, "lockBhk")
  /\ UNCHANGED <<locked, otp, journal, tamp, chips, ram, drawn, cuts>>

LockBhk ==
  /\ pc = "lockBhk" /\ LoadAndLock("markBhk")
  /\ UNCHANGED <<flash, chips, ram, drawn, cuts>>

MarkBhk == pc = "markBhk" /\ CommitStep(Bhk)

-----------------------------------------------------------------------------
(* The SE050: platform keyset, then the admin credential.                   *)

(* Final keys first; only if the chip rejects them, PUT KEY under transport.*)
RotateScp03 ==
  /\ pc = "rotateScp03"
  /\ \/ scp03 = tamp /\ scp03' = scp03 /\ Goto("markScp03")
     \/ scp03 # tamp /\ scp03 = Transport /\ Attempt(scp03' = tamp, scp03' = scp03, "confirmScp03")
     \/ scp03 \notin {tamp, Transport} /\ scp03' = scp03 /\ Halt /\ UNCHANGED faults
     \/ scp03' = scp03 /\ Fault
  /\ UNCHANGED <<flash, tamp, admin, e140, ram, drawn, cuts>>

Confirm(holds, next) ==
  /\ \/ holds /\ Goto(next)
     \/ ~holds /\ Halt /\ UNCHANGED faults
     \/ Fault
  /\ UNCHANGED <<flash, tamp, chips, drawn, cuts>>
ConfirmScp03 == pc = "confirmScp03" /\ Confirm(scp03 = tamp, "markScp03") /\ UNCHANGED ram

MarkScp03 == pc = "markScp03" /\ CommitStep(Scp03)

(* Absent: write it.  Final: done.  Transport: delete it, then write it.    *)
ProbeAdmin ==
  /\ pc = "probeAdmin"
  /\ \/ scp03 # tamp /\ Halt /\ UNCHANGED <<admin, faults>>
     \/ scp03 = tamp /\ admin = None /\ admin' = admin /\ Goto("writeAdmin")
     \/ scp03 = tamp /\ admin = tamp /\ admin' = admin /\ Goto("markAdmin")
     \/ /\ scp03 = tamp /\ admin = Transport
        /\ Attempt(admin' = None, admin' = admin, "writeAdmin")
     \/ scp03 = tamp /\ admin \notin {None, tamp, Transport} /\ Halt /\ UNCHANGED <<admin, faults>>
     \/ admin' = admin /\ Fault
  /\ UNCHANGED <<flash, tamp, scp03, e140, ram, drawn, cuts>>

WriteAdmin ==
  /\ pc = "writeAdmin"
  /\ Attempt(admin' = tamp, admin' = admin, "markAdmin")
  /\ UNCHANGED <<flash, tamp, scp03, e140, ram, drawn, cuts>>

MarkAdmin == pc = "markAdmin" /\ CommitStep(Admin)

-----------------------------------------------------------------------------
(* The OPTIGA's binding secret.                                             *)

NewSalt == FALSE   \* mutant: every run draws its own salt
HasSalt == salt # None

(* A salt the journal holds is used again; without one, the shield must be  *)
(* up for the draw, and is if this run brought it up for the BHK.           *)
UseSalt ==
  /\ pc = "useSalt"
  /\ \/ /\ HasSalt \/ shield = Transport
        /\ Goto(IF HasSalt THEN "rotatePbs" ELSE "drawSalt")
        /\ UNCHANGED <<flash, tamp, chips, ram, drawn, cuts>>
     \/ ~HasSalt /\ shield = None /\ Establish("drawSalt")

(* The salt is drawn from both chips; room for it and two markers is kept.  *)
DrawSalt ==
  /\ pc = "drawSalt"
  /\ LET able == scp03 = tamp /\ shield = e140 /\ CanAppend(SaltCompletionReserveQws)
     IN \/ able /\ drawn' = drawn + 1 /\ salt' = drawn' /\ Goto("saltLow")
        \/ ~able /\ Halt /\ UNCHANGED <<salt, drawn, faults>>
        \/ Fault /\ UNCHANGED <<salt, drawn>>
  /\ UNCHANGED <<flash, tamp, chips, shield, cuts>>

CommitSalt(kind, next) ==
  AppendWord(Word(kind, salt), next) /\ UNCHANGED <<locked, otp, page126, tamp, chips, ram, drawn, cuts>>
SaltLow == pc = "saltLow" /\ CommitSalt("low", "saltHigh")
SaltHigh == pc = "saltHigh" /\ CommitSalt("high", "saltHeader")
SaltHeader == pc = "saltHeader" /\ CommitSalt("header", "rotatePbs")

(* Final secret first; only if the chip rejects it, SetData under transport.*)
RotatePbs ==
  /\ pc = "rotatePbs"
  /\ \/ e140 = salt /\ e140' = e140 /\ shield' = salt /\ Goto("markPbs")
     \/ /\ e140 # salt /\ e140 = Transport /\ shield' = Transport
        /\ Attempt(e140' = salt, e140' = e140, "confirmPbs")
     \/ e140 \notin {salt, Transport} /\ e140' = e140 /\ shield' = None /\ Halt /\ UNCHANGED faults
     \/ e140' = e140 /\ shield' = None /\ Fault
  /\ UNCHANGED <<flash, tamp, scp03, admin, salt, drawn, cuts>>

ConfirmPbs ==
  /\ pc = "confirmPbs" /\ Confirm(e140 = salt, "markPbs")
  /\ salt' = salt /\ shield' = IF pc' = "markPbs" THEN salt ELSE None

MarkPbs == pc = "markPbs" /\ CommitStep(Pbs)
MarkAll == pc = "markAll" /\ CommitStep(All)

-----------------------------------------------------------------------------
(* Power.                                                                   *)

Forget == salt' = None /\ shield' = None /\ pc' = "off"

(* Where the device waits, its owner may switch it off.                     *)
SwitchOff ==
  /\ pc \in {"halt", "confirm", "ready"}
  /\ Forget /\ tamp' = None /\ UNCHANGED <<flash, chips, drawn, bounds>>

Interrupted == pc # "off" /\ cuts < MaxCuts /\ cuts' = cuts + 1 /\ Forget /\ UNCHANGED <<chips, drawn, faults>>
PowerCut == Interrupted /\ tamp' = None /\ UNCHANGED flash
WarmReset == Interrupted /\ tamp' = tamp /\ UNCHANGED flash

(* Power goes inside the program of a journal word.                         *)
TornWord ==
  /\ pc \in {"markBhk", "markScp03", "markAdmin", "saltLow", "saltHigh", "saltHeader", "markPbs", "markAll"}
  /\ CanAppend(1) /\ journal' = Append(journal, Word("noise", None))
  /\ Interrupted /\ tamp' = None /\ UNCHANGED <<locked, otp, page126>>

(* Power goes inside the erase or the programs of page 126.                 *)
TornBhk ==
  /\ pc \in {"eraseBhk", "drawBhk", "programBhk"} /\ page126' = Half
  /\ Interrupted /\ tamp' = None /\ UNCHANGED <<locked, otp, journal>>

-----------------------------------------------------------------------------
Ceremony ==
  \/ ResumeCeremony \/ EstablishForBhk \/ EraseBhk \/ DrawBhk \/ ProgramBhk \/ LockBhk \/ MarkBhk
  \/ RotateScp03 \/ ConfirmScp03 \/ MarkScp03
  \/ ProbeAdmin \/ WriteAdmin \/ MarkAdmin
  \/ UseSalt \/ DrawSalt \/ SaltLow \/ SaltHigh \/ SaltHeader
  \/ RotatePbs \/ ConfirmPbs \/ MarkPbs \/ MarkAll

Next ==
  \/ PowerOn \/ BhkBlock \/ ShipCheck \/ Lock \/ Decline \/ Ceremony
  \/ SwitchOff \/ PowerCut \/ WarmReset \/ TornWord \/ TornBhk

Spec == Init /\ [][Next]_vars

(* The device runs whenever it has power, and a device that shows a fault   *)
(* is switched off and on again, as its screen asks.                        *)
FairSpec ==
  /\ Spec
  /\ WF_vars(PowerOn) /\ WF_vars(BhkBlock) /\ WF_vars(ShipCheck) /\ WF_vars(Ceremony)
  /\ WF_vars(pc = "halt" /\ SwitchOff)
=============================================================================
