----------------------------- MODULE DeviceState -----------------------------
(***************************************************************************)
(* The state of a PQ1 hardware wallet as far as its PIN is concerned: what *)
(* survives a power cut (three pages of the MCU's secure flash and the two *)
(* secure elements), what does not (the call in progress and the open      *)
(* session), and the environment that cuts power and loses exchanges.      *)
(*                                                                         *)
(* The build is the product shape: dual secure elements, the OPTIGA's      *)
(* hardware PIN counter, no duress PIN, no operational OPTIGA lock.        *)
(*                                                                         *)
(* A wallet is numbered by the PIN salt minted for it.  The PIN credential *)
(* of a chip depends on the salt and the PIN, so a chip object written for *)
(* wallet w is matched only by w's PIN entered while w's salt is on flash. *)
(***************************************************************************)
EXTENDS Integers

CONSTANTS
  MaxAttempts,      \* wrong PINs before the wallet is wiped (10)
  LucLimit,         \* the OPTIGA's own limit on PIN verifications (32)
  Capacity,         \* what page 124 reads as when its two scans disagree (32)
  MaxWallets,       \* bound: salts minted in a behaviour
  MaxCuts,          \* bound: power cuts in the middle of something
  MaxFaults,        \* bound: failing exchanges and flash operations
  Faults,           \* the kinds of fault that may happen (see FaultKinds)
  SafePoints,       \* program points where no power cut strikes
  UserIdDeletable   \* whether the admin wipe may delete the SE050 UserID

(***************************************************************************)
(* flash   a program or erase of the MCU's flash reports an error          *)
(* torn    power is lost inside the erase of page 124                      *)
(* unlock  an exchange with a chip fails while a PIN is being verified     *)
(* setup   an exchange with a chip fails while a wallet is being written   *)
(* wipe    an exchange with a chip fails during a wipe, and the chip's leg *)
(*         of the wipe notices                                             *)
(* e120    the optional reset of the OPTIGA's counter fails during a wipe  *)
(* delete  one of the SE050's deletions is lost, and its error only logged *)
(* silent  the SE050 stops answering during a wipe, and every "does this   *)
(*         object exist" query reads as "no"                               *)
(* query   a boot-time question to a chip goes unanswered                  *)
(***************************************************************************)
FaultKinds == {"flash", "torn", "unlock", "setup", "wipe", "e120", "delete",
               "silent", "query"}

BootPoints   == {"reconcile", "resume", "route"}
SetupPoints  == {"wizard", "retire", "mint", "writeKey", "writeShareO", "writeMark",
                 "sweep", "writeUser", "writeShareE", "ready"}
UnlockPoints == {"charge", "optiga", "e120", "se050", "clear", "verdict"}
WipePoints   == {"wipe", "destroySalt", "wipePage123", "wipeTempKey", "wipeVerify",
                 "wipeCounter", "wipeMark", "wipeKey", "wipeShare", "arm2", "arm3",
                 "destroySalt3", "arm4", "wipeObjects", "wipeUserId", "wipeAdmin", "survivors",
                 "wipePage125", "rearm", "forgive"}
Points == {"off", "locked", "prompt", "open", "halted"}
            \cup BootPoints \cup SetupPoints \cup UnlockPoints \cup WipePoints

ASSUME BoundsAssumption ==
  /\ MaxAttempts \in Nat \ {0}
  /\ LucLimit \in Nat /\ MaxAttempts < LucLimit
  /\ Capacity \in Nat /\ MaxAttempts < Capacity
  /\ MaxWallets \in Nat /\ MaxCuts \in Nat /\ MaxFaults \in Nat
  /\ Faults \subseteq FaultKinds
  /\ SafePoints \subseteq Points \cup {"setupUnlock"}
  /\ UserIdDeletable \in BOOLEAN

None == 0                        \* no wallet
Wallets == 1..MaxWallets
Temp == MaxWallets + 1           \* the random key a wipe writes to F1D0
Owners == Wallets \cup {None}

VARIABLES
  (* MCU secure flash *)
  attempts,   \* page 124: PIN attempts charged and not forgiven
  salt,       \* page 125: the wallet whose salt record is valid, or None
  wipeFlag,   \* page 125 QW1: a wipe is in progress
  page123,    \* the wallet whose off-chain counters are on page 123, or None
  (* the chips *)
  optiga,     \* count: E120; key: F1D0; share: F1D1..F1D4; mark: F1E1 is not the reset sentinel
  se050,      \* user: the UserID object; tries: its used attempts; share: the data; admin: the admin UserID
  (* volatile *)
  pc,         \* the next thing the firmware does
  entry,      \* which of the four unlock entry points is running
  pin,        \* the PIN in hand: the right one of the wallet of `salt`, or a wrong one
  verdict,    \* the result of the unlock so far
  failed,     \* some part of the running wipe failed
  gone,       \* the last begin_wipe reported that no salt is left
  ret,        \* where the running wipe returns to
  session,    \* the wallet whose master secret is in SRAM, or None
  (* environment, and observers no code reads *)
  cuts, faults,
  minted,     \* salts minted so far
  live,       \* the wallet last written completely to both chips
  guesses     \* wrong PINs a chip has judged for the wallet of `salt` since its last right one

flash    == <<attempts, salt, wipeFlag, page123>>
chips    == <<optiga, se050>>
call     == <<entry, pin, verdict>>
wiping   == <<failed, gone, ret>>
observed == <<minted, live, guesses>>
vars == <<flash, chips, pc, call, wiping, session, cuts, faults, observed>>

Entries  == {"boot", "cmd", "pendsv", "setup"}
Verdicts == {"none", "ok", "incorrect", "locked", "internal"}
Returns  == {"resume", "route", "locked", "halted"}

FlashOK ==
  /\ attempts \in 0..Capacity /\ salt \in Owners
  /\ wipeFlag \in BOOLEAN /\ page123 \in Owners
ChipsOK ==
  /\ optiga \in [count : 0..LucLimit, key : Owners \cup {Temp}, share : Owners, mark : BOOLEAN]
  /\ se050 \in [user : Owners, tries : 0..MaxAttempts, share : Owners, admin : BOOLEAN]
VolatileOK ==
  /\ pc \in Points /\ entry \in Entries /\ pin \in {"right", "wrong"}
  /\ verdict \in Verdicts /\ failed \in BOOLEAN /\ gone \in BOOLEAN /\ ret \in Returns
  /\ session \in Owners
WorldOK ==
  /\ cuts \in 0..MaxCuts /\ faults \in 0..MaxFaults
  /\ minted \in 0..MaxWallets /\ live \in Owners /\ guesses \in Nat

TypeOK == FlashOK /\ ChipsOK /\ VolatileOK /\ WorldOK

Init ==
  /\ attempts = 0 /\ salt = None /\ wipeFlag = FALSE /\ page123 = None
  /\ optiga = [count |-> 0, key |-> None, share |-> None, mark |-> FALSE]
  /\ se050 = [user |-> None, tries |-> 0, share |-> None, admin |-> FALSE]
  /\ pc = "off" /\ entry = "boot" /\ pin = "wrong" /\ verdict = "none"
  /\ failed = FALSE /\ gone = FALSE /\ ret = "route" /\ session = None
  /\ cuts = 0 /\ faults = 0 /\ minted = 0 /\ live = None /\ guesses = 0

-----------------------------------------------------------------------------
(* Faults.  Every step says whether it is Clean or which fault it meets.   *)

Clean == UNCHANGED faults

Fault(kind) ==
  /\ kind \in Faults
  /\ faults < MaxFaults
  /\ faults' = faults + 1

(* The auto-unlock that ends a setup is a point of its own for the         *)
(* environment: it is the one verification no attempt was charged for.     *)
Here == IF entry = "setup" /\ pc \in UnlockPoints THEN "setupUnlock" ELSE pc

-----------------------------------------------------------------------------
(* What the firmware reads.                                                *)

(* Both chips report a wallet: F1E1 is not the sentinel, the UserID exists. *)
EitherProvisioned == optiga.mark \/ se050.user # None     \* mutant: or for and
Provisioned == optiga.mark /\ se050.user # None

(* The answers is_provisioned may give.  The OPTIGA's own check reports a   *)
(* chip it cannot read as provisioned; the SE050's reports it as blank.     *)
Reported(answer) ==
  \/ Clean /\ answer = Provisioned
  \/ Fault("query") /\ answer \in {se050.user # None, FALSE}

(* erase_offchain_page_for_wipe leaves no wallet's counters on page 123.    *)
Page123Erased == None

(* pin_attempts_reset_after_wipe and credentials_recomputable ask this.     *)
SaltAbsent == salt = None

BudgetSpentEarly == attempts >= MaxAttempts - 1      \* mutant: off by one
BudgetSpent == attempts >= MaxAttempts

(* E120 on the scale of page 124, as the boot reconcile compares it.        *)
ChipCount == IF optiga.count < MaxAttempts THEN optiga.count ELSE MaxAttempts

StartWipe(after) == pc' = "wipe" /\ ret' = after /\ failed' = FALSE /\ gone' = FALSE

=============================================================================
