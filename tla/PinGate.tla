------------------------------- MODULE PinGate -------------------------------
(***************************************************************************)
(* The wallet's life around its PIN: boot (the reconcile of the two attempt *)
(* counters, the resume of an interrupted wipe, the choice between PIN      *)
(* prompt and wizard), sessions and their ends, power.                      *)
(***************************************************************************)
EXTENDS Provisioning, GatedUnlock

BootFrame == UNCHANGED <<flash, chips, call, session, cuts, observed>>

PowerOn == pc = "off" /\ pc' = "reconcile" /\ Clean /\ BootFrame /\ UNCHANGED wiping

(* E120 ahead of page 124 can only mean, says the code, that page 124 was   *)
(* rolled back.  An unreadable E120 skips the check.                        *)
ChipLeads == ChipCount > attempts

Reconcile ==
  /\ pc = "reconcile"
  /\ \/ Clean /\ ChipLeads /\ StartWipe("resume")
     \/ Clean /\ ~ChipLeads /\ pc' = "resume" /\ UNCHANGED wiping
     \/ Fault("query") /\ pc' = "resume" /\ UNCHANGED wiping
  /\ BootFrame

(* Three reasons to wipe before any PIN is asked for: the flag, a spent     *)
(* budget, a wallet on the chips whose salt is gone.  The chips are asked   *)
(* only when the salt is.                                                   *)
FlagForgotten(provisioned) == BudgetSpent \/ (SaltAbsent /\ provisioned)     \* mutant
DeadForgotten(provisioned) == wipeFlag \/ BudgetSpent                        \* mutant
WipeDue(provisioned) == wipeFlag \/ BudgetSpent \/ (SaltAbsent /\ provisioned)

Resume ==
  /\ pc = "resume"
  /\ \E answer \in BOOLEAN :
       /\ IF SaltAbsent THEN Reported(answer) ELSE Clean
       /\ IF WipeDue(answer) THEN StartWipe("route") ELSE pc' = "route" /\ UNCHANGED wiping
  /\ BootFrame

Route ==
  /\ pc = "route"
  /\ \E answer \in BOOLEAN :
       Reported(answer) /\ pc' = (IF answer THEN "prompt" ELSE "wizard")
  /\ entry' = "boot"
  /\ UNCHANGED <<flash, chips, pin, verdict, wiping, session, cuts, observed>>

BootStep == Reconcile \/ Resume \/ Route

-----------------------------------------------------------------------------
(* Sessions.                                                                *)

SessionFrame == UNCHANGED <<attempts, salt, wipeFlag, chips, pin, verdict, wiping, cuts, observed>>

(* CMD_REQUEST_UNLOCK on a locked device opens a prompt.                    *)
RequestUnlock ==
  /\ pc = "locked" /\ pc' = "prompt" /\ entry' = "cmd"
  /\ Clean /\ UNCHANGED <<page123, session>> /\ SessionFrame

(* CMD_LOCK, and the inactivity timer, whose handler asks for the PIN.      *)
StillOpen == session                                       \* mutant: missing wipe
Zeroized == None

Lock ==
  /\ pc = "open" /\ pc' = "locked" /\ session' = Zeroized
  /\ Clean /\ UNCHANGED <<page123, entry>> /\ SessionFrame
IdleLock ==
  /\ pc = "open" /\ pc' = "prompt" /\ entry' = "pendsv" /\ session' = Zeroized
  /\ Clean /\ UNCHANGED page123 /\ SessionFrame

(* An off-chain signature records its counter before it is released.        *)
SignOffchain ==
  /\ pc = "open" /\ page123' = session
  /\ Clean /\ UNCHANGED <<pc, entry, session>> /\ SessionFrame

SessionStep == RequestUnlock \/ Lock \/ IdleLock \/ SignOffchain

-----------------------------------------------------------------------------
(* Power.                                                                   *)

Quiet == {"locked", "prompt", "open", "halted", "wizard", "ready"}

Reset ==
  /\ pc' = "off" /\ entry' = "boot" /\ pin' = "wrong" /\ verdict' = "none"
  /\ failed' = FALSE /\ gone' = FALSE /\ ret' = "route" /\ session' = None

(* The user switches the device off while it waits for them.                *)
PowerCycle ==
  /\ pc \in Quiet /\ Reset /\ Clean
  /\ UNCHANGED <<flash, chips, cuts, observed>>

(* Power fails in the middle of something.  Bound: MaxCuts times.           *)
PowerCut ==
  /\ pc \notin Quiet \cup {"off"} /\ Here \notin SafePoints
  /\ cuts < MaxCuts /\ cuts' = cuts + 1
  /\ Reset /\ Clean
  /\ UNCHANGED <<flash, chips, observed>>

(* Power fails inside the erase of page 124: the page may read as any       *)
(* smaller count, or its two scans disagree and it reads as full.           *)
Erasing124 == pc = "clear" \/ (pc = "forgive" /\ ret # "halted" /\ MayForgive)

TornErase ==
  /\ Erasing124
  /\ cuts < MaxCuts /\ cuts' = cuts + 1
  /\ Fault("torn") /\ Reset
  /\ attempts' \in 0..attempts \cup {Capacity}
  /\ guesses' = 0
  /\ UNCHANGED <<salt, wipeFlag, page123, chips, minted, live>>

(* Power fails inside the erase of page 125 that a wipe falls back to, or   *)
(* before the flag is back on it.                                          *)
TornFallback ==
  /\ pc \in {"destroySalt", "destroySalt3"}
  /\ cuts < MaxCuts /\ cuts' = cuts + 1
  /\ Fault("flash") /\ Reset
  /\ salt' \in {salt, None} /\ (wipeFlag' = wipeFlag \/ wipeFlag' = FALSE)
  /\ guesses' = IF salt' = None THEN 0 ELSE guesses
  /\ UNCHANGED <<attempts, page123, chips, minted, live>>

Power == PowerCycle \/ PowerCut \/ TornErase \/ TornFallback

-----------------------------------------------------------------------------
User == EnterPin \/ CancelPin \/ FinishWizard \/ SessionStep
Firmware == BootStep \/ UnlockStep \/ WipeStep
              \/ RetireSalt \/ MintSalt \/ WriteKey \/ WriteShareO \/ WriteMark
              \/ SweepStale \/ WriteUserId \/ WriteShareE \/ AutoUnlock

Next == PowerOn \/ User \/ Firmware \/ Power

Spec == Init /\ [][Next]_vars

(* Firmware that can take a step takes one; a device that is off is         *)
(* switched on again.                                                       *)
FairSpec == Spec /\ WF_vars(Firmware) /\ WF_vars(PowerOn)
=============================================================================
