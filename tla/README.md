# PQ1: a TLA+ verification of the wallet's secure world

PQ1 is a hardware wallet: an STM32U5 with a secure world (Rust, `secure/`), an
OPTIGA Trust M and an SE050 secure element, and a non-secure world that talks
USB. The two chips each hold a share of the master secret and each check a PIN
credential; the MCU holds the PIN salt, the attempt counter and the journal of
what each signing key has signed. Paths below are relative to the repository
root; line numbers of every definition are in `PROJECT.json` ("map").

What this project covers is the part in which power cuts, lost exchanges,
half-written flash and preemption decide whether a wallet is safe, usable or lost:

1. the PIN gate over both chips, with setup, wipe, boot and sessions,
2. the flash page under it that stores the salt and the wipe flag (page 125),
3. the flash page that limits what a slot key signs (page 123),
4. the gateway that lets one call at a time use an unlocked session, with the
   inactivity timer, the forced-attempt word and the signature cap,
5. the A/B firmware update of dev units, with their boot loader and boot log,
6. the first boot, which locks the unit and takes both chips over from the factory.

Sections: [Inventory](#inventory) - [Plan](#plan) - [The modules](#the-modules) -
[The runs](#the-runs) - [Fairness](#fairness) - [Findings](#findings) -
[What the runs leave out](#what-the-runs-leave-out) - [Proofs](#proofs) -
[Not modelled](#not-modelled) - [Running it](#running-it)

## Inventory

### Persistent state

| Where | What | Written by |
|---|---|---|
| flash page 124 | PIN attempts charged (append-only words, read by two scans) | `nsc::gated_unlock`, after a wipe, `hw/flash.rs` |
| flash page 125, QW1 | wipe-in-progress flag | `pin_gate::begin_wipe`, both chips' legs of a wipe |
| flash page 125, log | the PIN salt, three quad-words per record | `pin_salt::create`, `destroy`, `destroy_in_place` |
| flash page 123 | per slot key: UserOps signed, last published off-chain count, off-chain count | the signing commands, `CMD_OFFCHAIN_SYNC`, `hw/flash.rs` |
| OPTIGA | E120 (hardware PIN counter), F1D0 (credential), F1D1..4 (share), F1E1 (provisioned mark) | `optiga/mod.rs` |
| SE050 | UserID object with its own attempt counter, entropy object (share), admin UserID | `se050/mod.rs` |
| flash page 126 | the wrapped root key BHK | `first_boot/bhk.rs` |
| flash page 127 | first-boot journal: step markers and the salt of the binding secret | `first_boot/` |
| flash page 6 | boot log of dev units: attempts and confirmations | `main.rs`, `fw_update/devunit.rs`, read by `fsbl/` |
| flash, both slots | a manifest and two images each | the update commands |
| chips' credentials | SE050 platform keyset and admin UserID, OPTIGA binding secret (E140) | the factory, then `first_boot/` |
| flash, others | rollback journal | `rollback/` |

Volatile: the call in progress, the session (the master secret in SRAM), its idle
count, its signature count and its forced-attempt word, the streaming context of an
update. The locked backup registers (BHK) survive a reset and not a power cut.

### Components

| Component | Operations | What is hard | Correct when |
|---|---|---|---|
| PIN gate (`nsc/mod.rs`, `main.rs`, `pin_gate.rs`) | four unlock entries, boot reconcile and resume, lock, idle lock | three attempt counters in three memories, each moved by its own write; retries; a cut between charge, verdict and forgiveness | no more than the budget of wrong PINs is ever judged; a session is of the wallet on flash; the user's own PIN is not refused early; no wallet is wiped without cause |
| Factory reset (`dual_se.rs`, `optiga/mod.rs`, `se050/mod.rs`) | `factory_reset_admin` on both legs, `begin_wipe`, counter reset | one leg fails and the other lowers the flag; queries whose failure reads as "absent"; a cut between the erase of page 125 and the re-arming | a wipe is complete or will be resumed |
| Provisioning (`crypto.rs`, `dual_se.rs`) | salt, two chips, rollback, auto-unlock | a cut between two chip writes is not an error and rolls nothing back | a device that asks for a PIN holds a wallet some PIN opens |
| Salt log (`pin_salt.rs`) | scan, create, destroy in place, destroy with erase fallback | NOR flash half programmed or half erased; the flag shares the page | one record or none; a destroyed salt never comes back; nothing of a salt is left |
| Off-chain journal, slot budget (`hw/flash.rs`, `cmd_sign_offchain.rs`, `cmd_sign_userop.rs`, `cmd_offchain_sync.rs`, `aa/offchain_gate.rs`) | `write_entry`, compaction, self-heal, cap and gap checks, commit and release | compaction erases the only copy; counts read before the user confirms are used after; three commits after the signature exists | a key never signs past its cap; no signature leaves uncounted |
| Gateway (`nsc/mod.rs`, `gateway_gate.rs`, `ptr_validate.rs`) | dispatch, re-entry gate, handler guard, pointer checks | SysTick, PendSV and a non-secure exception between any two steps of a call, which may also never go on | one handler at a time, over one session |
| Session and forced-attempt state (`nsc/state.rs`) | open, zeroise, forced-attempt word | a word that outlives its session | a forced signature follows the one warning of its own session |
| Timer and rate limiter (`timeout.rs`, `sign_rate.rs`) | tick, activity, deferral, count of signatures | a timer that fires while a signature is computed; what counts as activity | a session that nobody confirms anything in ends |
| First boot (`first_boot/`) | lock, then BHK, SCP03, admin, salt and PBS, with a journal | a cut or warm reset between a chip's new credential and the note of it | every credential can be derived again; nothing is done twice |
| Firmware update (`fw_update/`, `nsc/cmd_fw_*.rs`) | begin, chunk, commit, abort | interrupted, repeated, out of order | only a whole verified image is committed |
| Boot loader, A/B slots (`fsbl/`, `fw-manifest/`) | check, choose, count, confirm, fall back | a cut during an erase or a record | exactly one bootable slot is chosen, and never an older one by accident |
| Anti-rollback (`rollback/`) | floor, journal, life cycle | a torn record | the floor never goes down |
| Manifest, transports, contracts, transaction decoding, cryptography, user interface, non-secure firmware, duress wallet | see `PROJECT.json` | | not modelled; reasons below |

### How they interact

A user's PIN enters at one of four places (boot prompt, command, PendSV dialog
after the idle lock, end of setup). All but the last go through
`nsc::gated_unlock`: charge page 124, ask the OPTIGA, ask the SE050, forgive
page 124, open the session. Setup mints the salt, then writes the OPTIGA, then
the SE050. A wipe arms the flag, destroys the salt, erases page 123, runs the
OPTIGA's leg, then the SE050's leg, which alone may erase page 125 and with it
the flag; the caller then forgives page 124 if no salt is left. Boot compares
E120 with page 124, resumes what the flag asks for, and chooses between prompt
and wizard from what the chips report. Signing commands need a session, read
and write page 123, and release a signature only after their counts are on it. All
commands pass the gateway's gate and most a handler guard; the timer's interrupt
looks at the guard before it wipes the session, and PendSV prompts after the wipe.
An update streams into the inactive slot and ends in a reset; the boot loader
chooses a slot from both manifests and the boot log, the secure world counts its
boot there, and the first successful unlock confirms it. Before all that, the first
boot replaces the factory's credentials on both chips by ones derived from the BHK
and from a salt, and each later boot derives them again.

### Hazards

`PROJECT.json` "hazards" lists them at their lines. In short: a cut between any
two persistent writes of one operation; an exchange that fails or is lost after
it took effect; a query whose failure reads as an answer; counters of different
limits that must keep step; flash state of one wallet that reaches the next;
a page that is read after half an erase; a compaction that is cut; a value read
before the user confirms and written after; an interrupt between two steps of a
call; a handler parked for ever; a release that hangs; a warm reset that keeps what
a power cut clears.

## Plan

Done, in this order:

1. `DeviceState`, `FactoryReset`, `Provisioning`, `GatedUnlock`, `PinGate`: the
   PIN's whole life, one persistent write per action.
2. `AttemptBudget` (the abstract promise) and the proof that 1 implements it.
3. `PinSaltLog` under it, and its abstract promise `SaltCell`.
4. `OffchainLog`, `SlotBudget`: page 123 and its users.
5. `Gateway`: the gate, the guard, PendSV, SysTick, CMD_LOCK, with the timer, the
   forced-attempt word and the session cap; its proofs.
6. `BootLog`, `AbUpdate`: the update commands and the boot loader of dev units;
   their proofs.
7. `FirstBoot`, its abstract promise `FirstBootCeremony`, and the proof that the one
   implements the other.

8. The proofs about 3 and 4: `PinSaltLogProofs`, with the refinement of `SaltCell`, and
   `SlotBudgetProofs`.
9. The proofs of 1, 5 and 6 that need a hypothesis or an invariant of their own: wipes,
   wallets not lost without cause, the end of sessions, the probation of a release.

Next, most important first:

10. The rollback floor of production units (`rollback/`, the OTP words and
   `pick_slot`), with an abstract floor that never goes down. Dev units have none.
11. The forced-blind command over `SlotBudget` (its capacity preflight).

## The modules

```
DeviceState <- FactoryReset <- Provisioning <-+
     ^                                        +- PinGate <- PinGateProperties <- MCPinGate
     +------- GatedUnlock <------------------+                   |
                                        AttemptBudget <-INSTANCE-+
                                                    PinGateTypes <- PinGateProofs <- PinGateRefinement
PinSaltLog  <- PinSaltLogProperties <- PinSaltLogProofs
                    +-INSTANCE-> SaltCell
OffchainLog <- SlotBudget <- SlotBudgetProperties <- SlotBudgetProofs
Gateway <- GatewayProperties <- GatewayProofs
BootLog <- AbUpdate <- AbUpdateProperties <- AbUpdateProofs
FirstBoot <- FirstBootProperties <- FirstBootProofs
                    +-INSTANCE-> FirstBootCeremony
```
(an arrow points to the module extended)

**`DeviceState`** has the variables, `Init`, the kinds of fault and what the
firmware reads. `attempts`, `salt`, `wipeFlag`, `page123` are flash; `optiga` and
`se050` are the chips; `pc` is the next persistent effect of the firmware. A
wallet is a number, that of its salt: a credential derived from another salt
matches nothing, which is what `pin_salt.rs` relies on. `minted`, `live`,
`guesses` are observers.

**`GatedUnlock`** is one PIN attempt: `EnterPin` (refusals that cost nothing),
`Charge`, `OptigaVerify`, `OptigaReset`, `Se050Verify`, `ClearAttempts`, and what
each caller makes of the result (`OpenSession`, `PromptAgain`, `CommandResult`).
Each exchange may fail, with or without effect on the chip.

**`Provisioning`**: `FinishWizard` erases page 123, `RetireSalt`, `MintSalt`, three
OPTIGA writes, the sweep of stale SE050 objects, two SE050 writes, `AutoUnlock`.
An error goes to the rollback wipe; a power cut does not.

**`FactoryReset`**: `factory_reset_admin` write by write, for its four callers
(`ret`): `begin_wipe` (first by the caller, again by the SE050's leg), page 123,
the optional E120 reset, the OPTIGA's sentinel, key and share, the SE050's
deletions, the survivor check, page 125, the re-arming, page 124.

**`PinGate`** adds boot, sessions and power: `PowerCycle` at points that wait for
the user, `PowerCut` between any two effects (bounded by `MaxCuts`, and not at
`SafePoints`), `TornErase` inside the erase of page 124, `TornFallback` inside the
erase of page 125.

**`AttemptBudget`** is the promise: questions are paid for in advance out of
`MaxAttempts`; only the right PIN, or the end of the wallet, refills.

**`PinSaltLog`** refines `salt` and `wipeFlag` to the quad-words of page 125: a word
is blank, zero, noise, or the low half, high half or header of a record.
**`SaltCell`** is its promise: a cell that holds the last salt or nothing.

**`OffchainLog`** is page 123: entries, two scans, append, compaction (read, erase,
replay), self-heal, torn writes. What a compaction has in SRAM (`queue`) is a set of
entries, one per slot and type, each with the place of its slot's first entry on the
page; `Foremost` takes them out in the order of the code's table, a slot's tally
first. **`SlotBudget`** is the commands that use it.
`cmd` holds what a command has read; `used` observes what left the device.

**`Gateway`** has three contexts on one core: the thread, a non-secure exception that
preempts it, and PendSV. A call is what it is (`cmd`), what it does next (`pc`) and
whether the session its PIN check saw is still there (`same`, an observer). The gate
(`gate`), the guard's depth, the session and its words, and the timer are shared.
`Tick` is the secure SysTick, which may come between any two steps; only the context
on top runs (`Runs`), and one below it may never run again. A wait for a button
notices by itself that the session has expired. `Commands` are those that touch the
session or wait: signing, forced signing, GET_INIT_CODE, update BEGIN and COMMIT,
CMD_LOCK, CMD_REQUEST_UNLOCK. A refused call is a stutter. The steps of an unlock after
the PIN (`PinAccepted`, `ArmAttempt`, `UnlockDone`) are apart, because the interrupt can
come between them. A commit that succeeds is a core reset (`SysReset`).

**`BootLog`** is page 6 and the boot loader's choice, as pure operators: `Attempts`,
`Settled`, `Choose`. **`AbUpdate`** adds the flash of both slots, the four update commands
and the boot: BEGIN erases the other slot and seeds the context, CHUNK programs,
COMMIT checks every byte, erases a log that has no room, confirms the running
release again, writes the manifest and resets; a boot counts itself, may hang
(`HangEarly`, `HangLate`), and the first unlock confirms it. Every flash operation may
fail or be cut half way. `high`, `boots` and `hangs` are observers.

**`FirstBoot`** is phase A (both pages blank, OTP burned, two buttons, RDP level 2) and
phase B: BHK drawn, page 126 programmed, backup registers loaded and locked,
platform keyset, admin UserID, salt, binding secret, each with its marker in the
journal. Secrets are numbers in the order they are drawn; a credential is the number
of what it derives from. `tamp` is the BHK in the locked registers, which a warm reset
keeps and a power cut clears. **`FirstBootCeremony`** is the promise: root key, platform
keyset, admin, salt, binding secret, finished, each settled once, in this order, for
good.

Granularity: one action per persistent effect or chip exchange, because power
can go between any two. Code between two effects runs to completion inside an
action: one thread, and the gateway closed to a second call while one is served,
which is what `Gateway`'s `OneHandler` shows.

## The runs

| Run | Question | Distinct states |
|---|---|---|
| `PinLive` | with two cuts and every kind of fault but `delete`: the budget, sessions, the refinement, and does a device that is rebooted finish wipes and remove unusable wallets? | 327,361 |
| `PinPower` | with cuts and failing unlock exchanges: is a wallet ever lost, hidden or wiped without cause? | 52,162 |
| `PinWipe` | does a wipe with failing exchanges end complete or pending? | 332,269 |
| `SaltLog` | page 125 word by word, two cuts and a failing program: one record, blank words only, flag first, nothing left, refinement of `SaltCell` | 321,029 |
| `SlotBudget` | page 123, a cut, also inside the erase, and two faults: cap, gap, tallies, room, nothing leaves uncounted | 1,189,237 |
| `Gateway` | every interleaving of calls, exceptions, PendSV and ticks: one handler, one session, sessions end | 182,512 |
| `AbUpdate` | three releases, one that hangs, a cut and a fault: always bootable, no silent downgrade, fallback earned and bounded | 994,290 |
| `FirstBoot` | two cuts or resets and two faults: nothing is stranded, nothing is done twice, it finishes | 128,085 |
| `SetupUnlockUncharged`, `HalfProvisioned`, `LostDeletion`, `LostSlot` | the findings | stop at the violation |

### The properties

*Budget* (`PinLive`): `GuessBudget`, at most `MaxAttempts` wrong PINs are judged
between two right ones; `ResetEarned`, page 124 goes down only for a right PIN or
without a wallet; `OpenIsVerified`, what a session may be of; `ImplementsBudget`.

*Not lost without cause* (`PinPower`): `NoChipLocksFirst` relates the three
counters; `ReconcileTrusts`, the comparison the boot bases a wipe on, is sound;
`FreshStart`; `ProvisionedIsComplete`, a device that asks for a PIN has a wallet that a
PIN opens, and one that shows the wizard has none; `OnlySpentWalletsAreWiped`.

*Wipes* (`PinWipe`, `PinLive`): `WipeAccounted`, `FlagLoweredOnConfirmation`;
`WipeFinishes`, `UnusableWalletGoes`.

*Salt log*: `OneRecord`, `ProgramsBlankOnly`, `FlagBeforeSalt` (a wipe arms the
flag before the salt goes, and a setup touches neither the flag nor what else is on
the page), `NothingLeft`, `ImplementsSaltCell`.

*Slot budget*: `Budget` (the cap of `MAX_SLOT_USES` over both kinds of signature),
`TallyCovers`, `GapBound`, `NeverWedged`, all for a page whose erase was never torn;
`CountedBeforeRelease`, for every page.

*Gateway*: `OneHandler`, at most one call, a true `HANDLER_DEPTH`, and no PendSV dialog over
a busy handler; `SessionStable`, a call past its PIN check keeps its session;
`SessionEnds`, without a button press a session lasts at most
`SessionBound == 3 * (Timeout + Defer - 1) + Grace` ticks, which it does reach;
`ExpiredNotRevived`; `ForcedOnce`; `RateCap`.

*Update*: `AlwaysBootable`, `NoSilentDowngrade`, `UpdateEffective`, `FallbackEarned`,
`ProbationBound`; `Recovers`, a device that hangs comes back to a release that works.

*First boot*: `Recoverable`, `ReadyIsFinal`, `ImplementsCeremony`, `Finishes`.

### The bounds, and why they are enough

- `MaxAttempts = 2` or `3` (10 in the code): a wrong PIN, a last wrong PIN, and the
  lockout that follows all occur; with 3 there is an attempt that is neither the
  first nor the last. `LucLimit > MaxAttempts` as in the code (32 and 10); 4 lets
  the OPTIGA saturate within one behaviour, 6 and 8 keep the code's proportion,
  in which the OPTIGA is not the first to lock.
- `Capacity = MaxAttempts + 1`: what a page with disagreeing scans reads as only
  has to exceed the limit.
- `MaxWallets = 2`: state of one wallet that reaches the next one needs two; a
  third sees nothing a second does not, since no state counts wallets.
- `MaxCuts` 1 or 2, `MaxFaults` 1 to 3: they may strike at any point, so every
  fault followed by a cut occurs, and in `PinLive`, `PinPower`, `SaltLog` and
  `FirstBoot` every cut followed by a cut of its recovery. Three faults
  in `PinWipe` let both legs of one wipe and its resumption fail.
- `UserIdDeletable = FALSE` in `PinWipe` is the shipping image, where the refusal
  adds behaviours; the others have TRUE, in which wipes complete.
- `N = 7` in the salt log (496): two records, or one and the residue of one
  more, so that the log fills up, and a record may start at a word that is no
  multiple of 3. `MaxSalts = 3`: a third salt meets the remains of two.
- `N = 4` on page 123 (512), `MaxDistinct = 1` (128): the smallest page with
  `3 * MaxDistinct < N`, which is what the code's constants satisfy. It compacts
  within three signatures. `Slots = {0, 1}`: the counterfactual slot and one other,
  so that the slot share is contested. `MaxUses = 3`, `MaxGap = 2`: gap and cap are
  both reached and by different counts. Two registered slots side by side, which is
  too much for a run, are covered by the proofs (`SlotBudgetProofs`).
- `Gateway`: `Timeout = 2`, `Grace = 1`, `Defer = 2`, `DeferUi = 1`. The clocks only meet
  their limits, each from below and above; `Defer > DeferUi` as in the code, so
  that a parked handler and a parked dialog are told apart. `SessionCap = 2`: a first
  signature, a last one and a refused one.
- `AbUpdate`: three versions, the second of which hangs, so that a fallback can be to
  the factory's or to an updated release; `LogCapacity = 6` holds the three attempts of
  one release and the confirmation of another and fills up in the next update, so
  that COMMIT erases it. One chunk per image: a chunk is whole, torn or missing. One cut
  and one fault, of one flash operation each, which an update repeats.
- `FirstBoot`: `PageQws = 20`, that is the 8 words of the ceremony and 3 for each of the
  four cuts and faults, the most one can cost (a salt record begun again). With fewer
  words the journal can run out; the unit then halts for good, which the code
  documents as a return to the factory.

## Fairness

Safety is checked of `Spec`, without fairness. `PinLive` and `LostDeletion` use
`FairSpec == Spec /\ WF_vars(Firmware) /\ WF_vars(PowerOn)`.
`Firmware` is every step the firmware takes by itself: the main loop and the
handlers run to completion on one core and wait for nothing but the user
(a chip that does not answer ends in an error after its polling limit, which is
the faulty disjunct). `PowerOn`: a device that is off is switched on again. What
the user does (PINs, locks, commands) and power failures are not fair.

The liveness properties have the premise `[]<>(pc = "off")`: wipes are resumed by
a boot, and a device left on at a prompt does not reboot by itself. Cuts and
faults are bounded, so the device in the end gets a boot without one; that is
what "finishes" can mean.

`AbUpdate`'s `FairSpec` has weak fairness of `PowerOn`, of the boot's own steps
(`NoteBootAttempt`, `Hang`, `ConfirmRunning`), and of switching a hung device off: its user
has nothing else to do with it. `FirstBoot`'s has `PowerOn`, the steps of a boot and of
phase B, and switching off a device that shows the fault screen, which asks for it.
Phase A is not fair: the owner need not confirm. `Gateway` states no fairness; that a
session ends is a bound on ticks there (`SessionEnds`), because a preempted context
may never go on.

## Findings

Each is a run that TLC finds violated, and the text it contradicts.

- **`SetupUnlockUncharged`** (`ReconcileTrusts`, `main.rs:5054`). The unlock that
  ends a setup goes below `gated_unlock`, so E120 advances and page 124 does not.
  A power cut before E120 is reset leaves E120 = 1 > 0 = page 124, and the next
  boot takes the wallet just made for a rolled-back one and wipes it. The comment
  at `nsc/mod.rs:1933-1936` says that only a rollback of page 124 can do that.
- **`HalfProvisioned`** (`ProvisionedIsComplete`, `se050/mod.rs:2471`). The UserID is
  written before the entropy object and `is_provisioned` looks at the UserID. A cut
  between the two leaves a device that asks for a PIN which no PIN satisfies, until
  the budget is spent. `crypto.rs:532-540` promises that a failure here "must not
  leave the device half-provisioned".
- **`LostDeletion`** (`WipeFinishes`, `se050/mod.rs:2862`). If one data deletion is
  lost, the admin UserID is deleted all the same. The survivor makes the wipe fail
  and the flag is armed; every later wipe has no admin UserID to delete it with.
- **`LostSlot`** (`LostSlotRotates`, `nsc/cmd_sign_userop.rs:2253`). A power cut in a
  compaction may lose a slot's record. `hw/flash.rs:2225-2226` says that the slot is
  then unregistered and must rotate; CMD_SIGN_USEROP looks only at the counts,
  which all read 0, signs without a rotation and registers the slot again with a
  tally that starts at 1.

## What the runs leave out

The passing runs exclude some faults, and hold only without them. With each of
these the property named fails, in the way described; a reader should not take
the run for more than it shows.

| Left out of | What | With it |
|---|---|---|
| `PinPower` | fault `e120`: the optional reset of E120 in a wipe fails (`optiga/mod.rs:3095-3097`, tolerated by design) | `ReconcileTrusts` fails: E120 keeps the old wallet's count, setup does not write E120, and the boot after wipes the new wallet |
| `PinPower` | `flash` faults | `FreshStart` fails: the erase that ends a wipe fails, the boot goes on to the wizard, and the flag stands over the new wallet, which the boot after wipes (`main.rs:4912-4913` erases page 123 only) |
| `PinPower` | fault `query`: a boot question goes unanswered | `ProvisionedIsComplete` fails: the SE050's check reads silence as "blank" (`se050/mod.rs:2192`), where the OPTIGA's reads it as "provisioned" (`optiga/mod.rs:1164-1166`) |
| `PinPower` | cuts at `setupUnlock` and `writeShareE` (`SetupHolds`) | the findings `SetupUnlockUncharged` and `HalfProvisioned` |
| `PinPower` | `UserIdDeletable = FALSE` | `ProvisionedIsComplete` fails: the UserID of a wiped wallet stays, and a cut between the OPTIGA's mark and the sweep of the next setup leaves two chips that both report a wallet (`dual_se.rs:213-215`) where no PIN opens one |
| `PinWipe` | fault `silent`: the SE050 stops answering for good in a wipe | `FlagLoweredOnConfirmation` fails: `unwrap_or(false)` reads each query as "gone" (`se050/mod.rs:3847-3850`) |
| `PinLive` | fault `delete` | the finding `LostDeletion` |
| `PinLive` | `UserIdDeletable = FALSE` | `WipeFinishes` fails on a shipping image: the refused UserID deletion may cost the session that deletes the admin UserID, the flag stays, and every boot wipes again (`main.rs:2653-2656`) |
| `SlotBudget` | what happens to a page whose erase was torn | `TallyCovers` and `NeverWedged` fail: a word of a slot survives half an erase while its `sigs` words are lost, and noise takes the room. The four properties on counts are stated for other pages (observer `torn`) |
| `SlotBudget` | what was signed before the page last lost the slot's record | `Budget` counts from there: with the record gone nothing on the device knows (finding `LostSlot`) |
| `AbUpdate` | releases that hang before they count their boot (`HangEarly = {}`) | `Recovers` fails for them: `main.rs:1709` runs the clock setup before the count, and nothing else counts, although `fw-manifest/src/devunit.rs:56-58` speaks of three power cycles for any release that hangs |
| `AbUpdate` | a log that is full when a boot is to be counted | `ProbationBound` fails: `settle` ignores the failed append, and the release is started again for as long as it hangs |
| `FirstBoot` | a journal with fewer than 8 + 3 words per cut and fault | `Finishes` fails: the unit halts without room for the salt's record |

Abstractions that bear on the results:

- A torn quad-word is taken as undecodable (its checksum fails); a wipe flag half
  programmed does not read as armed, and cannot be programmed again until the page
  is erased (`FlagBeforeSalt` allows for it).
- The SRAM table of a compaction holds 256 slots; with `MAX_DISTINCT_SLOTS = 128`
  and one torn erase it cannot overflow, so it has no limit here.
- A value read twice against glitches is read once, and a write's immediate
  read-back is part of the write.
- CMD_OFFCHAIN_SYNC may raise the published count above the local one; `GapBound`
  is about the local count's lead only.
- Resets in `PowerCycle` are the user's; a watchdog or panic is a `PowerCut`.
- `Gateway`: BEGIN as in production builds, where it follows a press. The spacing of
  signatures (`MIN_SIGN_INTERVAL_MS`) and the wrap of its millisecond counter are left
  out, as is the value of the forced attempt's deadline, which may pass at any time.
  The exceptions that `timeout.rs:29-38` lists to "only a button press extends a
  session" leave out the two resets after a released signature
  (`cmd_sign_userop.rs:3047`, `cmd_sign_offchain.rs:1622`), which the model
  has: they follow a press.
- `AbUpdate`: a BEGIN that fails leaves the context of the one before, as the code does. A
  confirmation that cannot be appended is not reported and not tried again in that
  session. The module comment of `fw_update/mod.rs:3-10` describes the older layout.
- `FirstBoot`: a chip's credential changes atomically (`HW-ASSUME-PUTKEY-ATOMIC`); the
  local copy of the done bits equals the journal, which has one writer; a page
  126 or 127 that somebody else wrote to is only modelled as the used bench page of
  `Init`; a torn word is noise and never blank.
  A warm reset between the lock of the BHK and its marker makes the next boots halt
  with `AlreadyLocked`, until a power cut (`bhk.rs:455` names that remedy), while
  `docs/provisioning/first-boot-provisioning.md:190` says that ordinary resets resume.

## Proofs

Every theorem is for all values of the constants under the assumptions named in
the module that declares them (limits are naturals, in the order the code has
them; the slot keys in use are finitely many): any number of cuts, faults, wallets,
versions, ticks and words of a page. A theorem that needs more than those assumptions
names its hypothesis in its ASSUME, or in the formula. Each inductive invariant was
checked by TLC on the run's instance before it was proved (`PinLive` still lists the
first).

### The PIN gate (`PinGateTypes`, `PinGateProofs`, `PinGateRefinement`)

| Theorem | States |
|---|---|
| `TypeCorrect` | `Spec => []TypeOK` |
| `Invariant` | `Spec => []IndInv` |
| `BudgetKept` | `Spec => []GuessBudget` |
| `SessionsVerified` | `Spec => []OpenIsVerified` |
| `CountersOwned` | `Spec => []Page123Owned`: page 123 is blank or of the wallet at hand |
| `ResetsEarned` | `Spec => ResetEarned` |
| `Refinement` | `Spec => ImplementsBudget` |
| `WipesAccounted` | `FlashAndQueriesHold`: `Spec => []WipeAccounted` |
| `FlagLoweredLast` | `FlashAndQueriesHold`: `Spec => FlagLoweredOnConfirmation` |
| `ChipsFollow` | `PowerOnly`: `Spec => []NoChipLocksFirst` |
| `ReconcileIsRight` | `PowerOnly`: `Spec => []ReconcileTrusts` |
| `StartsFresh` | `PowerOnly`: `Spec => []FreshStart` |
| `PromptsOverWhole` | `PowerOnly`, `UserIdDeletable`: `Spec => []ProvisionedIsComplete` |
| `OnlyTheSpentGo` | `PowerOnly`: `Spec => OnlySpentWalletsAreWiped` |

`GuessBudget` alone
is not inductive: a state that is about to ask the OPTIGA with
nothing charged would satisfy it. `IndInv == TypeOK /\ Paid /\ Proven /\ SessionHere
/\ Offchain`, and each part is there for a step the others cannot carry:

- `Paid`: while there is a wallet, the guesses are at most the charges, and
  strictly fewer when a question is about to be put. This is what the order
  "charge, then ask" buys. It also needs that charges are only taken back with the
  guesses: the right PIN, or the end of the wallet.
- `Proven`: what control has established at each point (a match means that the PIN
  is right and the key is of the wallet of the salt). Forgiving the charges is
  sound because of it.
- `SessionHere`: only `open` has a session, and it is of the complete wallet.
- `Offchain`: page 123 is blank or of the wallet of the salt, and blank when a salt
  is minted.

Most actions neither judge a PIN nor open a session. `Retreat`
describes their common effect (end outside unlock and session, keep or drop the
wallet, take no charge back); `RetreatSafe` shows once that a retreat keeps
`IndInv`, and each of those actions is only shown to be a retreat. The thirteen that
advance an unlock or a setup have a lemma each. `Refinement` uses the same
division: after a retreat the abstract state is `closed`, and the step is a
stutter, `Close`, `Destroy` or `Reclaim`.

The first seven hold under every fault of the model. The others have a hypothesis on the
faults, because the code promises them only so far:

- `FlashAndQueriesHold` (no fault "flash", none "silent"): a flag that could not be
  programmed, or a chip whose silence reads as "deleted", leaves a wipe neither
  complete nor pending. The hypothesis lets cuts strike anywhere, erases of page 124 tear,
  deletions get lost and chip exchanges fail. The invariant, `Progress`, says how far a wipe
  has got at each of its points: the flag is up from the first to the last, what
  a leg has blanked stays blank, and a leg that failed is on record in `failed`.
- `PowerOnly`: power cuts and failing exchanges of an unlock, as in `PinPower`, for all
  limits; no cut in a setup's last write and its auto-unlock (there the code does
  lose the wallet: runs `HalfProvisioned`, `SetupUnlockUncharged`); and
  `MaxAttempts + MaxCuts < LucLimit`. With each fault kind that is added TLC breaks at
  least one of the five properties. The last conjunct bounds the cuts of a device's
  life (21 in the code), and is needed too: a wipe verifies against a temporary key, which
  advances E120, before it resets it, so each cut between the two leaves it one
  higher; a saturated E120 refuses that verification, is not reset, and outlives
  the wipe into the next wallet. With 2 attempts, a limit of 4 and 3 cuts TLC shows the
  next wallet wiped for it at its first reconcile.

  The invariant, `Lives`, says that at any time there is no wallet (`NoWallet`), one
  that lacks its last share (`LastShare`), a whole one (`Wallet`), one whose budget is
  spent and whose wipe will be run to the end (`Doomed`), or, where the UserID cannot be
  deleted, what a wiped wallet leaves for good (`Ruined`). `Counted` relates the
  three counters of a whole wallet: neither chip has counted more than page 124, and
  strictly less when it is about to be asked. `Ruined` needs `Progress`: E120 must be back at
  zero before a wipe lowers its flag.

  Four of the five hold on the shipping image, too (`UserIdDeletable = FALSE`); the fifth
  needs TRUE, see [What the runs leave out](#what-the-runs-leave-out).

### The gateway (`GatewayProofs`)

| Theorem | States |
|---|---|
| `TypesHold`, `Invariant` | `Spec => []TypeOK`, `Spec => []IndInv` |
| `OneHandlerAtATime` | `Spec => []OneHandler` |
| `SessionsStable` | `Spec => []SessionStable` |
| `PromptsWhenLocked` | `Spec => []PromptWhenLocked`: a PIN prompt means a locked device |
| `ForcedOnlyOnce` | `Spec => []ForcedOnce` |
| `CapHolds` | `Spec => []RateCap` |
| `ExpiredStaysExpired` | `Spec => ExpiredNotRevived` |
| `SessionsEnd` | `Spec => []SessionEnds` |

`IndInv` adds to the types who holds the gate's token and who can be in flight with
whom (`Tokens`), that the depth is the number of busy handlers and that none is busy
under a pending or running PendSV (`Depth`), which points each command goes through
(`Shape`), and what each point says of the session (`SessionAt`). `SessionStable` needs
`Depth`: the idle wipe and the prompt spare a session only because the depth is true;
and `Depth` needs `Tokens`, since PendSV goes on without a token.

`SessionsEnd` has an invariant of its own, `Clocked`: what a session has lasted since the
last press is at most what the timer shows plus what was allowed for extensions that
can no longer come (`Allowed`): one `Lapse == Timeout + Defer - 1` for a call that ends
with a timer reset (`Extending`), one for a COMMIT that is still possible
(`Renewable`), and the grace of the first wipe once it is used. An extension moves its
term from what is allowed to what the timer restarts from.

### The salt log (`PinSaltLogProofs`)

| Theorem | States |
|---|---|
| `TypeCorrect` | `Spec => []TypeOK` |
| `NeverAmbiguous` | `Spec => []OneRecord` |
| `WipeLeavesNothing` | `Spec => []NothingLeft` |
| `BlankWhenProgrammed` | `Spec => ProgramsBlankOnly` |
| `FlagArmedFirst` | `Spec => FlagBeforeSalt` |
| `LogImplementsCell` | `Spec => ImplementsSaltCell` |

Only `create` writes the words of a record; every other step, torn or not, leaves a
word as it is, blanks it, zeroes it or makes it noise (`StepFades`), and a log that
fades gains no record. So a second record could only come from `create`, and that
begins on a log without one, at a word from which the page is blank on (`Reached`): it
completes the record it is at and no other (`ProgramCompletes`). A wipe that got past
arming has the flag, or a fault took it (`Flagged`); with `GoneInWipe` that is what
`FlagBeforeSalt` asks of every step. For the refinement, a fading step keeps the stored
salt or loses it (`StoredFades`), and a programmed third word is the cell's write.

### The slot budget (`SlotBudgetProofs`)

| Theorem | States |
|---|---|
| `TypeCorrect` | `Spec => []TypeOK` |
| `WithinBudget` | `Spec => []Budget` |
| `TallyNeverBehind` | `Spec => []TallyCovers` |
| `GapNeverWider` | `Spec => []GapBound` |
| `AlwaysRoom` | `Spec => []NeverWedged` |
| `CountedFirst` | `Spec => []CountedBeforeRelease` |

`Budget` is not inductive, and neither is it with `TallyCovers` added: during a
compaction the page is no record of anything. The invariant therefore speaks of
`Held`, the entries on the page and those in SRAM together, and of the largest count
in a set of entries (`Top`); an append raises one count, and moving an entry from SRAM to
the page changes none. `IndInv == TypeOK /\ Control /\ CountedBeforeRelease /\ (~torn =>
Whole)`, where `Whole` is

- `Solid`: no blank word before one that is written, so that both scans see the same
  page (`SolidPageReads`);
- `Accounts`: `Held` covers what was released and is itself within cap and gap;
- `Holding`: what a command read before the user confirmed is still at least what is on
  record, and what it is about to write fits the cap and the gap. This is why counts
  that are read early may be used late;
- `Ordered`: what is still in SRAM of a slot comes after what is back on the page. A
  compaction that is cut then leaves, of each slot, nothing or its tally, and a local
  count only with the published one (`HeadOfRecord`, `LossWhole`);
- `Room`: the slots held are at most `MaxDistinct`, and during a replay there are more
  blank words than entries to write. This is where `3 * MaxDistinct < N` is used.

`Control` says which command can be at which point and what its write is for. It and
`CountedBeforeRelease` hold on every page, also after a torn erase: there the read-back
of the write alone carries the release. Least and greatest elements, which the model
takes with `Min` and `Max`, are got from the well-foundedness of the naturals.

### Updates (`AbUpdateProofs`)

| Theorem | States |
|---|---|
| `TypesHold`, `Invariant` | `Spec => []TypeOK`, `Spec => []IndInv` |
| `AlwaysBoots` | `Spec => []AlwaysBootable` |
| `NeverBack` | `Spec => []NoSilentDowngrade` |
| `CommitTakesEffect` | `Spec => []UpdateEffective` |
| `FallbackIsEarned` | `Spec => []FallbackEarned` |
| `ProbationIsShort` | `Spec => [](RoomInLog => ProbationBound)` |

The invariant's parts: the running slot stays a candidate and settled or counted
(`RunningStays`), the context and what is programmed agree (`Streaming`), a COMMIT past its
check has a whole image (`Verified`), no candidate older than `high` can win
(`NoWayBack`), a release starts its probation with no attempt of its own in the log
(`FreshTally`), and attempts in the log are boots (`TallyEarned`). The last two
are about the cardinality of a set of words under one append.

`ProbationIsShort` has an invariant of its own, `Probation`. While the log has room, every boot
of a release on trial that gets past its start is in it, so what has to be shown
is that the log is as short as its attempts, cuts and faults allow (`Rivals`: a
COMMIT that puts a second release on the device begins a blank log with the confirmation
of the older one), that a release is started only on attempts it has left (`OnBoot`), and
that each hang is paid for by an attempt in the log or by a fault (`PaidFor`).
`RoomInLog`, that fewer words than the log has were lost to cuts and faults, is needed:
on a full log `settle` counts nothing and goes on. The log has 512 words in the code.

### First boot (`FirstBootProofs`)

| Theorem | States |
|---|---|
| `Invariant` | `Spec => []IndInv` |
| `NothingIsStranded` | `Spec => []Recoverable` |
| `WalletIsFinal` | `Spec => []ReadyIsFinal` |
| `Ceremonious` | `Spec => ImplementsCeremony` |

The invariant says what the journal holds (`Ordered`: markers in their order, a salt
only after the admin's marker, and never two), what it says of page 126 and the chips
(`Rooted`), and what control has established (`Reached`). The lemmas on the journal
(`MarkedAfter`, `SaltKept`, `SaltCommitted`) say what an append does to a marker and to
the salt; `Onward` shows once that the step `Continue` names is one whose conditions
hold, and `MarkStep` uses it for all five markers. `OneSalt` is what makes "the last
salt wins" harmless. Each step then has a lemma that it keeps the invariant and one
that it is a step of the ceremony or settles nothing.

### Only model-checked

The liveness properties (liveness under fairness and ENABLED are out of the
prover's reach): `WipeFinishes`, `UnusableWalletGoes`, `Recovers`, `Finishes`.
Every invariant and every action property of the passing runs is stated by
a theorem.

## Not modelled

- The duress wallet and its PIN (a build feature), `rdp2`, the operational OPTIGA
  lock, test builds (FixedBench policy, SRAM page of QEMU).
- Fault-injection defences: double reads, redundant comparisons, delays. A model
  in which the CPU computes correctly cannot tell them from one read.
- Transports (I2C, T=1, SCP03, shielded connection): an exchange succeeds, fails,
  or takes effect and loses its answer.
- The rollback floor and its journal (`rollback/`) and the `pick_slot` of production
  units: planned (10). Dev units, which `AbUpdate` models, have no OTP floor.
- Pointer validation and argument parsing at the gateway, and the commands that
  neither touch the session nor wait.
- The legacy V1 commit of other builds, update STATUS (reads only), the boot
  loader's RDP, option-byte, SAU and clock setup.
- The option-byte profile of a first boot, and its blank check of pages 123 to 125.
- Manifest, transaction decoding, display, cryptography: pure functions on large
  inputs; the models use only that different salts give different credentials.
- Contracts: they have verification projects of their own under `contracts/`.

## Running it

`tlc -config PinPower.cfg MCPinGate`, `tlc -config SlotBudget.cfg SlotBudgetProperties`
and so on; `PROJECT.json` "runs" pairs modules and configurations, and "mutants"
gives for each property a change of one definition under which it fails.
`tlapm PinGateTypes.tla`, and likewise `PinGateProofs`, `PinGateRefinement`,
`PinSaltLogProofs`, `SlotBudgetProofs`, `GatewayProofs`, `AbUpdateProofs` and
`FirstBootProofs`.
