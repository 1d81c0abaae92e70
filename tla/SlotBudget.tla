----------------------------- MODULE SlotBudget -----------------------------
(***************************************************************************)
(* The three commands that spend a slot key's signatures or account for     *)
(* them: CMD_SIGN_OFFCHAIN, CMD_SIGN_USEROP (and its batch, which makes the *)
(* same durable writes for its one signature) and CMD_OFFCHAIN_SYNC.        *)
(* A slot key may sign MaxUses times in all, and MaxGap off-chain messages  *)
(* between two published counts; the chain cannot tell, page 123 must.      *)
(*                                                                         *)
(* Every value a command reads more than once against glitches is read      *)
(* once.  `cmd` holds its locals: what it read, and then uses.              *)
(***************************************************************************)
EXTENDS OffchainLog

vars == <<cells, pc, cmd, entry, queue, used, power, faults>>

Init ==
  /\ cells = Erased /\ pc = "idle" /\ cmd = NoCmd /\ entry = NoEntry /\ queue = {}
  /\ used = [s \in Slots |-> NoneUsed]
  /\ cuts = 0 /\ torn = FALSE /\ faults = 0

Clamp(count) == Least(count, MaxUses - 1)

Locals(kind, s, type1) ==
  [kind |-> kind, slot |-> s, off |-> Effective(s), last |-> Read(s, "userop"),
   sigs |-> Read(s, "sigs"), type1 |-> type1]

Readable(s) == Read(s, "count") # Unreadable /\ Read(s, "userop") # Unreadable

(* offchain_count_promote_to: the published count is ahead of the local one. *)
Promote(s, ok, err, locals) ==
  IF Clamp(Effective(s)) > Read(s, "count")
    THEN Write(Entry(s, "count", Clamp(Effective(s))), ok, err, locals)
    ELSE Go(ok, locals)

CmdFrame == UNCHANGED <<cells, queue, used, power>> /\ Clean

-----------------------------------------------------------------------------
(* CMD_SIGN_OFFCHAIN.  Slot 0 may sign unregistered if the caller says that *)
(* the account is not deployed yet.                                        *)

SignOffchain(s) ==
  /\ pc = "idle" /\ (Registered(s) \/ s = 0) /\ Readable(s)
  /\ Promote(s, "gate", "idle", Locals("offchain", s, FALSE))
  /\ CmdFrame

NoGap == TRUE                                              \* mutant: dropped guard
GapOk == cmd.off - cmd.last < MaxGap
OffchainCapOk == cmd.sigs + cmd.off + 1 <= MaxUses

OffchainGate ==
  /\ pc = "gate"
  /\ IF GapOk /\ OffchainCapOk
       THEN Go("bump", [cmd EXCEPT !.off = cmd.off + 1])
       ELSE Go("idle", cmd)
  /\ CmdFrame

(* The user has confirmed, the signature is made and verified.              *)
OffchainBump ==
  /\ pc = "bump"
  /\ IF cmd.off > Read(cmd.slot, "count")
       THEN Write(Entry(cmd.slot, "count", cmd.off), "release", "idle", cmd)
       ELSE Go("idle", cmd)
  /\ CmdFrame

-----------------------------------------------------------------------------
(* CMD_SIGN_USEROP.  Its repair of the local count is best effort.          *)

AtMostCap(s) == Read(s, "sigs") + Effective(s) <= MaxUses  \* mutant: off by one
UserOpCapOk(s) == Read(s, "sigs") + Effective(s) < MaxUses

SignUserOp(s, type1) ==
  /\ pc = "idle" /\ Readable(s) /\ UserOpCapOk(s)
  /\ Promote(s, "commit", "commit", Locals("userop", s, type1))
  /\ CmdFrame

(* Signed and verified.  A Type 1 (a slot rotation) registers the slot.     *)
CommitRegister ==
  /\ pc = "commit"
  /\ IF cmd.type1 /\ ~Registered(cmd.slot)
       THEN Write(Entry(cmd.slot, "userop", 0), "commitLast", "idle", cmd)
       ELSE Go("commitLast", cmd)
  /\ CmdFrame

(* last_userop_count_set, for a UserOp and for a sync.                      *)
CommitLast ==
  LET last == Read(cmd.slot, "userop")
      next == IF cmd.kind = "sync" THEN "idle" ELSE "commitSigs"
  IN  /\ pc = "commitLast"
      /\ IF Clamp(cmd.off) < last \/ (Clamp(cmd.off) = last /\ Registered(cmd.slot))
           THEN Go(next, cmd)
           ELSE Write(Entry(cmd.slot, "userop", Clamp(cmd.off)), next, "idle", cmd)
      /\ CmdFrame

Untallied == Go("release", cmd)                            \* mutant: missing tally
Tallied == Write(Entry(cmd.slot, "sigs", cmd.sigs + 1), "release", "idle", cmd)

CommitSigs ==
  /\ pc = "commitSigs"
  /\ IF cmd.sigs + 1 > Read(cmd.slot, "sigs") THEN Tallied ELSE Go("idle", cmd)
  /\ CmdFrame

-----------------------------------------------------------------------------
(* The signature leaves the device, or the output pointer, checked again    *)
(* after the commit, no longer holds; the count stays spent.                *)

Release ==
  /\ pc = "release" /\ Go("idle", cmd)
  /\ \/ UNCHANGED used
     \/ ~torn /\ used' = IF cmd.kind = "offchain" THEN [used EXCEPT ![cmd.slot].off = @ + 1]
                                        ELSE [used EXCEPT ![cmd.slot].op = @ + 1]
  /\ UNCHANGED <<cells, queue, power>> /\ Clean

(* The user cancels, or signing or its verification fails.                  *)
Cancel ==
  /\ pc \in {"bump", "commit"} /\ Go("idle", cmd) /\ CmdFrame

-----------------------------------------------------------------------------
(* CMD_OFFCHAIN_SYNC: the caller reports the count the chain has, and the   *)
(* user confirms it.  Refused if it would leave the key nothing to sign.    *)

SyncLeaves(s, target) ==
  Read(s, "sigs") + Greater(Effective(s), Clamp(target)) < MaxUses

Sync(s, target) ==
  /\ pc = "idle" /\ Readable(s)
  /\ Read(s, "count") < MaxUses /\ Read(s, "userop") < MaxUses /\ Read(s, "sigs") <= MaxUses
  /\ SyncLeaves(s, target)
  /\ Go("commitLast", [Locals("sync", s, FALSE) EXCEPT !.off = Clamp(target)])
  /\ CmdFrame

-----------------------------------------------------------------------------
PowerCut ==
  /\ pc # "idle" /\ cuts < MaxCuts /\ cuts' = cuts + 1
  /\ UNCHANGED <<cells, torn>> \/ TornProgram \/ TornErase
  /\ Go("idle", cmd) /\ queue' = {}
  /\ used' = IF pc \in {"erase", "replay"} THEN StillTold ELSE used
  /\ Clean

Request == \E s \in Slots : \/ SignOffchain(s)
                            \/ \E type1 \in BOOLEAN : SignUserOp(s, type1)
                            \/ \E target \in 0..MaxUses : Sync(s, target)

Next == \/ Request
        \/ OffchainGate \/ OffchainBump
        \/ CommitRegister \/ CommitLast \/ CommitSigs \/ Release \/ Cancel
        \/ LogStep \/ PowerCut

Spec == Init /\ [][Next]_vars
=============================================================================
