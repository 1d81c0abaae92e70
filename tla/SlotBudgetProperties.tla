------------------------ MODULE SlotBudgetProperties ------------------------
(***************************************************************************)
(* What page 123 must keep true of every slot key.  `used` counts what has  *)
(* left the device since the page last lost the slot's record.             *)
(***************************************************************************)
EXTENDS SlotBudget

Commands == [kind : {"none", "offchain", "userop", "sync"}, slot : Slots, off : 0..MaxUses,
             last : 0..MaxUses, sigs : 0..Unreadable, type1 : BOOLEAN]
Points == {"idle", "gate", "bump", "commit", "commitLast", "commitSigs", "release",
           "erase", "replay", "program", "heal"}

TypeOK ==
  /\ cells \in [Index -> Entries \cup {Blank, Noise}]
  /\ pc \in Points /\ cmd \in Commands
  /\ entry \in [what : Entries \cup {Blank}, ok : Points, err : Points]
  /\ queue \subseteq [seen : Index, what : Entries]
  /\ used \in [Slots -> [op : Nat, off : Nat, lost : BOOLEAN]]
  /\ cuts \in 0..MaxCuts /\ torn \in BOOLEAN /\ faults \in 0..MaxFaults

Compacting == pc \in {"erase", "replay"}

(* A slot key never signs more than MAX_SLOT_USES times, UserOps and        *)
(* off-chain messages together, whatever commands, cancellations, failed    *)
(* writes, compactions and power cuts come between the cap check and the    *)
(* durable count.                                                          *)
Budget ==
  ~torn => \A s \in Slots : used[s].op + used[s].off <= MaxUses

(* "A torn compaction can never leave a registered slot with this counter   *)
(* rolled back": whatever happens to the page, a slot that still reads as   *)
(* registered has at least as many UserOps on its tally, and off-chain      *)
(* messages on its count, as have left the device under its key.            *)
TallyCovers ==
  \A s \in Slots : ~torn /\ ~Compacting /\ Registered(s) =>
    used[s].op <= Read(s, "sigs") /\ used[s].off <= Effective(s)

(* The local count is at most MAX_OFFCHAIN_GAP ahead of the count last put  *)
(* in a UserOp or confirmed from the chain: a device restored from the seed *)
(* and synced with the chain has lost sight of no more than that.  A write  *)
(* that fails or is cut, in a commit or in a compaction, must not leave the *)
(* old published count under the new local one.                            *)
GapBound ==
  \A s \in Slots : ~torn /\ ~Compacting /\ Registered(s) =>
    Read(s, "count") <= Read(s, "userop") + MaxGap

(* No signature leaves the device before its count is on the page and both  *)
(* scans find it: not after a write that failed or a compaction that did    *)
(* not finish, nor on a page in which a torn erase has left a hole.         *)
CountedBeforeRelease ==
  pc = "release" =>
    IF cmd.kind = "offchain" THEN Read(cmd.slot, "count") = cmd.off
                             ELSE Read(cmd.slot, "sigs") = cmd.sigs + 1

(* "A tear before it leaves the slot unregistered, [which] forces a Type-1   *)
(* re-registration": once a torn compaction has lost the record of a key    *)
(* that has signed, the key signs no UserOp that does not carry a rotation, *)
(* for its tally starts again at zero.                                     *)
LostSlotRotates ==
  pc = "commit" /\ cmd.kind = "userop" /\ ~cmd.type1 /\ used[cmd.slot].lost =>
    cmd.slot = 0 \/ Registered(cmd.slot)

(* "128 is provably un-wedgeable": a compaction always finds room for what  *)
(* it writes back, and leaves room for the entry that asked for it.         *)
NeverWedged ==
  ~torn /\ pc \in {"replay", "program"} => Cardinality(Blanks) > Cardinality(queue)
=============================================================================
