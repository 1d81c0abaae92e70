----------------------------- MODULE OffchainLog -----------------------------
(***************************************************************************)
(* Page 123 of the secure flash: the append-only journal of what each slot  *)
(* key has signed.  An entry is a slot, what is counted, and the count:     *)
(*   sigs    UserOps signed with the slot's key                            *)
(*   userop  the off-chain count published in the last UserOp              *)
(*   count   off-chain messages signed with the slot's key                 *)
(* The latest value is the largest.  When the page is full it is compacted: *)
(* read into SRAM, erased, written back, in that order and on one page.     *)
(* The SRAM table takes 256 slots: with one torn erase never too few.       *)
(*                                                                         *)
(* This module is the page and write_entry, a subroutine that every command *)
(* of module SlotBudget calls.  A torn word is taken as undecodable.        *)
(***************************************************************************)
EXTENDS Integers, FiniteSetsExt

CONSTANTS
  N,            \* quad-words on the page (512)
  Slots,        \* slot keys in use; 0 is the counterfactual slot
  MaxDistinct,  \* slots the journal will hold (MAX_DISTINCT_SLOTS, 128)
  MaxUses,      \* MAX_SLOT_USES (65536)
  MaxGap,       \* MAX_OFFCHAIN_GAP (100)
  MaxCuts,      \* bound: power cuts
  MaxFaults,    \* bound: failing programs and erases
  TornErases    \* whether power can fail inside the erase of the page

ASSUME LogAssumption ==
  /\ 0 \in Slots /\ Slots \subseteq Nat /\ IsFiniteSet(Slots)
  /\ MaxDistinct \in Nat \ {0} /\ N \in Nat /\ 3 * MaxDistinct < N
  /\ MaxUses \in Nat \ {0} /\ MaxGap \in Nat \ {0}
  /\ MaxCuts \in Nat /\ MaxFaults \in Nat /\ TornErases \in BOOLEAN

VARIABLES
  cells,         \* the page
  pc,            \* the next thing the firmware does
  cmd,           \* the command being served and what it has read
  entry,         \* write_entry: what to write, and where to go on
  queue,         \* compaction: entries read into SRAM and not written back
  used,          \* signatures released per slot (observer)
  torn,          \* power has failed inside an erase (observer)
  cuts, faults

power == <<cuts, torn>>
Index == 0..(N - 1)
Types == {"sigs", "userop", "count"}
Unreadable == 2 * MaxUses + 1               \* u64::MAX: above every sum of two counts
Entry(s, t, c) == [slot |-> s, type |-> t, count |-> c]
Entries == [slot : Slots, type : Types, count : 0..MaxUses]
Blank == Entry(-1, "blank", 0)
Noise == Entry(-1, "noise", 0)
Erased == [i \in Index |-> Blank]

-----------------------------------------------------------------------------
(* Readers.  Each value is read by two scans: the forward one stops at the  *)
(* first blank word, the reverse one looks at the whole page.  If they      *)
(* differ a count reads as u64::MAX, and a slot as unregistered.            *)

Blanks == {i \in Index : cells[i] = Blank}
End == Min(Blanks \cup {N})
Full == Blanks = {}
Journal == 0..(End - 1)

Within(is, s, t) == {i \in is : cells[i].slot = s /\ cells[i].type = t}
Largest(is) == Max({0} \cup {cells[i].count : i \in is})
HeldBy(is, s) == \E i \in is : cells[i].slot = s

Read(s, t) ==
  LET forward == Largest(Within(Journal, s, t))
      reverse == Largest(Within(Index, s, t))
  IN  IF forward = reverse THEN forward ELSE Unreadable

Registered(s) == HeldBy(Journal, s)    \* then the reverse scan agrees

Distinct == {s \in Slots : HeldBy(Journal, s)}
HasLiveEntries == \E s \in Slots : HeldBy(Index, s)

Greater(m, n) == IF m > n THEN m ELSE n
Effective(s) == Greater(Read(s, "count"), Read(s, "userop"))

-----------------------------------------------------------------------------
Clean == UNCHANGED faults
Fault == faults < MaxFaults /\ faults' = faults + 1

(* What can still be told of a slot's past from the page.  A compaction     *)
(* that is cut or fails may lose entries; the observer then starts over     *)
(* from what is left, and from nothing for a slot that is not registered.   *)
NoneUsed == [op |-> 0, off |-> 0, lost |-> FALSE]
Signed(s) == used[s].op + used[s].off > 0 \/ used[s].lost

Least(m, n) == IF m < n THEN m ELSE n
StillTold ==
  [s \in Slots |->
     IF torn' THEN NoneUsed
     ELSE IF Registered(s)'
       THEN [used[s] EXCEPT !.off = Least(used[s].off, Effective(s)')]
       ELSE [NoneUsed EXCEPT !.lost = Signed(s)]]

NoEntry == [what |-> Blank, ok |-> "idle", err |-> "idle"]

(* A brand-new slot is refused once the page holds its share of slots.      *)
NoShare(s) == TRUE                                         \* mutant: dropped cap
MayCreate(s) == Registered(s) \/ Cardinality(Distinct) < MaxDistinct

(* A command's locals die with it.                                         *)
NoCmd == [kind |-> "none", slot |-> 0, off |-> 0, last |-> 0, sigs |-> 0, type1 |-> FALSE]
Go(to, locals) ==
  /\ pc' = to /\ entry' = NoEntry
  /\ cmd' = IF to = "idle" THEN NoCmd ELSE locals

(* write_entry, from a command with these locals.                          *)
Write(e, ok, err, locals) ==
  IF MayCreate(e.slot)
    THEN /\ entry' = [what |-> e, ok |-> ok, err |-> err] /\ cmd' = locals
         /\ pc' = IF Full THEN "erase" ELSE "program"
    ELSE Go(err, locals)

WriteReturns(to) == Go(to, cmd)

-----------------------------------------------------------------------------
(* compact_page: the latest value of everything that a forward scan sees,   *)
(* slots in the order they appear, the tally of each slot first.            *)

CountFirst == [count |-> 1, userop |-> 2, sigs |-> 3]      \* mutant: swapped order
ReplayOrder == [sigs |-> 1, userop |-> 2, count |-> 3]

FirstSeen(s) == Min({i \in Journal : cells[i].slot = s})
Latest(s, t) ==
  [seen |-> FirstSeen(s), what |-> Entry(s, t, Largest(Within(Journal, s, t)))]
Projection ==
  {Latest(cells[i].slot, cells[i].type) : i \in {j \in Journal : cells[j] # Noise}}

Precedes(p, q) ==
  \/ p.seen < q.seen
  \/ p.seen = q.seen /\ ReplayOrder[p.what.type] < ReplayOrder[q.what.type]
Foremost == {p \in queue : \A q \in queue \ {p} : Precedes(p, q)}

CompactErase ==
  /\ pc = "erase" /\ UNCHANGED power
  /\ \/ /\ Clean /\ cells' = Erased /\ queue' = Projection /\ pc' = "replay"
        /\ UNCHANGED <<cmd, entry, used>>
     \/ /\ Fault /\ (UNCHANGED cells \/ cells' = Erased)
        /\ WriteReturns(entry.err)
        /\ used' = StillTold /\ UNCHANGED queue

CompactReplay ==
  /\ pc = "replay" /\ UNCHANGED power
  /\ \/ \E p \in Foremost :
          \/ /\ ~Full /\ Clean /\ cells' = [cells EXCEPT ![End] = p.what]
             /\ queue' = queue \ {p} /\ UNCHANGED <<pc, cmd, entry, used>>
          \/ /\ \/ Full /\ Clean /\ UNCHANGED cells
                \/ /\ ~Full /\ Fault
                   /\ \E left \in {Blank, Noise, p.what} :
                        cells' = [cells EXCEPT ![End] = left]
             /\ queue' = {} /\ WriteReturns(entry.err) /\ used' = StillTold
     \/ /\ queue = {} /\ Clean /\ pc' = "program"
        /\ UNCHANGED <<cells, queue, cmd, entry, used>>

-----------------------------------------------------------------------------
(* The write itself, and the read-back the command makes after it.  A page  *)
(* that refuses a write and holds nothing decodable is erased and written   *)
(* once more.                                                              *)

Landed(e) == IF entry.ok = "commitLast" THEN Registered(e.slot)'
                                         ELSE Read(e.slot, e.type)' = e.count
LandsAs(e) == IF Landed(e) THEN entry.ok ELSE entry.err

Program ==
  /\ pc = "program"
  /\ \/ /\ ~Full /\ Clean
        /\ \E e \in {entry.what} :
             cells' = [cells EXCEPT ![End] = e] /\ WriteReturns(LandsAs(e))
     \/ /\ \/ Full /\ Clean /\ UNCHANGED cells
           \/ /\ ~Full /\ Fault
              /\ \E left \in {Blank, Noise, entry.what} :
                   cells' = [cells EXCEPT ![End] = left]
        /\ IF HasLiveEntries' THEN WriteReturns(entry.err)
                              ELSE pc' = "heal" /\ UNCHANGED <<cmd, entry>>
  /\ UNCHANGED <<queue, used, power>>

Heal ==
  /\ pc = "heal"
  /\ \/ /\ Clean
        /\ \E e \in {entry.what} :
             cells' = [Erased EXCEPT ![0] = e] /\ WriteReturns(LandsAs(e))
     \/ Fault /\ cells' \in {cells, Erased} /\ WriteReturns(entry.err)
  /\ UNCHANGED <<queue, used, power>>

LogStep == CompactErase \/ CompactReplay \/ Program \/ Heal

-----------------------------------------------------------------------------
(* What a power cut leaves of the page.                                     *)

TornProgram ==
  /\ pc \in {"program", "replay"} /\ ~Full
  /\ cells' = [cells EXCEPT ![End] = Noise] /\ UNCHANGED torn

TornErase ==
  /\ TornErases /\ pc = "erase" /\ torn' = TRUE
  /\ \E left \in [Index -> {"kept", "noise", "blank"}] :
       cells' = [i \in Index |-> IF left[i] = "blank" THEN Blank
                                ELSE IF left[i] = "noise" THEN Noise ELSE cells[i]]
=============================================================================
