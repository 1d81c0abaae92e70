-------------------------- MODULE SlotBudgetProofs --------------------------
(***************************************************************************)
(* The properties of page 123 hold for a page of any length, any set of     *)
(* slots, any cap and gap, and any number of power cuts and failing writes. *)
(***************************************************************************)
EXTENDS SlotBudgetProperties, FiniteSetTheorems, WellFoundedInduction, TLAPS

-----------------------------------------------------------------------------
(* The inductive invariant speaks of sets of entries: those on the page,    *)
(* those a compaction has in SRAM, and both.                               *)

OnPage == {cells[i] : i \in Index} \ {Blank, Noise}
InSram == {p.what : p \in queue}
Held == OnPage \cup InSram

Of(E, s, t) == {e \in E : e.slot = s /\ e.type = t}
Top(E, s, t) == Max({0} \cup {e.count : e \in Of(E, s, t)})
TopOff(E, s) == Greater(Top(E, s, "count"), Top(E, s, "userop"))
Has(E, s) == \E e \in E : e.slot = s
Known(E) == {s \in Slots : Has(E, s)}

Writing == {"erase", "replay", "program", "heal"}

(* Control, on any page: which command may be at a point, and what a write  *)
(* is for.                                                                 *)
Suits(p, c) ==
  /\ p \in {"gate", "bump"} => c.kind = "offchain"
  /\ p \in {"commit", "commitSigs"} => c.kind = "userop"
  /\ p = "commitLast" => c.kind \in {"userop", "sync"}
  /\ p = "release" => c.kind \in {"offchain", "userop"}
  /\ c.kind = "userop" => c.sigs < MaxUses

Commits(w, c) ==
  /\ w.ok = "commitLast" => c.kind = "userop"
  /\ w.ok = "release" => w.what = IF c.kind = "offchain" THEN Entry(c.slot, "count", c.off)
                                                        ELSE Entry(c.slot, "sigs", c.sigs + 1)
Returns(w) ==
  /\ w.ok \in Points \ (Writing \cup {"bump"})
  /\ w.err = "idle" \/ (w.err = "commit" /\ w.ok = "commit")

Control ==
  /\ Suits(pc, cmd)
  /\ pc \in Writing => /\ entry.what \in Entries /\ entry.what.slot = cmd.slot
                       /\ Suits(entry.ok, cmd) /\ Commits(entry, cmd) /\ Returns(entry)

(* The page has no hole, and outside a compaction nothing is in SRAM.       *)
Solid == \A i, j \in Index : i < j /\ cells[i] = Blank => cells[j] = Blank

(* A compaction writes the entries of a slot in their order, each once.     *)
Ordered ==
  /\ pc # "replay" => queue = {}
  /\ pc = "heal" => OnPage = {}
  /\ \A p, q \in queue : p.what.slot = q.what.slot =>
       p.seen = q.seen /\ (p.what.type = q.what.type => p = q)
  /\ \A p \in queue, e \in OnPage : e.slot = p.what.slot =>
       ReplayOrder[e.type] < ReplayOrder[p.what.type]

(* What was released is on record, the record is within the cap, and the    *)
(* local count within the gap.                                             *)
Sound(E) ==
  \A s \in Slots : /\ Top(E, s, "sigs") + TopOff(E, s) <= MaxUses
                   /\ Top(E, s, "count") <= Top(E, s, "userop") + MaxGap
Covers(E, u) ==
  \A s \in Slots : u[s].op <= Top(E, s, "sigs") /\ u[s].off <= TopOff(E, s)
Accounts == Sound(Held) /\ Covers(Held, used)

(* The record stays within cap and gap with this entry on it.               *)
Fits(E, e) ==
  /\ e.type = "sigs" => e.count + TopOff(E, e.slot) <= MaxUses
  /\ e.type # "sigs" => Top(E, e.slot, "sigs") + Greater(TopOff(E, e.slot), e.count) <= MaxUses
  /\ e.type = "count" => e.count <= Top(E, e.slot, "userop") + MaxGap

(* What a command holds is at least what its slot has on record, and a      *)
(* write on the way is of no more.                                         *)
Ahead(E, c) == Top(E, c.slot, "sigs") <= c.sigs /\ TopOff(E, c.slot) <= c.off
Counts(e, c) == e.type # "sigs" /\ e.count <= c.off

(* Before its last check a command is ahead of the record, after it within  *)
(* the cap; at the release its count is above what was released.            *)
Holds(p, E, c, u) ==
  /\ p = "gate" => Ahead(E, c) /\ c.last <= Top(E, c.slot, "userop")
  /\ p = "bump" => Fits(E, Entry(c.slot, "count", c.off)) /\ TopOff(E, c.slot) < c.off
  /\ p \in {"commit", "commitLast", "commitSigs"} /\ c.kind = "userop" =>
       Ahead(E, c) /\ c.sigs + c.off < MaxUses
  /\ p = "commitLast" /\ c.kind = "sync" => Fits(E, Entry(c.slot, "userop", c.off))
  /\ p = "release" => IF c.kind = "offchain" THEN u[c.slot].off < c.off
                                              ELSE u[c.slot].op <= c.sigs

Holding ==
  /\ Holds(pc, Held, cmd, used)
  /\ pc \in Writing => /\ Fits(Held, entry.what) /\ Holds(entry.ok, Held, cmd, used)
                       /\ entry.ok \notin {"idle", "release"} => Counts(entry.what, cmd)

(* The journal holds no more than its share of slots, and a compaction      *)
(* never has more to write back than there is room for.                    *)
Room ==
  /\ Cardinality(Known(Held)) <= MaxDistinct
  /\ pc \in Writing => \/ entry.what.slot \in Known(Held)
                       \/ Cardinality(Known(Held)) < MaxDistinct
  /\ pc \in {"replay", "program"} => Cardinality(Blanks) > Cardinality(queue)

Whole == Solid /\ Ordered /\ Accounts /\ Holding /\ Room
IndInv == TypeOK /\ Control /\ CountedBeforeRelease /\ (~torn => Whole)

-----------------------------------------------------------------------------
(* Least and greatest elements of sets of naturals.                         *)

(* Every nonempty set of naturals has a least element.                      *)
LEMMA LeastExists ==
  ASSUME NEW S, S \subseteq Nat, S # {}
  PROVE  \E x \in S : \A y \in S : x <= y
<1> DEFINE R == OpToRel(<, Nat)
<1>1. IsWellFoundedOn(R, Nat)
  BY NatLessThanWellFounded
<1>2. \A x, y \in Nat : <<x, y>> \in R <=> x < y
  BY DEF OpToRel
<1> HIDE DEF R
<1>3. \E x \in S : \A y \in S : ~(<<y, x>> \in R)
  BY <1>1, WFMin
<1>4. PICK x \in S : \A y \in S : ~(<<y, x>> \in R)
  BY <1>3
<1>5. ASSUME NEW y \in S PROVE x <= y
  <2>1. x \in Nat /\ y \in Nat
    OBVIOUS
  <2>2. ~(y < x)
    BY <1>2, <1>4, <2>1
  <2> QED  BY <2>1, <2>2
<1> QED  BY <1>5

(* Min returns it.                                                          *)
LEMMA MinOfNaturals ==
  ASSUME NEW S, S \subseteq Nat, S # {}
  PROVE  Min(S) \in S /\ \A y \in S : Min(S) <= y
<1>1. \E x \in S : \A y \in S : x <= y
  BY LeastExists
<1> QED  BY <1>1 DEF Min

(* Max returns the greatest element of a nonempty set of naturals up to n.  *)
LEMMA MaxOfBounded ==
  ASSUME NEW n \in Nat, NEW S, S \subseteq 0..n, S # {}
  PROVE  Max(S) \in S /\ \A y \in S : Max(S) >= y
<1> DEFINE T == {n - x : x \in S}
<1>1. T \subseteq Nat /\ T # {}
  OBVIOUS
<1>2. PICK t \in T : \A u \in T : t <= u
  BY <1>1, LeastExists
<1>3. PICK x \in S : t = n - x
  OBVIOUS
<1>4. ASSUME NEW y \in S PROVE x >= y
  <2>1. n - x <= n - y
    BY <1>2, <1>3
  <2> QED  BY <2>1
<1>5. \E m \in S : \A y \in S : m >= y
  BY <1>4
<1> QED  BY <1>5 DEF Max

-----------------------------------------------------------------------------
(* The latest value in a set of entries.                                    *)

(* It is the largest count, and zero when there is none.                    *)
LEMMA TopIsLargest ==
  ASSUME NEW E, E \subseteq Entries, NEW s, NEW t
  PROVE  /\ Top(E, s, t) \in 0..MaxUses
         /\ \A e \in Of(E, s, t) : e.count <= Top(E, s, t)
         /\ Top(E, s, t) = 0 \/ \E e \in Of(E, s, t) : e.count = Top(E, s, t)
<1> DEFINE S == {0} \cup {e.count : e \in Of(E, s, t)}
<1>1. MaxUses \in Nat
  BY LogAssumption
<1>2. S \subseteq 0..MaxUses /\ S # {}
  BY <1>1 DEF Of, Entries
<1>3. Max(S) \in S /\ \A y \in S : Max(S) >= y
  BY <1>1, <1>2, MaxOfBounded
<1>4. Top(E, s, t) = Max(S)
  BY DEF Top
<1> HIDE DEF S
<1>5. Top(E, s, t) \in 0..MaxUses
  BY <1>2, <1>3, <1>4
<1>6. \A e \in Of(E, s, t) : e.count \in S
  BY DEF S
<1>7. \A e \in Of(E, s, t) : e.count <= Top(E, s, t)
  <2> SUFFICES ASSUME NEW e \in Of(E, s, t) PROVE e.count <= Top(E, s, t)
    OBVIOUS
  <2>1. Max(S) >= e.count /\ e.count \in 0..MaxUses
    BY <1>2, <1>3, <1>6
  <2> QED  BY <1>1, <1>4, <1>5, <2>1
<1>8. Top(E, s, t) = 0 \/ \E e \in Of(E, s, t) : e.count = Top(E, s, t)
  BY <1>3, <1>4 DEF S
<1> QED  BY <1>5, <1>7, <1>8

(* Nothing else is.                                                         *)
LEMMA TopIs ==
  ASSUME NEW E, E \subseteq Entries, NEW s, NEW t, NEW v \in Nat,
         \A e \in Of(E, s, t) : e.count <= v,
         v = 0 \/ \E e \in Of(E, s, t) : e.count = v
  PROVE  Top(E, s, t) = v
<1>1. /\ Top(E, s, t) \in 0..MaxUses
      /\ \A e \in Of(E, s, t) : e.count <= Top(E, s, t)
      /\ Top(E, s, t) = 0 \/ \E e \in Of(E, s, t) : e.count = Top(E, s, t)
  BY TopIsLargest
<1>2. \A e \in Of(E, s, t) : e.count \in Nat
  BY LogAssumption DEF Of, Entries
<1>3. Top(E, s, t) \in Nat
  BY <1>1, LogAssumption
<1>4. v <= Top(E, s, t)
  BY <1>1, <1>3
<1>5. Top(E, s, t) <= v
  BY <1>1, <1>3
<1> QED  BY <1>3, <1>4, <1>5

(* One more entry raises the latest value of its slot and type, and of no   *)
(* other.                                                                  *)
LEMMA TopAdd ==
  ASSUME NEW E, E \subseteq Entries, NEW e \in Entries, NEW s, NEW t
  PROVE  Top(E \cup {e}, s, t) =
           IF e.slot = s /\ e.type = t THEN Greater(Top(E, s, t), e.count) ELSE Top(E, s, t)
<1> DEFINE F == E \cup {e}
           v == Top(E, s, t)
<1>1. F \subseteq Entries /\ v \in Nat /\ e.count \in Nat
  BY TopIsLargest, LogAssumption DEF Entries
<1>2. /\ \A f \in Of(E, s, t) : f.count <= v
      /\ v = 0 \/ \E f \in Of(E, s, t) : f.count = v
  BY TopIsLargest
<1>3. \A f \in Of(E, s, t) : f.count \in Nat
  BY LogAssumption DEF Of, Entries
<1> HIDE DEF v
<1>4. CASE ~(e.slot = s /\ e.type = t)
  <2>1. Of(F, s, t) = Of(E, s, t)
    BY <1>4 DEF Of
  <2> QED  BY <1>4, <2>1 DEF Top
<1>5. CASE e.slot = s /\ e.type = t
  <2>1. Of(F, s, t) = Of(E, s, t) \cup {e}
    BY <1>5 DEF Of
  <2>2. Greater(v, e.count) \in Nat /\ v <= Greater(v, e.count) /\ e.count <= Greater(v, e.count)
        /\ Greater(v, e.count) \in {v, e.count}
    BY <1>1 DEF Greater
  <2> HIDE DEF F
  <2> DEFINE g == Greater(v, e.count)
  <2>3. \A f \in Of(F, s, t) : f.count <= g
    BY <1>1, <1>2, <1>3, <2>1, <2>2
  <2>4. g = 0 \/ \E f \in Of(F, s, t) : f.count = g
    BY <1>2, <2>1, <2>2
  <2> HIDE DEF g
  <2>5. Top(F, s, t) = g
    BY <1>1, <2>2, <2>3, <2>4, TopIs DEF g
  <2> QED  BY <1>5, <2>5 DEF g, v, F
<1> QED  BY <1>4, <1>5

(* Fewer entries, no larger values.                                         *)
LEMMA TopMonotone ==
  ASSUME NEW E, E \subseteq Entries, NEW F, F \subseteq E, NEW s, NEW t
  PROVE  Top(F, s, t) <= Top(E, s, t)
<1>1. F \subseteq Entries /\ Of(F, s, t) \subseteq Of(E, s, t)
  BY DEF Of
<1>2. Top(F, s, t) \in Nat /\ Top(E, s, t) \in Nat
  BY <1>1, TopIsLargest, LogAssumption
<1>3. CASE Top(F, s, t) = 0
  BY <1>2, <1>3
<1>4. CASE \E e \in Of(F, s, t) : e.count = Top(F, s, t)
  BY <1>1, <1>4, TopIsLargest
<1> QED  BY <1>1, <1>3, <1>4, TopIsLargest

(* One entry per slot and type, with its latest value, says as much.        *)
LEMMA TopOfLatest ==
  ASSUME NEW E, E \subseteq Entries, NEW F, F \subseteq Entries, NEW s, NEW t,
         \A f \in Of(F, s, t) : f.count = Top(E, s, t),
         Of(E, s, t) # {} => Of(F, s, t) # {}
  PROVE  Top(F, s, t) = Top(E, s, t)
<1>1. Top(E, s, t) \in Nat
  BY TopIsLargest, LogAssumption
<1>2. Top(E, s, t) = 0 \/ Of(E, s, t) # {}
  BY TopIsLargest
<1>3. /\ \A f \in Of(F, s, t) : f.count <= Top(E, s, t)
      /\ Top(E, s, t) = 0 \/ \E f \in Of(F, s, t) : f.count = Top(E, s, t)
  BY <1>1, <1>2
<1> QED  BY <1>1, <1>3, TopIs

(* The larger of two numbers.                                               *)
LEMMA GreaterIs ==
  ASSUME NEW m \in Int, NEW n \in Int
  PROVE  /\ Greater(m, n) \in Int /\ Greater(m, n) \in {m, n}
         /\ m <= Greater(m, n) /\ n <= Greater(m, n)
BY DEF Greater

-----------------------------------------------------------------------------
(* The page.                                                                *)

(* Where a forward scan stops.                                              *)
LEMMA ScanStops ==
         /\ End \in 0..N /\ Journal \subseteq Index
         /\ \A i \in Journal : cells[i] # Blank
         /\ ~Full => End \in Index /\ cells[End] = Blank
         /\ Full => Journal = Index
         /\ Solid => \A i \in Index \ Journal : cells[i] = Blank
<1> DEFINE S == Blanks \cup {N}
<1>1. N \in Nat /\ N > 0
  BY LogAssumption
<1>2. S \subseteq 0..N /\ S # {} /\ S \subseteq Nat
  BY <1>1 DEF Blanks, Index
<1>3. End \in S /\ \A y \in S : End <= y
  BY <1>2, MinOfNaturals DEF End
<1> HIDE DEF S
<1>4. End \in 0..N
  BY <1>2, <1>3
<1>5. Journal \subseteq Index
  BY <1>1, <1>4 DEF Journal, Index
<1>6. ASSUME NEW i \in Journal PROVE cells[i] # Blank
  <2>1. i \in Index /\ i < End
    BY <1>4, <1>5 DEF Journal
  <2>2. cells[i] = Blank => i \in S
    BY <2>1 DEF Blanks, S
  <2> QED  BY <1>1, <1>3, <1>4, <2>1, <2>2 DEF Index
<1>7. ASSUME ~Full PROVE End \in Index /\ cells[End] = Blank
  <2>1. PICK i \in Blanks : TRUE
    BY <1>7 DEF Full
  <2>2. i \in S /\ i < N /\ i \in Nat
    BY <1>1, <2>1 DEF S, Blanks, Index
  <2>3. End # N
    BY <1>1, <1>3, <2>2
  <2> QED  BY <1>3, <2>3 DEF S, Blanks
<1>8. ASSUME Full PROVE Journal = Index
  <2>1. End = N
    BY <1>3, <1>8 DEF S, Full
  <2> QED  BY <2>1 DEF Journal, Index
<1>9. ASSUME Solid, NEW i \in Index \ Journal PROVE cells[i] = Blank
  <2>1. End \in Index /\ cells[End] = Blank
    BY <1>7, <1>8, <1>9
  <2>2. i = End \/ End < i
    BY <1>1, <1>4, <1>9 DEF Journal, Index
  <2> QED  BY <1>9, <2>1, <2>2 DEF Solid
<1> QED  BY <1>4, <1>5, <1>6, <1>7, <1>8, <1>9

(* An entry is neither a blank word nor a torn one.                         *)
LEMMA EntriesApart ==
  /\ Blank \notin Entries /\ Noise \notin Entries /\ Blank # Noise
  /\ \A s \in Slots : Blank.slot # s /\ Noise.slot # s
BY LogAssumption DEF Blank, Noise, Entry, Entries

(* What is on the page and in SRAM are entries, with counts up to MaxUses. *)
LEMMA PageHoldsEntries ==
  ASSUME TypeOK
  PROVE  /\ OnPage \subseteq Entries /\ InSram \subseteq Entries /\ Held \subseteq Entries
         /\ \A i \in Index : cells[i] \in Entries \cup {Blank, Noise} /\ cells[i].count \in 0..MaxUses
<1>1. \A i \in Index : cells[i] \in Entries \cup {Blank, Noise}
  BY DEF TypeOK
<1>2. OnPage \subseteq Entries
  BY <1>1 DEF OnPage
<1>3. InSram \subseteq Entries
  BY DEF TypeOK, InSram
<1>4. ASSUME NEW i \in Index PROVE cells[i].count \in 0..MaxUses
  BY <1>1, LogAssumption DEF Entries, Blank, Noise, Entry
<1> QED  BY <1>1, <1>2, <1>3, <1>4 DEF Held

(* What a scan returns, and what two scans make of it.                      *)
CellsTyped == cells \in [Index -> Entries \cup {Blank, Noise}]
ReadsTyped ==
  \A s \in Slots, t \in Types :
    Read(s, t) \in 0..MaxUses \cup {Unreadable} /\ Read(s, t) \in 0..Unreadable

(* A scan returns a count.                                                 *)
LEMMA LargestType ==
  ASSUME CellsTyped, NEW is, is \subseteq Index
  PROVE  Largest(is) \in 0..MaxUses
<1> DEFINE S == {0} \cup {cells[i].count : i \in is}
<1>1. \A i \in Index : cells[i].count \in 0..MaxUses
  <2> SUFFICES ASSUME NEW i \in Index PROVE cells[i].count \in 0..MaxUses
    OBVIOUS
  <2>1. cells[i] \in Entries \cup {Blank, Noise}
    BY DEF CellsTyped
  <2> QED  BY <2>1, LogAssumption DEF Entries, Blank, Noise, Entry
<1>2. MaxUses \in Nat
  BY LogAssumption
<1>3. S \subseteq 0..MaxUses /\ S # {}
  BY <1>1, <1>2
<1>4. Max(S) \in S
  BY <1>2, <1>3, MaxOfBounded
<1> QED  BY <1>3, <1>4 DEF Largest

(* Two scans that differ make a value no count can have.                    *)
LEMMA ReadType ==
  CellsTyped => ReadsTyped
<1> SUFFICES ASSUME CellsTyped, NEW s \in Slots, NEW t \in Types
             PROVE  /\ Read(s, t) \in 0..MaxUses \cup {Unreadable}
                    /\ Read(s, t) \in 0..Unreadable
  BY DEF ReadsTyped
<1>2. ASSUME NEW is, is \subseteq Index PROVE Largest(is) \in 0..MaxUses
  BY <1>2, LargestType
<1>3. Within(Journal, s, t) \subseteq Index /\ Within(Index, s, t) \subseteq Index
  BY ScanStops DEF Within
<1>4. Read(s, t) \in 0..MaxUses \cup {Unreadable}
  BY <1>2, <1>3 DEF Read
<1> QED  BY <1>4, LogAssumption DEF Unreadable

(* On a page without holes both scans find all there is.                    *)
PageReads ==
  \A s \in Slots, t \in Types : /\ Read(s, t) = Top(OnPage, s, t)
                                /\ Registered(s) <=> Has(OnPage, s)

(* So a command reads the latest value, and the slots that have an entry.  *)
LEMMA SolidPageReads ==
  TypeOK /\ Solid => PageReads
<1> SUFFICES ASSUME TypeOK, Solid, NEW s \in Slots, NEW t \in Types
             PROVE  Read(s, t) = Top(OnPage, s, t) /\ (Registered(s) <=> Has(OnPage, s))
  BY DEF PageReads
<1>1. Journal \subseteq Index /\ \A i \in Index \ Journal : cells[i] = Blank
  BY ScanStops
<1>2. \A i \in Index : cells[i].slot = s => i \in Journal /\ cells[i] \notin {Blank, Noise}
  BY <1>1, EntriesApart
<1>3. Within(Journal, s, t) = Within(Index, s, t)
  BY <1>1, <1>2 DEF Within
<1>4. {cells[i].count : i \in Within(Index, s, t)} = {e.count : e \in Of(OnPage, s, t)}
  BY <1>2 DEF Within, Of, OnPage
<1>5. Read(s, t) = Top(OnPage, s, t)
  BY <1>3, <1>4 DEF Read, Largest, Top
<1>6. Registered(s) <=> Has(OnPage, s)
  BY <1>1, <1>2 DEF Registered, HeldBy, Has, OnPage
<1> QED  BY <1>5, <1>6

(* A word programmed at the end of the journal.                             *)
LEMMA Appended ==
  ASSUME TypeOK, Solid, ~Full, NEW e \in Entries \cup {Blank, Noise},
         cells' = [cells EXCEPT ![End] = e]
  PROVE  /\ Solid' /\ OnPage' = IF e \in Entries THEN OnPage \cup {e} ELSE OnPage
         /\ Blanks' = IF e = Blank THEN Blanks ELSE Blanks \ {End}
         /\ End \in Blanks
<1>1. End \in Index /\ cells[End] = Blank /\ \A i \in Journal : cells[i] # Blank
  BY ScanStops
<1>2. cells' \in [Index -> Entries \cup {Blank, Noise}] /\ cells'[End] = e
      /\ \A i \in Index : i # End => cells'[i] = cells[i]
  BY <1>1 DEF TypeOK
<1>3. OnPage' = IF e \in Entries THEN OnPage \cup {e} ELSE OnPage
  BY <1>1, <1>2, EntriesApart DEF OnPage
<1>4. Blanks' = IF e = Blank THEN Blanks ELSE Blanks \ {End}
  BY <1>1, <1>2 DEF Blanks
<1>5. Solid'
  <2> SUFFICES ASSUME NEW i \in Index, NEW j \in Index, i < j, cells'[i] = Blank
               PROVE  cells'[j] = Blank
    BY DEF Solid
  <2>1. cells[i] = Blank
    BY <1>1, <1>2
  <2>2. i >= End
    BY <1>1, <2>1, LogAssumption DEF Journal, Index
  <2>3. j # End
    BY <1>1, <2>2 DEF Index
  <2> QED  BY <1>2, <2>1, <2>3 DEF Solid
<1> QED  BY <1>1, <1>3, <1>4, <1>5 DEF Blanks

(* A page erased, or erased and written once.                               *)
LEMMA Renewed ==
  ASSUME TypeOK
  PROVE  /\ cells' = Erased => Solid' /\ OnPage' = {} /\ Blanks' = Index
         /\ \A e \in Entries : cells' = [Erased EXCEPT ![0] = e] => Solid' /\ OnPage' = {e}
<1>1. 0 \in Index /\ \A i \in Index : i >= 0
  BY LogAssumption DEF Index
<1>2. ASSUME cells' = Erased PROVE Solid' /\ OnPage' = {} /\ Blanks' = Index
  BY <1>1, <1>2 DEF Erased, Solid, OnPage, Blanks
<1>3. ASSUME NEW e \in Entries, cells' = [Erased EXCEPT ![0] = e] PROVE Solid' /\ OnPage' = {e}
  <2>1. cells'[0] = e /\ \A i \in Index : i # 0 => cells'[i] = Blank
    BY <1>1, <1>3 DEF Erased
  <2>2. OnPage' = {e}
    BY <1>1, <2>1, EntriesApart DEF OnPage
  <2>3. Solid'
    BY <1>1, <2>1, EntriesApart DEF Solid, Index
  <2> QED  BY <2>2, <2>3
<1> QED  BY <1>2, <1>3

-----------------------------------------------------------------------------
(* Types and control: one step per action.                                  *)

Writes == [what : Entries \cup {Blank}, ok : Points, err : Points]

(* A command that goes on, or ends.                                         *)
LEMMA GoControlled ==
  ASSUME NEW to \in Points \ Writing, NEW locals \in Commands, Go(to, locals),
         to # "idle" => Suits(to, locals)
  PROVE  /\ pc' = to /\ pc' \in Points /\ cmd' \in Commands /\ entry' \in Writes
         /\ Control'
<1>1. NoCmd \in Commands /\ NoCmd.kind = "none"
  BY LogAssumption DEF NoCmd, Commands, Unreadable
<1>2. cmd' \in Commands /\ pc' = to /\ entry' = NoEntry
  BY <1>1 DEF Go
<1>3. entry' \in Writes
  BY <1>2 DEF NoEntry, Writes, Points
<1>4. Suits(pc', cmd')
  BY <1>1 DEF Go, Suits
<1>5. pc' \notin Writing
  BY <1>2
<1> QED  BY <1>2, <1>3, <1>4, <1>5 DEF Control

(* A command that calls write_entry.                                        *)
LEMMA WriteControlled ==
  ASSUME NEW e \in Entries, NEW ok, NEW err, NEW locals \in Commands,
         Write(e, ok, err, locals), e.slot = locals.slot,
         Returns([what |-> e, ok |-> ok, err |-> err]),
         Commits([what |-> e, ok |-> ok, err |-> err], locals),
         Suits(ok, locals), err # "idle" => Suits(err, locals)
  PROVE  /\ pc' \in {"program", "erase", err} /\ pc' # "release"
         /\ pc' \in Points /\ cmd' \in Commands /\ entry' \in Writes
         /\ Control'
<1>1. ok \in Points \ Writing /\ err \in {"idle", "commit"} /\ err \in Points \ Writing
  BY DEF Returns, Points, Writing
<1>2. CASE ~MayCreate(e.slot)
  <2>1. Go(err, locals)
    BY <1>2 DEF Write
  <2> QED  BY <1>1, <2>1, GoControlled
<1>3. CASE MayCreate(e.slot)
  <2>1. /\ entry' = [what |-> e, ok |-> ok, err |-> err] /\ cmd' = locals
        /\ pc' \in {"erase", "program"}
    BY <1>3 DEF Write
  <2>2. entry' \in Writes
    BY <1>1, <2>1 DEF Writes
  <2>3. Suits(pc', cmd')
    BY <2>1 DEF Suits
  <2>4. Control'
    BY <2>1, <2>3 DEF Control
  <2> QED  BY <2>1, <2>2, <2>4 DEF Points
<1> QED  BY <1>2, <1>3

(* A write that returns.                                                    *)
LEMMA ReturnControlled ==
  ASSUME TypeOK, Control, pc \in Writing, NEW to \in {entry.ok, entry.err}, WriteReturns(to)
  PROVE  /\ pc' = to /\ pc' \in Points /\ cmd' \in Commands /\ entry' \in Writes
         /\ Control' /\ (to # "idle" => cmd' = cmd)
<1>1. to \in Points \ Writing /\ (to # "idle" => Suits(to, cmd))
  BY DEF Control, Returns, Points, Writing
<1>2. cmd \in Commands
  BY DEF TypeOK
<1> QED  BY <1>1, <1>2, GoControlled DEF WriteReturns, Go

(* What a command reads.                                                    *)
LEMMA ReadsFit ==
  ASSUME TypeOK, NEW s \in Slots
  PROVE  /\ Readable(s) => /\ Read(s, "count") \in 0..MaxUses /\ Read(s, "userop") \in 0..MaxUses
                           /\ Effective(s) \in 0..MaxUses
                           /\ Clamp(Effective(s)) \in 0..(MaxUses - 1)
                           /\ \A kind \in {"offchain", "userop", "sync"}, type1 \in BOOLEAN :
                                Locals(kind, s, type1) \in Commands
         /\ Read(s, "sigs") \in 0..Unreadable
         /\ \A n \in 0..MaxUses : Clamp(n) \in 0..(MaxUses - 1) /\ Clamp(n) <= n
<1>1. CellsTyped
  BY DEF TypeOK, CellsTyped
<1>2. /\ Read(s, "count") \in 0..MaxUses \cup {Unreadable}
      /\ Read(s, "userop") \in 0..MaxUses \cup {Unreadable}
      /\ Read(s, "sigs") \in 0..Unreadable
  BY <1>1, ReadType DEF ReadsTyped, Types
<1>3. MaxUses \in Nat /\ MaxUses > 0
  BY LogAssumption
<1>4. \A n \in 0..MaxUses : Clamp(n) \in 0..(MaxUses - 1) /\ Clamp(n) <= n
  BY <1>3 DEF Clamp, Least
<1>5. ASSUME Readable(s)
      PROVE  /\ Read(s, "count") \in 0..MaxUses /\ Read(s, "userop") \in 0..MaxUses
             /\ Effective(s) \in 0..MaxUses
  BY <1>2, <1>5 DEF Readable, Effective, Greater
<1>6. ASSUME Readable(s), NEW kind \in {"offchain", "userop", "sync"}, NEW type1 \in BOOLEAN
      PROVE  Locals(kind, s, type1) \in Commands
  BY <1>2, <1>5, <1>6 DEF Locals, Commands
<1> QED  BY <1>2, <1>4, <1>5, <1>6


(* A command that first brings the local count up to the published one.     *)
LEMMA PromoteControlled ==
  ASSUME TypeOK, NEW s \in Slots, Readable(s), NEW kind \in {"offchain", "userop"},
         NEW type1 \in BOOLEAN, NEW ok \in {"gate", "commit"}, NEW err \in {"idle", "commit"},
         Suits(ok, Locals(kind, s, type1)), err = "idle" \/ ok = "commit",
         Promote(s, ok, err, Locals(kind, s, type1))
  PROVE  /\ pc' # "release" /\ pc' \in Points /\ cmd' \in Commands /\ entry' \in Writes
         /\ Control'
<1> DEFINE locals == Locals(kind, s, type1)
<1>1. locals \in Commands /\ locals.slot = s /\ Clamp(Effective(s)) \in 0..(MaxUses - 1)
  BY ReadsFit DEF Locals
<1> DEFINE e == Entry(s, "count", Clamp(Effective(s)))
<1>2. e \in Entries /\ e.slot = s
  BY <1>1, LogAssumption DEF Entries, Entry, Types
<1>3. ok \in Points \ Writing /\ ok # "release" /\ err # "release"
  BY DEF Points, Writing
<1>4. CASE Write(e, ok, err, locals)
  <2>1. Returns([what |-> e, ok |-> ok, err |-> err]) /\ Commits([what |-> e, ok |-> ok, err |-> err], locals)
    BY <1>3 DEF Returns, Commits
  <2>2. err # "idle" => Suits(err, locals)
    OBVIOUS
  <2> HIDE DEF e, locals
  <2> QED  BY <1>1, <1>2, <1>3, <1>4, <2>1, <2>2, WriteControlled DEF locals
<1>5. CASE Go(ok, locals)
  <2> HIDE DEF e, locals
  <2> QED  BY <1>1, <1>3, <1>5, GoControlled DEF locals
<1> QED  BY <1>4, <1>5 DEF Promote

(* What a command leaves alone keeps its type.                              *)
LEMMA FrameTyped ==
  ASSUME TypeOK, CmdFrame, pc' \in Points, cmd' \in Commands, entry' \in Writes
  PROVE  TypeOK'
BY DEF TypeOK, CmdFrame, Clean, power, Writes

Commanded == Request \/ OffchainGate \/ OffchainBump \/ CommitRegister \/ CommitLast \/ CommitSigs \/ Cancel

(* No command step releases anything; a write does, when it returns.       *)
LEMMA CommandTyped ==
  ASSUME TypeOK, Control, Commanded
  PROVE  TypeOK' /\ Control' /\ pc' # "release" /\ CmdFrame
<1> DEFINE Goal == /\ pc' # "release" /\ pc' \in Points /\ cmd' \in Commands /\ entry' \in Writes
                   /\ Control'
<1>0. cmd \in Commands /\ Suits(pc, cmd) /\ cmd.slot \in Slots /\ cmd.off \in 0..MaxUses
  BY DEF TypeOK, Control, Commands
<1>a. MaxUses \in Nat /\ MaxUses > 0
  BY LogAssumption
<1>b. \A to \in {"idle", "bump", "commitLast", "commitSigs"} : to \in Points \ Writing /\ to # "release"
  BY DEF Points, Writing
<1>1. ASSUME NEW s \in Slots, SignOffchain(s) PROVE Goal
  <2>1. Readable(s) /\ Promote(s, "gate", "idle", Locals("offchain", s, FALSE))
    BY <1>1 DEF SignOffchain
  <2>2. Suits("gate", Locals("offchain", s, FALSE))
    BY DEF Suits, Locals
  <2> QED  BY <2>1, <2>2, PromoteControlled
<1>2. ASSUME NEW s \in Slots, NEW type1 \in BOOLEAN, SignUserOp(s, type1) PROVE Goal
  <2>1. /\ Readable(s) /\ Read(s, "sigs") + Effective(s) < MaxUses
        /\ Promote(s, "commit", "commit", Locals("userop", s, type1))
    BY <1>2 DEF SignUserOp, UserOpCapOk
  <2>2. Read(s, "sigs") < MaxUses
    BY <1>a, <2>1, ReadsFit DEF Unreadable
  <2>3. Suits("commit", Locals("userop", s, type1))
    BY <2>2 DEF Suits, Locals
  <2> QED  BY <2>1, <2>3, PromoteControlled
<1>3. ASSUME NEW s \in Slots, NEW target \in 0..MaxUses, Sync(s, target) PROVE Goal
  <2>1. Readable(s) /\ Go("commitLast", [Locals("sync", s, FALSE) EXCEPT !.off = Clamp(target)])
    BY <1>3 DEF Sync
  <2> DEFINE locals == [Locals("sync", s, FALSE) EXCEPT !.off = Clamp(target)]
  <2>2. Locals("sync", s, FALSE) \in Commands /\ Clamp(target) \in 0..MaxUses
    <3>1. Locals("sync", s, FALSE) \in Commands
      BY <2>1, ReadsFit
    <3>2. Clamp(target) \in 0..(MaxUses - 1)
      BY ReadsFit
    <3>3. Clamp(target) \in 0..MaxUses
      BY <1>a, <3>2
    <3> QED  BY <3>1, <3>3
  <2>3. locals \in Commands
    BY <2>2 DEF Commands
  <2>4. Suits("commitLast", locals)
    BY DEF Suits, Locals
  <2> HIDE DEF locals
  <2>5. Go("commitLast", locals)
    BY <2>1 DEF locals
  <2> QED  BY <1>b, <2>3, <2>4, <2>5, GoControlled
<1>4. ASSUME OffchainGate PROVE Goal
  <2>1. pc = "gate" /\ cmd.kind = "offchain"
    BY <1>0, <1>4 DEF OffchainGate, Suits
  <2>2. CASE Go("idle", cmd)
    BY <1>0, <1>b, <2>2, GoControlled
  <2>3. CASE GapOk /\ OffchainCapOk /\ Go("bump", [cmd EXCEPT !.off = cmd.off + 1])
    <3> DEFINE locals == [cmd EXCEPT !.off = cmd.off + 1]
    <3>1. cmd.off + 1 \in 0..MaxUses
      BY <1>0, <1>a, <2>3 DEF OffchainCapOk, Commands, Unreadable
    <3>2. locals \in Commands /\ locals.kind = "offchain"
      BY <1>0, <2>1, <3>1 DEF Commands
    <3>3. Suits("bump", locals)
      BY <3>2 DEF Suits
    <3> HIDE DEF locals
    <3>4. Go("bump", locals)
      BY <2>3 DEF locals
    <3> QED  BY <1>b, <3>2, <3>3, <3>4, GoControlled
  <2> QED  BY <1>4, <2>2, <2>3 DEF OffchainGate
<1>5. ASSUME OffchainBump PROVE Goal
  <2>1. pc = "bump" /\ cmd.kind = "offchain"
    BY <1>0, <1>5 DEF OffchainBump, Suits
  <2>2. CASE Go("idle", cmd)
    BY <1>0, <1>b, <2>2, GoControlled
  <2> DEFINE e == Entry(cmd.slot, "count", cmd.off)
  <2>3. CASE Write(e, "release", "idle", cmd)
    <3>1. e \in Entries /\ e.slot = cmd.slot
      BY <1>0 DEF Entries, Entry, Types
    <3>2. /\ Returns([what |-> e, ok |-> "release", err |-> "idle"])
          /\ Commits([what |-> e, ok |-> "release", err |-> "idle"], cmd)
          /\ Suits("release", cmd)
      BY <2>1 DEF Returns, Commits, Suits, Points, Writing
    <3> HIDE DEF e
    <3> QED  BY <1>0, <2>3, <3>1, <3>2, WriteControlled
  <2> QED  BY <1>5, <2>2, <2>3 DEF OffchainBump
<1>6. ASSUME CommitRegister PROVE Goal
  <2>1. pc = "commit" /\ cmd.kind = "userop"
    BY <1>0, <1>6 DEF CommitRegister, Suits
  <2>2. Suits("commitLast", cmd)
    BY <1>0, <2>1 DEF Suits
  <2>3. CASE Go("commitLast", cmd)
    BY <1>0, <1>b, <2>2, <2>3, GoControlled
  <2> DEFINE e == Entry(cmd.slot, "userop", 0)
  <2>4. CASE Write(e, "commitLast", "idle", cmd)
    <3>1. e \in Entries /\ e.slot = cmd.slot
      BY <1>0, <1>a DEF Entries, Entry, Types
    <3>2. /\ Returns([what |-> e, ok |-> "commitLast", err |-> "idle"])
          /\ Commits([what |-> e, ok |-> "commitLast", err |-> "idle"], cmd)
      BY <2>1 DEF Returns, Commits, Points, Writing
    <3> HIDE DEF e
    <3> QED  BY <1>0, <2>2, <2>4, <3>1, <3>2, WriteControlled
  <2> QED  BY <1>6, <2>3, <2>4 DEF CommitRegister
<1>7. ASSUME CommitLast PROVE Goal
  <2> DEFINE next == IF cmd.kind = "sync" THEN "idle" ELSE "commitSigs"
             e == Entry(cmd.slot, "userop", Clamp(cmd.off))
  <2>1. pc = "commitLast" /\ cmd.kind \in {"userop", "sync"}
    BY <1>0, <1>7 DEF CommitLast, Suits
  <2>2. next \in {"idle", "commitSigs"} /\ (next # "idle" => Suits(next, cmd))
    BY <1>0, <2>1 DEF Suits
  <2>3. e \in Entries /\ e.slot = cmd.slot
    BY <1>0, <1>a, ReadsFit DEF Entries, Entry, Types
  <2>4. Go(next, cmd) \/ Write(e, next, "idle", cmd)
    BY <1>7 DEF CommitLast
  <2> HIDE DEF next, e
  <2>5. CASE Go(next, cmd)
    BY <1>0, <1>b, <2>2, <2>5, GoControlled
  <2>6. CASE Write(e, next, "idle", cmd)
    <3>1. /\ Returns([what |-> e, ok |-> next, err |-> "idle"])
          /\ Commits([what |-> e, ok |-> next, err |-> "idle"], cmd)
      BY <2>2 DEF Returns, Commits, Points, Writing
    <3>2. Suits(next, cmd)
      BY <1>0, <2>1, <2>2 DEF Suits
    <3> QED  BY <1>0, <2>3, <2>6, <3>1, <3>2, WriteControlled
  <2> QED  BY <2>4, <2>5, <2>6
<1>8. ASSUME CommitSigs PROVE Goal
  <2>1. pc = "commitSigs" /\ cmd.kind = "userop" /\ cmd.sigs < MaxUses /\ cmd.sigs \in 0..Unreadable
    BY <1>0, <1>8 DEF CommitSigs, Suits, Commands
  <2>2. CASE Go("idle", cmd)
    BY <1>0, <1>b, <2>2, GoControlled
  <2> DEFINE e == Entry(cmd.slot, "sigs", cmd.sigs + 1)
  <2>3. CASE Write(e, "release", "idle", cmd)
    <3>1. e \in Entries /\ e.slot = cmd.slot
      BY <1>0, <1>a, <2>1 DEF Entries, Entry, Types, Unreadable
    <3>2. /\ Returns([what |-> e, ok |-> "release", err |-> "idle"])
          /\ Commits([what |-> e, ok |-> "release", err |-> "idle"], cmd)
          /\ Suits("release", cmd)
      BY <2>1 DEF Returns, Commits, Suits, Points, Writing
    <3> HIDE DEF e
    <3> QED  BY <1>0, <2>3, <3>1, <3>2, WriteControlled
  <2> QED  BY <1>8, <2>2, <2>3 DEF CommitSigs, Tallied
<1>9. ASSUME Cancel PROVE Goal
  BY <1>0, <1>9, <1>b, GoControlled DEF Cancel
<1>10. CmdFrame
  BY DEF Commanded, Request, SignOffchain, SignUserOp, Sync, OffchainGate, OffchainBump,
         CommitRegister, CommitLast, CommitSigs, Cancel
<1>11. Goal
  <2> HIDE DEF Goal
  <2> QED  BY <1>1, <1>2, <1>3, <1>4, <1>5, <1>6, <1>7, <1>8, <1>9 DEF Commanded, Request
<1> QED  BY <1>10, <1>11, FrameTyped

(* What a compaction reads into SRAM: one entry for each slot and type on   *)
(* the page, with its latest value.                                        *)
LEMMA ProjectionIs ==
  ASSUME TypeOK
  PROVE  /\ Projection \subseteq [seen : Index, what : Entries]
         /\ \A p \in Projection : p = Latest(p.what.slot, p.what.type)
         /\ Solid => \A p \in Projection :
                       /\ p.what.count = Top(OnPage, p.what.slot, p.what.type)
                       /\ Of(OnPage, p.what.slot, p.what.type) # {}
         /\ Solid => \A e \in OnPage : Latest(e.slot, e.type) \in Projection
<1>1. CellsTyped /\ \A i \in Index : cells[i] \in Entries \cup {Blank, Noise}
  BY DEF TypeOK, CellsTyped
<1>2. Journal \subseteq Index /\ \A i \in Journal : cells[i] # Blank
  BY ScanStops
<1>3. \A i \in Journal : cells[i] # Noise => cells[i] \in Entries
  BY <1>1, <1>2
<1>4. ASSUME NEW i \in Journal, cells[i] # Noise
      PROVE  LET p == Latest(cells[i].slot, cells[i].type)
             IN  /\ p \in [seen : Index, what : Entries]
                 /\ p.what.slot = cells[i].slot /\ p.what.type = cells[i].type
                 /\ p.what.count = Largest(Within(Journal, cells[i].slot, cells[i].type))
  <2> DEFINE s == cells[i].slot
             t == cells[i].type
             p == Latest(s, t)
             S == {j \in Journal : cells[j].slot = s}
  <2>1. s \in Slots /\ t \in Types
    BY <1>3, <1>4 DEF Entries
  <2>2. S \subseteq Nat /\ S # {} /\ S \subseteq Index
    <3>1. S \subseteq Index /\ i \in S
      BY <1>2, <1>4
    <3>2. Index \subseteq Nat
      BY LogAssumption DEF Index
    <3> QED  BY <3>1, <3>2
  <2>3. Min(S) \in Index
    BY <2>2, MinOfNaturals
  <2>4. Within(Journal, s, t) \subseteq Index
    BY <1>2 DEF Within
  <2>5. Largest(Within(Journal, s, t)) \in 0..MaxUses
    BY <1>1, <2>4, LargestType
  <2>6. p = [seen |-> Min(S), what |-> [slot |-> s, type |-> t,
                                        count |-> Largest(Within(Journal, s, t))]]
    BY DEF Latest, FirstSeen, Entry
  <2> HIDE DEF s, t, p, S
  <2> QED  BY <2>1, <2>3, <2>5, <2>6 DEF Entries, s, t, p
<1>5. \A p \in Projection : \E i \in Journal : cells[i] # Noise /\ p = Latest(cells[i].slot, cells[i].type)
  BY DEF Projection
<1>6. Projection \subseteq [seen : Index, what : Entries]
  BY <1>4, <1>5
<1>7. \A p \in Projection : p = Latest(p.what.slot, p.what.type)
  BY <1>4, <1>5
<1>8. ASSUME Solid, NEW p \in Projection
      PROVE  /\ p.what.count = Top(OnPage, p.what.slot, p.what.type)
             /\ Of(OnPage, p.what.slot, p.what.type) # {}
  <2>1. PICK i \in Journal : cells[i] # Noise /\ p = Latest(cells[i].slot, cells[i].type)
    BY <1>5
  <2> DEFINE s == cells[i].slot
             t == cells[i].type
  <2>2. s \in Slots /\ t \in Types /\ cells[i] \in OnPage
    BY <1>2, <1>3, <2>1 DEF Entries, OnPage
  <2>3. p.what.slot = s /\ p.what.type = t /\ p.what.count = Largest(Within(Journal, s, t))
    BY <1>4, <2>1
  <2>4. \A j \in Index \ Journal : cells[j] = Blank
    BY <1>8, ScanStops
  <2>5. {cells[j].count : j \in Within(Journal, s, t)} = {e.count : e \in Of(OnPage, s, t)}
    <3> HIDE DEF s, t
    <3>1. \A j \in Index : cells[j].slot = s => j \in Journal /\ cells[j] \notin {Blank, Noise}
      BY <2>2, <2>4, EntriesApart
    <3> QED  BY <1>2, <3>1 DEF Within, Of, OnPage
  <2>6. cells[i] \in Of(OnPage, s, t)
    BY <2>2 DEF Of
  <2> QED  BY <2>3, <2>5, <2>6 DEF Largest, Top
<1>9. ASSUME Solid, NEW e \in OnPage PROVE Latest(e.slot, e.type) \in Projection
  <2>1. PICK i \in Index : cells[i] = e /\ e \notin {Blank, Noise}
    BY DEF OnPage
  <2>2. i \in Journal
    BY <1>9, <2>1, ScanStops
  <2> QED  BY <2>1, <2>2 DEF Projection
<1> QED  BY <1>6, <1>7, <1>8, <1>9

(* The observer's record keeps its type when a compaction is lost.          *)
LEMMA StillToldTyped ==
  ASSUME TypeOK, CellsTyped', used' = StillTold
  PROVE  used' \in [Slots -> [op : Nat, off : Nat, lost : BOOLEAN]]
<1>1. ReadsTyped'
  BY ReadType, PTL
<1>2. \A s \in Slots, t \in Types : Read(s, t)' \in 0..Unreadable
  BY <1>1 DEF ReadsTyped
<1>3. used \in [Slots -> [op : Nat, off : Nat, lost : BOOLEAN]]
  BY DEF TypeOK
<1>4. ASSUME NEW s \in Slots PROVE StillTold[s] \in [op : Nat, off : Nat, lost : BOOLEAN]
  <2>1. Read(s, "count")' \in Nat /\ Read(s, "userop")' \in Nat
    BY <1>2, LogAssumption DEF Types, Unreadable
  <2>2. Effective(s)' \in Nat
    BY <2>1 DEF Effective, Greater
  <2>3. used[s] \in [op : Nat, off : Nat, lost : BOOLEAN]
    BY <1>3
  <2>4. [used[s] EXCEPT !.off = Least(used[s].off, Effective(s)')] \in [op : Nat, off : Nat, lost : BOOLEAN]
    <3>1. Least(used[s].off, Effective(s)') \in Nat
      BY <2>2, <2>3 DEF Least
    <3> QED  BY <2>3, <3>1
  <2>5. Signed(s) \in BOOLEAN
    BY <2>3 DEF Signed
  <2>6. [NoneUsed EXCEPT !.lost = Signed(s)] \in [op : Nat, off : Nat, lost : BOOLEAN]
    BY <2>5 DEF NoneUsed
  <2>7. NoneUsed \in [op : Nat, off : Nat, lost : BOOLEAN]
    BY DEF NoneUsed
  <2>8. StillTold[s] \in {NoneUsed, [used[s] EXCEPT !.off = Least(used[s].off, Effective(s)')],
                          [NoneUsed EXCEPT !.lost = Signed(s)]}
    BY DEF StillTold
  <2> QED  BY <2>4, <2>6, <2>7, <2>8
<1>5. DOMAIN StillTold = Slots /\ StillTold = [s \in Slots |-> StillTold[s]]
  BY DEF StillTold
<1> QED  BY <1>4, <1>5

-----------------------------------------------------------------------------
(* The page's own steps.                                                    *)

(* CountedBeforeRelease, slot by slot.                                      *)
Counted ==
  \A s \in Slots : pc = "release" /\ cmd.slot = s =>
    IF cmd.kind = "offchain" THEN Read(s, "count") = cmd.off
                             ELSE Read(s, "sigs") = cmd.sigs + 1

(* Said of each slot it can be carried through a step.                     *)
LEMMA CountedIs ==
  TypeOK => (CountedBeforeRelease <=> Counted)
<1> SUFFICES ASSUME TypeOK PROVE CountedBeforeRelease <=> Counted
  OBVIOUS
<1>1. cmd.slot \in Slots
  BY DEF TypeOK, Commands
<1> QED  BY <1>1 DEF CountedBeforeRelease, Counted

(* A write returns to the release only with its count on the page.          *)
LEMMA ReturnCounted ==
  ASSUME TypeOK, Control, pc \in Writing, NEW e, e = entry.what,
         WriteReturns(LandsAs(e)) \/ WriteReturns(entry.err)
  PROVE  Counted'
<1> SUFFICES ASSUME NEW s \in Slots, pc' = "release", cmd'.slot = s
             PROVE  IF cmd'.kind = "offchain" THEN Read(s, "count")' = cmd'.off
                                              ELSE Read(s, "sigs")' = cmd'.sigs + 1
  BY DEF Counted
<1>1. entry.err # "release" /\ Commits(entry, cmd)
  BY DEF Control, Returns
<1>2. LandsAs(e) = "release" /\ cmd' = cmd
  BY <1>1 DEF WriteReturns, Go
<1>3. Landed(e) /\ entry.ok = "release"
  BY <1>1, <1>2 DEF LandsAs
<1>4. Read(e.slot, e.type)' = e.count
  BY <1>3 DEF Landed
<1>5. CASE cmd.kind = "offchain"
  <2>1. e = Entry(s, "count", cmd.off)
    BY <1>1, <1>2, <1>3, <1>5 DEF Commits
  <2>2. e.slot = s /\ e.type = "count" /\ e.count = cmd.off
    BY <2>1 DEF Entry
  <2> QED  BY <1>2, <1>4, <1>5, <2>2
<1>6. CASE cmd.kind # "offchain"
  <2>1. e = Entry(s, "sigs", cmd.sigs + 1)
    BY <1>1, <1>2, <1>3, <1>6 DEF Commits
  <2>2. e.slot = s /\ e.type = "sigs" /\ e.count = cmd.sigs + 1
    BY <2>1 DEF Entry
  <2> QED  BY <1>2, <1>4, <1>6, <2>2
<1> QED  BY <1>5, <1>6

(* Where a write that lands or fails goes on.                               *)
LEMMA LandsSomewhere ==
  \A e : LandsAs(e) \in {entry.ok, entry.err}
BY DEF LandsAs

(* The parts of TypeOK that a step of the page or a power cut can change.   *)
LEMMA TypesTogether ==
  ASSUME TypeOK, CellsTyped', pc' \in Points /\ cmd' \in Commands /\ entry' \in Writes,
         queue' \subseteq [seen : Index, what : Entries],
         used' \in [Slots -> [op : Nat, off : Nat, lost : BOOLEAN]],
         cuts' \in 0..MaxCuts, torn' \in BOOLEAN, Clean \/ Fault
  PROVE  TypeOK'
<1>1. faults' \in 0..MaxFaults
  BY LogAssumption DEF TypeOK, Clean, Fault
<1> QED  BY <1>1 DEF TypeOK, CellsTyped, Writes

(* A word programmed at the end, or an erase, keeps the page's type.       *)
LEMMA AppendTyped ==
  ASSUME TypeOK, ~Full, NEW e \in Entries \cup {Blank, Noise}, cells' = [cells EXCEPT ![End] = e]
  PROVE  CellsTyped'
<1>1. End \in Index
  BY ScanStops
<1> QED  BY <1>1 DEF TypeOK, CellsTyped

(* And so does an erased page with an entry on it.                         *)
LEMMA EraseTyped ==
  /\ Erased \in [Index -> Entries \cup {Blank, Noise}]
  /\ \A e \in Entries : [Erased EXCEPT ![0] = e] \in [Index -> Entries \cup {Blank, Noise}]
BY LogAssumption DEF Erased, Index

(* What is left alone keeps its type.                                      *)
LEMMA Frames ==
  ASSUME TypeOK
  PROVE  /\ UNCHANGED power => cuts' \in 0..MaxCuts /\ torn' \in BOOLEAN
         /\ UNCHANGED used => used' \in [Slots -> [op : Nat, off : Nat, lost : BOOLEAN]]
         /\ UNCHANGED queue => queue' \subseteq [seen : Index, what : Entries]
         /\ UNCHANGED cells => CellsTyped'
         /\ UNCHANGED <<cmd, entry>> => cmd' \in Commands /\ entry' \in Writes
         /\ queue \subseteq [seen : Index, what : Entries]
BY DEF TypeOK, power, CellsTyped, Writes

(* A write that goes on to another of its steps keeps its command.          *)
LEMMA StillControlled ==
  ASSUME TypeOK, Control, pc \in Writing, pc' \in Writing, UNCHANGED <<cmd, entry>>
  PROVE  pc' \in Points /\ Control' /\ Counted'
<1>1. Suits(pc', cmd)
  BY DEF Writing, Suits, Control
<1> QED  BY <1>1 DEF Control, Writing, Points, Counted

(* The page's steps: a compaction, the write, the healing of the page.     *)
LEMMA LogTyped ==
  ASSUME TypeOK, Control, LogStep
  PROVE  TypeOK' /\ Control' /\ Counted'
<1>0. entry.what \in Entries /\ pc \in Writing
  BY DEF LogStep, CompactErase, CompactReplay, Program, Heal, Control, Writing
<1> DEFINE Shape == pc' \in Points /\ cmd' \in Commands /\ entry' \in Writes
<1>a. ASSUME NEW e, e = entry.what, WriteReturns(LandsAs(e)) \/ WriteReturns(entry.err)
      PROVE  Shape /\ Control' /\ Counted'
  <2>1. PICK to \in {entry.ok, entry.err} : WriteReturns(to)
    BY <1>a, LandsSomewhere
  <2>2. Shape /\ Control'
    BY <1>0, <2>1, ReturnControlled
  <2> QED  BY <1>0, <1>a, <2>2, ReturnCounted
<1>b. ASSUME pc' \in Writing, UNCHANGED <<cmd, entry>>
      PROVE  Shape /\ Control' /\ Counted'
  BY <1>0, <1>b, Frames, StillControlled
<1>c. WriteReturns(entry.err) => Shape /\ Control' /\ Counted'
  BY <1>a
<1>d. Clean \/ Fault
  BY DEF LogStep, CompactErase, CompactReplay, Program, Heal
<1>e. UNCHANGED power
  BY DEF LogStep, CompactErase, CompactReplay, Program, Heal
<1>f. cuts' \in 0..MaxCuts /\ torn' \in BOOLEAN
  BY <1>e, Frames
<1>g. \A left \in {Blank, Noise, entry.what} : left \in Entries \cup {Blank, Noise}
  BY <1>0
<1> HIDE DEF Shape
<1>1. CASE CompactErase
  <2>1. CASE /\ cells' = Erased /\ queue' = Projection /\ pc' = "replay"
             /\ UNCHANGED <<cmd, entry, used>>
    <3>1. Shape /\ Control' /\ Counted'
      BY <1>b, <2>1 DEF Writing
    <3>2. CellsTyped' /\ queue' \subseteq [seen : Index, what : Entries]
      BY <2>1, EraseTyped, ProjectionIs DEF CellsTyped
    <3> QED  BY <1>d, <1>f, <2>1, <3>1, <3>2, Frames, TypesTogether DEF Shape
  <2>2. CASE /\ UNCHANGED cells \/ cells' = Erased
             /\ WriteReturns(entry.err) /\ used' = StillTold /\ UNCHANGED queue
    <3>1. CellsTyped'
      BY <2>2, EraseTyped, Frames DEF CellsTyped
    <3> QED  BY <1>c, <1>d, <1>f, <2>2, <3>1, Frames, StillToldTyped, TypesTogether DEF Shape
  <2> QED  BY <1>1, <2>1, <2>2 DEF CompactErase
<1>2. CASE CompactReplay
  <2>1. ASSUME NEW p \in Foremost, ~Full, cells' = [cells EXCEPT ![End] = p.what],
               queue' = queue \ {p}, UNCHANGED <<pc, cmd, entry, used>>
        PROVE  TypeOK' /\ Control' /\ Counted'
    <3>1. p.what \in Entries
      BY DEF Foremost, TypeOK
    <3>2. CellsTyped'
      BY <2>1, <3>1, AppendTyped
    <3>3. Shape /\ Control' /\ Counted'
      BY <1>0, <1>b, <2>1
    <3>4. queue' \subseteq [seen : Index, what : Entries]
      BY <2>1, Frames
    <3> QED  BY <1>d, <1>f, <2>1, <3>2, <3>3, <3>4, Frames, TypesTogether DEF Shape
  <2>2. ASSUME NEW p \in Foremost,
               \/ UNCHANGED cells
               \/ ~Full /\ \E left \in {Blank, Noise, p.what} : cells' = [cells EXCEPT ![End] = left],
               queue' = {}, WriteReturns(entry.err), used' = StillTold
        PROVE  TypeOK' /\ Control' /\ Counted'
    <3>1. p.what \in Entries
      BY DEF Foremost, TypeOK
    <3>2. CellsTyped'
      BY <2>2, <3>1, AppendTyped, Frames
    <3> QED  BY <1>c, <1>d, <1>f, <2>2, <3>2, StillToldTyped, TypesTogether DEF Shape
  <2>3. CASE pc' = "program" /\ UNCHANGED <<cells, queue, cmd, entry, used>>
    <3>1. Shape /\ Control' /\ Counted'
      BY <1>b, <2>3 DEF Writing
    <3> QED  BY <1>d, <1>f, <2>3, <3>1, Frames, TypesTogether DEF Shape
  <2> QED  BY <1>2, <2>1, <2>2, <2>3 DEF CompactReplay
<1>3. CASE Program
  <2>1. UNCHANGED <<queue, used, power>>
    BY <1>3 DEF Program
  <2>2. CellsTyped'
    BY <1>0, <1>3, <1>g, AppendTyped, Frames DEF Program
  <2>3. Shape /\ Control' /\ Counted'
    <3>1. CASE \E e \in {entry.what} : WriteReturns(LandsAs(e))
      BY <1>a, <3>1
    <3>2. CASE WriteReturns(entry.err)
      BY <1>c, <3>2
    <3>3. CASE pc' = "heal" /\ UNCHANGED <<cmd, entry>>
      BY <1>b, <3>3 DEF Writing
    <3> QED  BY <1>3, <3>1, <3>2, <3>3 DEF Program
  <2> QED  BY <1>d, <1>f, <2>1, <2>2, <2>3, Frames, TypesTogether DEF Shape
<1>4. CASE Heal
  <2>1. UNCHANGED <<queue, used, power>>
    BY <1>4 DEF Heal
  <2>2. CellsTyped'
    BY <1>0, <1>4, EraseTyped, Frames DEF Heal, CellsTyped
  <2>3. Shape /\ Control' /\ Counted'
    <3>1. CASE \E e \in {entry.what} : WriteReturns(LandsAs(e))
      BY <1>a, <3>1
    <3>2. CASE WriteReturns(entry.err)
      BY <1>c, <3>2
    <3> QED  BY <1>4, <3>1, <3>2 DEF Heal
  <2> QED  BY <1>d, <1>f, <2>1, <2>2, <2>3, Frames, TypesTogether DEF Shape
<1> QED  BY <1>1, <1>2, <1>3, <1>4 DEF LogStep

(* The release itself.                                                     *)
LEMMA ReleaseTyped ==
  ASSUME TypeOK, Control, Release
  PROVE  TypeOK' /\ Control' /\ pc' = "idle"
<1>1. cmd \in Commands /\ cmd.slot \in Slots
  BY DEF TypeOK, Commands
<1>2. /\ pc' = "idle" /\ pc' \in Points /\ cmd' \in Commands /\ entry' \in Writes
      /\ Control'
  BY <1>1, GoControlled DEF Release, Points, Writing
<1>3. used' \in [Slots -> [op : Nat, off : Nat, lost : BOOLEAN]]
  <2> DEFINE s == cmd.slot
  <2>1. used \in [Slots -> [op : Nat, off : Nat, lost : BOOLEAN]] /\ s \in Slots
    BY <1>1 DEF TypeOK
  <2>2. /\ [used[s] EXCEPT !.off = @ + 1] \in [op : Nat, off : Nat, lost : BOOLEAN]
        /\ [used[s] EXCEPT !.op = @ + 1] \in [op : Nat, off : Nat, lost : BOOLEAN]
    BY <2>1
  <2>3. used' \in {used, [used EXCEPT ![s].off = @ + 1], [used EXCEPT ![s].op = @ + 1]}
    BY DEF Release
  <2> HIDE DEF s
  <2> QED  BY <2>1, <2>2, <2>3
<1> QED  BY <1>2, <1>3, Frames, TypesTogether DEF Release, Clean

(* A power cut, torn erases included.                                      *)
LEMMA PowerCutTyped ==
  ASSUME TypeOK, Control, PowerCut
  PROVE  TypeOK' /\ Control' /\ pc' = "idle"
<1>1. cmd \in Commands /\ cells \in [Index -> Entries \cup {Blank, Noise}]
  BY DEF TypeOK
<1>2. /\ pc' = "idle" /\ pc' \in Points /\ cmd' \in Commands /\ entry' \in Writes
      /\ Control'
  BY <1>1, GoControlled DEF PowerCut, Points, Writing
<1>3. CellsTyped'
  <2>1. CASE UNCHANGED cells
    BY <2>1, Frames
  <2>2. CASE TornProgram
    BY <2>2, AppendTyped DEF TornProgram
  <2>3. CASE TornErase
    BY <1>1, <2>3 DEF TornErase, CellsTyped
  <2> QED  BY <2>1, <2>2, <2>3 DEF PowerCut
<1>4. torn' \in BOOLEAN
  BY Zenon DEF PowerCut, TornProgram, TornErase, TypeOK
<1>5. cuts' \in 0..MaxCuts
  BY LogAssumption DEF PowerCut, TypeOK
<1>6. queue' = {}
  BY DEF PowerCut
<1>7. used' \in [Slots -> [op : Nat, off : Nat, lost : BOOLEAN]]
  BY <1>3, StillToldTyped DEF PowerCut, TypeOK
<1> QED  BY <1>2, <1>3, <1>4, <1>5, <1>6, <1>7, TypesTogether DEF PowerCut

(* Every step keeps types and control, and releases only what is counted.   *)
LEMMA TypeStep ==
  ASSUME TypeOK, Control, Counted, [Next]_vars
  PROVE  TypeOK' /\ Control' /\ Counted'
<1>1. CASE Commanded
  BY <1>1, CommandTyped DEF Counted
<1>2. CASE Release
  BY <1>2, ReleaseTyped DEF Counted
<1>3. CASE LogStep
  BY <1>3, LogTyped
<1>4. CASE PowerCut
  BY <1>4, PowerCutTyped DEF Counted
<1>5. CASE UNCHANGED vars
  <2>1. TypeOK'
    BY <1>5 DEF TypeOK, vars, power
  <2>2. Control'
    BY <1>5 DEF Control, vars
  <2>3. Counted'
    <3>1. UNCHANGED <<cells, pc, cmd>>
      BY <1>5 DEF vars
    <3>2. \A s \in Slots, t \in Types : Read(s, t)' = Read(s, t)
      BY <3>1 DEF Read, Largest, Within, Journal, End, Blanks
    <3> QED  BY <3>1, <3>2 DEF Counted, Types
  <2> QED  BY <2>1, <2>2, <2>3
<1> QED  BY <1>1, <1>2, <1>3, <1>4, <1>5 DEF Next, Commanded

(* The device starts with an erased page and no command.                   *)
LEMMA TypeInit ==
  Init => TypeOK /\ Control /\ Counted
<1> SUFFICES ASSUME Init PROVE TypeOK /\ Control /\ Counted
  OBVIOUS
<1>1. NoCmd \in Commands /\ NoCmd.kind = "none" /\ NoEntry \in Writes
  BY LogAssumption DEF NoCmd, Commands, Unreadable, NoEntry, Writes, Points
<1>2. used \in [Slots -> [op : Nat, off : Nat, lost : BOOLEAN]]
  BY DEF Init, NoneUsed
<1>3. TypeOK
  <2>1. cells \in [Index -> Entries \cup {Blank, Noise}] /\ pc \in Points
    BY EraseTyped DEF Init, Points
  <2>2. cmd \in Commands /\ entry \in [what : Entries \cup {Blank}, ok : Points, err : Points]
    BY <1>1 DEF Init, Writes
  <2>3. cuts \in 0..MaxCuts /\ faults \in 0..MaxFaults /\ queue = {}
    BY LogAssumption DEF Init
  <2>4. torn \in BOOLEAN
    BY Zenon DEF Init
  <2> QED  BY <1>2, <2>1, <2>2, <2>3, <2>4 DEF TypeOK
<1>4. Control
  BY <1>1 DEF Init, Control, Suits, Writing
<1>5. Counted
  BY DEF Init, Counted
<1> QED  BY <1>3, <1>4, <1>5

-----------------------------------------------------------------------------
(* What a new entry does to a sound record.                                 *)

(* Latest values are counts, and the off-chain count the larger of two.    *)
LEMMA TopTyped ==
  ASSUME NEW E, E \subseteq Entries, NEW s
  PROVE  /\ \A t : Top(E, s, t) \in Nat /\ Top(E, s, t) <= MaxUses
         /\ TopOff(E, s) \in Nat /\ TopOff(E, s) <= MaxUses
         /\ Top(E, s, "count") <= TopOff(E, s) /\ Top(E, s, "userop") <= TopOff(E, s)
         /\ TopOff(E, s) \in {Top(E, s, "count"), Top(E, s, "userop")}
<1>1. \A t : Top(E, s, t) \in Nat /\ Top(E, s, t) <= MaxUses
  BY TopIsLargest, LogAssumption
<1> QED  BY <1>1 DEF TopOff, Greater

(* An off-chain entry raises the off-chain count of its slot.              *)
LEMMA TopOffAdd ==
  ASSUME NEW E, E \subseteq Entries, NEW e \in Entries, NEW s
  PROVE  TopOff(E \cup {e}, s) = IF e.slot = s /\ e.type # "sigs"
                                   THEN Greater(TopOff(E, s), e.count) ELSE TopOff(E, s)
<1>1. e.type \in {"sigs", "userop", "count"} /\ e.count \in Nat
  BY LogAssumption DEF Entries, Types
<1>2. Top(E, s, "count") \in Nat /\ Top(E, s, "userop") \in Nat
  BY TopTyped
<1>3. /\ Top(E \cup {e}, s, "count") = IF e.slot = s /\ e.type = "count"
            THEN Greater(Top(E, s, "count"), e.count) ELSE Top(E, s, "count")
      /\ Top(E \cup {e}, s, "userop") = IF e.slot = s /\ e.type = "userop"
            THEN Greater(Top(E, s, "userop"), e.count) ELSE Top(E, s, "userop")
  BY TopAdd
<1> QED  BY <1>1, <1>2, <1>3 DEF TopOff, Greater

(* No latest value falls when an entry is added.                           *)
LEMMA Grows ==
  ASSUME NEW E, E \subseteq Entries, NEW e \in Entries, NEW s
  PROVE  /\ \A t : Top(E, s, t) <= Top(E \cup {e}, s, t)
         /\ TopOff(E, s) <= TopOff(E \cup {e}, s)
<1>1. ASSUME NEW t PROVE Top(E, s, t) <= Top(E \cup {e}, s, t)
  BY TopMonotone
<1>2. e.count \in Nat /\ TopOff(E, s) \in Nat
  BY TopTyped, LogAssumption DEF Entries
<1>3. TopOff(E, s) <= TopOff(E \cup {e}, s)
  BY <1>2, TopOffAdd DEF Greater
<1> QED  BY <1>1, <1>3

(* An entry that fits keeps the record sound.                               *)
LEMMA SoundAdd ==
  ASSUME NEW E, E \subseteq Entries, NEW e \in Entries, Sound(E), Fits(E, e)
  PROVE  Sound(E \cup {e})
<1> SUFFICES ASSUME NEW s \in Slots
             PROVE  /\ Top(E \cup {e}, s, "sigs") + TopOff(E \cup {e}, s) <= MaxUses
                    /\ Top(E \cup {e}, s, "count") <= Top(E \cup {e}, s, "userop") + MaxGap
  BY DEF Sound
<1> DEFINE F == E \cup {e}
<1>1. /\ Top(E, s, "sigs") \in Nat /\ Top(E, s, "count") \in Nat /\ Top(E, s, "userop") \in Nat
      /\ TopOff(E, s) \in Nat /\ MaxUses \in Nat /\ MaxGap \in Nat
      /\ e.count \in Nat /\ e.type \in {"sigs", "userop", "count"}
  BY TopTyped, LogAssumption DEF Entries, Types
<1>2. /\ Top(E, s, "sigs") + TopOff(E, s) <= MaxUses
      /\ Top(E, s, "count") <= Top(E, s, "userop") + MaxGap
  BY DEF Sound
<1>3. \A t : Top(F, s, t) = IF e.slot = s /\ e.type = t
                              THEN Greater(Top(E, s, t), e.count) ELSE Top(E, s, t)
  BY TopAdd
<1>4. TopOff(F, s) = IF e.slot = s /\ e.type # "sigs"
                       THEN Greater(TopOff(E, s), e.count) ELSE TopOff(E, s)
  BY TopOffAdd
<1> HIDE DEF F
<1>5. Top(F, s, "sigs") + TopOff(F, s) <= MaxUses
  <2>1. CASE e.slot # s
    BY <1>2, <1>3, <1>4, <2>1
  <2>2. CASE e.slot = s /\ e.type = "sigs"
    <3>1. e.count + TopOff(E, s) <= MaxUses
      BY <2>2 DEF Fits
    <3>2. Top(F, s, "sigs") \in {Top(E, s, "sigs"), e.count} /\ TopOff(F, s) = TopOff(E, s)
      BY <1>3, <1>4, <2>2 DEF Greater
    <3> QED  BY <1>1, <1>2, <3>1, <3>2
  <2>3. CASE e.slot = s /\ e.type # "sigs"
    BY <1>3, <1>4, <2>3 DEF Fits
  <2> QED  BY <2>1, <2>2, <2>3
<1>6. Top(F, s, "count") <= Top(F, s, "userop") + MaxGap
  <2>1. Top(E, s, "userop") <= Top(F, s, "userop") /\ Top(F, s, "userop") \in Nat
    BY <1>1, <1>3 DEF Greater
  <2>2. Top(F, s, "count") \in {Top(E, s, "count"), e.count}
    BY <1>3 DEF Greater
  <2>3. Top(F, s, "count") # Top(E, s, "count") => e.slot = s /\ e.type = "count"
    BY <1>3
  <2> QED  BY <1>1, <1>2, <2>1, <2>2, <2>3 DEF Fits
<1> QED  BY <1>5, <1>6 DEF F

Users == [Slots -> [op : Nat, off : Nat, lost : BOOLEAN]]

(* Nor is anything that was released forgotten.                            *)
LEMMA CoversAdd ==
  ASSUME NEW E, E \subseteq Entries, NEW e \in Entries, NEW u \in Users, Covers(E, u)
  PROVE  Covers(E \cup {e}, u)
<1> SUFFICES ASSUME NEW s \in Slots
             PROVE  u[s].op <= Top(E \cup {e}, s, "sigs") /\ u[s].off <= TopOff(E \cup {e}, s)
  BY DEF Covers
<1>1. u[s].op \in Nat /\ u[s].off \in Nat
  BY DEF Users
<1>2. u[s].op <= Top(E, s, "sigs") /\ u[s].off <= TopOff(E, s)
  BY DEF Covers
<1>3. E \cup {e} \subseteq Entries
  OBVIOUS
<1>4. /\ Top(E, s, "sigs") \in Nat /\ TopOff(E, s) \in Nat
      /\ Top(E \cup {e}, s, "sigs") \in Nat /\ TopOff(E \cup {e}, s) \in Nat
  BY <1>3, TopTyped
<1>5. Top(E, s, "sigs") <= Top(E \cup {e}, s, "sigs") /\ TopOff(E, s) <= TopOff(E \cup {e}, s)
  BY Grows
<1> QED  BY <1>1, <1>2, <1>4, <1>5

(* What a command holds still holds where its write takes it.               *)
LEMMA HoldsAdd ==
  ASSUME NEW E, E \subseteq Entries, NEW e \in Entries, NEW c \in Commands, NEW u,
         NEW p \in Points \ {"bump"}, Holds(p, E, c, u), e.slot = c.slot,
         p \notin {"idle", "release"} => Counts(e, c), p = "commitLast" => c.kind = "userop"
  PROVE  Holds(p, E \cup {e}, c, u)
<1> DEFINE F == E \cup {e}
           s == c.slot
<1>1. /\ c.off \in Nat /\ c.last \in Nat /\ c.sigs \in Nat /\ e.count \in Nat
      /\ F \subseteq Entries
  BY LogAssumption DEF Commands, Entries, Unreadable
<1>2. /\ Top(E, s, "userop") \in Nat /\ Top(F, s, "userop") \in Nat
      /\ Top(E, s, "userop") <= Top(F, s, "userop") /\ TopOff(E, s) \in Nat
  BY <1>1, TopTyped, Grows
<1>3. ASSUME Ahead(E, c), Counts(e, c) PROVE Ahead(F, c)
  <2>1. Top(F, s, "sigs") = Top(E, s, "sigs")
    BY <1>3, TopAdd DEF Counts
  <2>2. TopOff(F, s) \in {TopOff(E, s), e.count}
    BY TopOffAdd DEF Greater
  <2> QED  BY <1>3, <2>1, <2>2 DEF Ahead, Counts
<1> HIDE DEF F
<1>4. p = "gate" => Ahead(F, c) /\ c.last <= Top(F, s, "userop")
  <2>1. p = "gate" => Ahead(F, c) /\ c.last <= Top(E, s, "userop")
    BY <1>3 DEF Holds
  <2> QED  BY <1>1, <1>2, <2>1
<1>5. p \in {"commit", "commitLast", "commitSigs"} /\ c.kind = "userop" =>
        Ahead(F, c) /\ c.sigs + c.off < MaxUses
  BY <1>3 DEF Holds
<1> QED  BY <1>4, <1>5 DEF Holds, F

(* A record that says the same holds the same.                              *)
SameTops(E, F) == \A s \in Slots, t \in Types : Top(F, s, t) = Top(E, s, t)

(* Sound, covering, fitting and holding depend on the latest values only.  *)
LEMMA SameSays ==
  ASSUME NEW E, NEW F, SameTops(E, F)
  PROVE  /\ Sound(E) => Sound(F)
         /\ \A u : Covers(E, u) => Covers(F, u)
         /\ \A e \in Entries : Fits(E, e) => Fits(F, e)
         /\ \A c \in Commands : \A p, u : Holds(p, E, c, u) => Holds(p, F, c, u)
<1>1. \A s \in Slots : /\ Top(F, s, "sigs") = Top(E, s, "sigs")
                       /\ Top(F, s, "userop") = Top(E, s, "userop")
                       /\ Top(F, s, "count") = Top(E, s, "count")
                       /\ TopOff(F, s) = TopOff(E, s)
  BY DEF SameTops, Types, TopOff
<1>2. Sound(E) => Sound(F)
  BY <1>1 DEF Sound
<1>3. \A u : Covers(E, u) => Covers(F, u)
  BY <1>1 DEF Covers
<1>4. \A e \in Entries : Fits(E, e) => Fits(F, e)
  BY <1>1 DEF Fits, Entries
<1>5. ASSUME NEW p, NEW u, NEW c \in Commands, Holds(p, E, c, u) PROVE Holds(p, F, c, u)
  <2>1. c.slot \in Slots
    BY DEF Commands
  <2>2. Ahead(E, c) => Ahead(F, c)
    BY <1>1, <2>1 DEF Ahead
  <2>3. \A t, n : Fits(E, Entry(c.slot, t, n)) => Fits(F, Entry(c.slot, t, n))
    BY <1>1, <2>1 DEF Fits, Entry
  <2> QED  BY <1>1, <1>5, <2>1, <2>2, <2>3 DEF Holds
<1> QED  BY <1>2, <1>3, <1>4, <1>5

(* A record that has lost entries is sound if no count has lost the         *)
(* published one under it.                                                 *)
LEMMA SoundLess ==
  ASSUME NEW E, E \subseteq Entries, NEW F, F \subseteq E, Sound(E),
         \A s \in Slots : Top(F, s, "count") = 0 \/ Top(F, s, "userop") = Top(E, s, "userop")
  PROVE  Sound(F) /\ \A c \in Commands : Ahead(E, c) => Ahead(F, c)
<1>1. F \subseteq Entries
  OBVIOUS
<1>2. \A s, t : Top(F, s, t) <= Top(E, s, t) /\ Top(F, s, t) \in Nat /\ Top(E, s, t) \in Nat
  BY <1>1, TopMonotone, TopTyped
<1>3. \A s : TopOff(F, s) <= TopOff(E, s) /\ TopOff(F, s) \in Nat /\ TopOff(E, s) \in Nat
  BY <1>2 DEF TopOff, Greater
<1>4. MaxUses \in Nat /\ MaxGap \in Nat
  BY LogAssumption
<1>5. ASSUME NEW s \in Slots
      PROVE  /\ Top(F, s, "sigs") + TopOff(F, s) <= MaxUses
             /\ Top(F, s, "count") <= Top(F, s, "userop") + MaxGap
  <2>1. Top(E, s, "sigs") + TopOff(E, s) <= MaxUses /\ Top(E, s, "count") <= Top(E, s, "userop") + MaxGap
    BY DEF Sound
  <2> QED  BY <1>2, <1>3, <1>4, <2>1
<1>6. ASSUME NEW c \in Commands, Ahead(E, c) PROVE Ahead(F, c)
  <2>1. c.sigs \in Nat /\ c.off \in Nat
    BY LogAssumption DEF Commands, Unreadable
  <2> QED  BY <1>2, <1>3, <1>6, <2>1 DEF Ahead
<1> QED  BY <1>5, <1>6 DEF Sound

-----------------------------------------------------------------------------
(* The slots of a record.                                                   *)

(* They are finitely many, no more in a smaller record.                    *)
LEMMA KnownCounts ==
  /\ \A E : IsFiniteSet(Known(E)) /\ Cardinality(Known(E)) \in Nat
  /\ \A E, F : F \subseteq E => Cardinality(Known(F)) <= Cardinality(Known(E))
  /\ \A E, e : e.slot \in Slots => Known(E \cup {e}) = Known(E) \cup {e.slot}
<1>1. ASSUME NEW E PROVE IsFiniteSet(Known(E)) /\ Cardinality(Known(E)) \in Nat
  <2>1. Known(E) \in SUBSET Slots
    BY DEF Known
  <2> QED  BY <2>1, FS_Subset, FS_CardinalityType, LogAssumption
<1>2. ASSUME NEW E, NEW F, F \subseteq E PROVE Cardinality(Known(F)) <= Cardinality(Known(E))
  <2>1. Known(F) \in SUBSET Known(E)
    BY <1>2 DEF Known, Has
  <2> QED  BY <1>1, <2>1, FS_Subset
<1>3. ASSUME NEW E, NEW e, e.slot \in Slots PROVE Known(E \cup {e}) = Known(E) \cup {e.slot}
  BY <1>3 DEF Known, Has
<1> QED  BY <1>1, <1>2, <1>3

(* A new entry takes no more than its slot's share.                         *)
LEMMA ShareKept ==
  ASSUME NEW E, NEW e \in Entries, Cardinality(Known(E)) <= MaxDistinct,
         e.slot \in Known(E) \/ Cardinality(Known(E)) < MaxDistinct
  PROVE  Cardinality(Known(E \cup {e})) <= MaxDistinct
<1>1. e.slot \in Slots
  BY DEF Entries
<1>2. Known(E \cup {e}) = Known(E) \cup {e.slot} /\ IsFiniteSet(Known(E))
      /\ Cardinality(Known(E)) \in Nat
  BY <1>1, KnownCounts
<1>3. Cardinality(Known(E) \cup {e.slot}) =
        IF e.slot \in Known(E) THEN Cardinality(Known(E)) ELSE Cardinality(Known(E)) + 1
  BY <1>2, FS_AddElement
<1>4. Cardinality(Known(E \cup {e})) =
        IF e.slot \in Known(E) THEN Cardinality(Known(E)) ELSE Cardinality(Known(E)) + 1
  BY <1>2, <1>3
<1>5. MaxDistinct \in Nat
  BY LogAssumption
<1>6. CASE e.slot \in Known(E)
  BY <1>4, <1>6
<1>7. CASE e.slot \notin Known(E)
  <2> DEFINE n == Cardinality(Known(E))
  <2>1. n \in Nat /\ n < MaxDistinct /\ Cardinality(Known(E \cup {e})) = n + 1
    BY <1>2, <1>4, <1>7
  <2> HIDE DEF n
  <2> QED  BY <1>5, <2>1
<1> QED  BY <1>6, <1>7

(* A set of pending entries with one for each slot and type is no larger    *)
(* than three for each slot.                                               *)
LEMMA QueueSmall ==
  ASSUME NEW Q, Q \subseteq [seen : Index, what : Entries],
         \A p, q \in Q : p.what.slot = q.what.slot /\ p.what.type = q.what.type => p = q,
         NEW K, IsFiniteSet(K), \A p \in Q : p.what.slot \in K
  PROVE  IsFiniteSet(Q) /\ Cardinality(Q) <= 3 * Cardinality(K)
<1> DEFINE T == K \X Types
           f == [p \in Q |-> <<p.what.slot, p.what.type>>]
<1>1. IsFiniteSet(Types) /\ Cardinality(Types) = 3
  <2>1. IsFiniteSet({"sigs"}) /\ Cardinality({"sigs"}) = 1
    BY FS_Singleton
  <2>2. IsFiniteSet({"sigs"} \cup {"userop"}) /\ Cardinality({"sigs"} \cup {"userop"}) = 2
    <3>1. "userop" \notin {"sigs"}
      OBVIOUS
    <3>2. /\ IsFiniteSet({"sigs"} \cup {"userop"})
          /\ Cardinality({"sigs"} \cup {"userop"}) =
               IF "userop" \in {"sigs"} THEN Cardinality({"sigs"}) ELSE Cardinality({"sigs"}) + 1
      BY <2>1, FS_AddElement
    <3> QED  BY <2>1, <3>1, <3>2
  <2> DEFINE S == {"sigs"} \cup {"userop"}
  <2>3. IsFiniteSet(S \cup {"count"}) /\ Cardinality(S \cup {"count"}) = 3
    <3>1. "count" \notin S /\ IsFiniteSet(S) /\ Cardinality(S) = 2
      BY <2>2
    <3> HIDE DEF S
    <3>2. /\ IsFiniteSet(S \cup {"count"})
          /\ Cardinality(S \cup {"count"}) =
               IF "count" \in S THEN Cardinality(S) ELSE Cardinality(S) + 1
      BY <3>1, FS_AddElement
    <3> QED  BY <3>1, <3>2
  <2>4. Types = S \cup {"count"}
    BY DEF Types
  <2> QED  BY <2>3, <2>4
<1>2. IsFiniteSet(T) /\ Cardinality(T) = Cardinality(K) * Cardinality(Types)
  BY <1>1, FS_Product
<1>3. \A p \in Q : p.what.slot \in K /\ p.what.type \in Types
  BY DEF Entries
<1>4. f \in [Q -> T]
  BY <1>3
<1>5. \A p, q \in Q : f[p] = f[q] => p = q
  OBVIOUS
<1> HIDE DEF f, T
<1>6. f \in Injection(Q, T)
  BY <1>4, <1>5 DEF Injection, IsInjective
<1>7. IsFiniteSet(Q) /\ Cardinality(Q) <= Cardinality(T)
  BY <1>2, <1>6, FS_Injection
<1>8. Cardinality(K) \in Nat
  BY FS_CardinalityType
<1> QED  BY <1>1, <1>2, <1>7, <1>8

-----------------------------------------------------------------------------
(* Commands.                                                                *)

(* Outside a compaction the page is the whole record.                       *)
LEMMA PageIsRecord ==
  ASSUME TypeOK, Solid, queue = {}
  PROVE  /\ Held = OnPage
         /\ \A s \in Slots : /\ \A t \in Types : Read(s, t) = Top(Held, s, t)
                             /\ Effective(s) = TopOff(Held, s)
                             /\ Registered(s) <=> s \in Known(Held)
         /\ Distinct = Known(Held)
<1>1. Held = OnPage
  BY DEF Held, InSram
<1>2. \A s \in Slots, t \in Types : Read(s, t) = Top(Held, s, t) /\ (Registered(s) <=> Has(Held, s))
  BY <1>1, SolidPageReads DEF PageReads
<1>3. \A s \in Slots : Registered(s) <=> s \in Known(Held)
  BY <1>2 DEF Known, Types
<1>4. \A s \in Slots : Effective(s) = TopOff(Held, s)
  BY <1>2 DEF Effective, TopOff, Types
<1>5. Distinct = Known(Held)
  BY <1>3 DEF Distinct, Registered, Known
<1> QED  BY <1>1, <1>2, <1>3, <1>4, <1>5

(* What a step that leaves page and SRAM alone leaves alone.                *)
LEMMA PageKept ==
  ASSUME UNCHANGED <<cells, queue>>
  PROVE  /\ OnPage' = OnPage /\ Held' = Held /\ Blanks' = Blanks /\ Full' = Full
         /\ Solid' = Solid
BY DEF OnPage, Held, InSram, Blanks, Full, Solid

(* With nothing in SRAM there is nothing to keep in order.                 *)
LEMMA QueueKept ==
  ASSUME Ordered, queue = {}, UNCHANGED queue, pc' # "heal" \/ OnPage' = {}
  PROVE  Ordered'
BY DEF Ordered

(* A command that goes on.                                                  *)
LEMMA GoWhole ==
  ASSUME TypeOK, Whole, queue = {}, CmdFrame, NEW to \in Points \ Writing, NEW locals,
         Go(to, locals), to # "idle" => Holds(to, Held, locals, used)
  PROVE  Whole'
<1>1. /\ Held' = Held /\ Solid' /\ UNCHANGED <<queue, used>>
      /\ pc' = to /\ pc' \notin Writing /\ (to # "idle" => cmd' = locals)
  BY PageKept DEF CmdFrame, Whole, Go
<1>2. Ordered'
  BY <1>1, QueueKept DEF Whole, Writing
<1>3. Accounts'
  BY <1>1 DEF Whole, Accounts
<1>4. Holding'
  <2>1. CASE to = "idle"
    BY <1>1, <2>1 DEF Holding, Holds
  <2>2. CASE to # "idle"
    BY <1>1, <2>2 DEF Holding
  <2> QED  BY <2>1, <2>2
<1>5. Room'
  BY <1>1 DEF Whole, Room, Writing
<1> QED  BY <1>1, <1>2, <1>3, <1>4, <1>5 DEF Whole

(* A command that calls write_entry.                                        *)
LEMMA WriteWhole ==
  ASSUME TypeOK, Whole, queue = {}, CmdFrame, NEW e \in Entries, NEW ok,
         NEW err \in {"idle", "commit"}, NEW locals, Write(e, ok, err, locals),
         Fits(Held, e), Holds(ok, Held, locals, used),
         ok \notin {"idle", "release"} => Counts(e, locals),
         err = "commit" => ok = "commit"
  PROVE  Whole'
<1>1. CASE ~MayCreate(e.slot)
  <2>1. Go(err, locals) /\ err \in Points \ Writing /\ (err # "idle" => Holds(err, Held, locals, used))
    BY <1>1 DEF Write, Points, Writing
  <2> QED  BY <2>1, GoWhole
<1>2. CASE MayCreate(e.slot)
  <2>1. /\ entry' = [what |-> e, ok |-> ok, err |-> err] /\ cmd' = locals
        /\ pc' = IF Full THEN "erase" ELSE "program"
    BY <1>2 DEF Write
  <2>2. /\ Held' = Held /\ Solid' /\ UNCHANGED <<queue, used>> /\ Blanks' = Blanks
        /\ pc' \in {"erase", "program"}
    BY <2>1, PageKept DEF CmdFrame, Whole
  <2>3. Ordered'
    BY <2>2, QueueKept DEF Whole
  <2>4. Accounts'
    BY <2>2 DEF Whole, Accounts
  <2>5. Holds(pc', Held', cmd', used')
    BY <2>2 DEF Holds
  <2>6. Holding'
    BY <2>1, <2>2, <2>5 DEF Holding
  <2>7. Room'
    <3>1. Cardinality(Known(Held)) <= MaxDistinct
      BY DEF Whole, Room
    <3>2. e.slot \in Known(Held) \/ Cardinality(Known(Held)) < MaxDistinct
      <4>1. e.slot \in Slots
        BY DEF Entries
      <4> QED  BY <1>2, <4>1, PageIsRecord DEF MayCreate, Whole
    <3>3. pc' \in {"replay", "program"} => Cardinality(Blanks) > Cardinality(queue)
      <4>1. CASE Full
        BY <2>1, <4>1
      <4>2. CASE ~Full
        <5>1. Blanks # {} /\ Blanks \in SUBSET Index
          BY <4>2 DEF Full, Blanks
        <5>2. IsFiniteSet(Index)
          BY FS_Interval, LogAssumption DEF Index
        <5>3. Cardinality(Blanks) \in Nat /\ Cardinality(Blanks) # 0
          BY <5>1, <5>2, FS_Subset, FS_CardinalityType, FS_EmptySet
        <5>4. Cardinality(queue) = 0
          BY FS_EmptySet
        <5> QED  BY <5>3, <5>4
      <4> QED  BY <4>1, <4>2
    <3> QED  BY <2>1, <2>2, <3>1, <3>2, <3>3 DEF Room
  <2> QED  BY <2>2, <2>3, <2>4, <2>6, <2>7 DEF Whole
<1> QED  BY <1>1, <1>2

(* What a command reads of its slot.                                        *)
LEMMA SlotReads ==
  ASSUME TypeOK, Whole, queue = {}, NEW s \in Slots
  PROVE  /\ Read(s, "sigs") = Top(Held, s, "sigs") /\ Top(Held, s, "sigs") \in Nat
         /\ Read(s, "count") = Top(Held, s, "count") /\ Top(Held, s, "count") \in Nat
         /\ Read(s, "userop") = Top(Held, s, "userop") /\ Top(Held, s, "userop") \in Nat
         /\ Effective(s) = TopOff(Held, s) /\ TopOff(Held, s) \in Nat
         /\ TopOff(Held, s) \in {Top(Held, s, "count"), Top(Held, s, "userop")}
         /\ Top(Held, s, "count") <= TopOff(Held, s) /\ Top(Held, s, "userop") <= TopOff(Held, s)
         /\ Top(Held, s, "sigs") + TopOff(Held, s) <= MaxUses
         /\ Top(Held, s, "count") <= Top(Held, s, "userop") + MaxGap
         /\ MaxUses \in Nat \ {0} /\ MaxGap \in Nat
         /\ \A u : Covers(Held, u) => u[s].op <= Top(Held, s, "sigs") /\ u[s].off <= TopOff(Held, s)
         /\ used[s].op \in Nat /\ used[s].off \in Nat
<1>1. Held \subseteq Entries
  BY PageHoldsEntries
<1>2. Sound(Held)
  BY DEF Whole, Accounts
<1>3. used[s].op \in Nat /\ used[s].off \in Nat
  BY DEF TypeOK
<1>4. /\ \A t \in Types : Read(s, t) = Top(Held, s, t)
      /\ Effective(s) = TopOff(Held, s)
  BY PageIsRecord DEF Whole
<1>5. /\ \A t : Top(Held, s, t) \in Nat
      /\ TopOff(Held, s) \in Nat
      /\ Top(Held, s, "count") <= TopOff(Held, s) /\ Top(Held, s, "userop") <= TopOff(Held, s)
      /\ TopOff(Held, s) \in {Top(Held, s, "count"), Top(Held, s, "userop")}
  BY <1>1, TopTyped
<1>6. /\ Top(Held, s, "sigs") + TopOff(Held, s) <= MaxUses
      /\ Top(Held, s, "count") <= Top(Held, s, "userop") + MaxGap
  BY <1>2 DEF Sound
<1>7. MaxUses \in Nat \ {0} /\ MaxGap \in Nat
  BY LogAssumption
<1>8. \A u : Covers(Held, u) => u[s].op <= Top(Held, s, "sigs") /\ u[s].off <= TopOff(Held, s)
  BY DEF Covers
<1>9. "sigs" \in Types /\ "count" \in Types /\ "userop" \in Types
  BY DEF Types
<1> QED  BY <1>3, <1>4, <1>5, <1>6, <1>7, <1>8, <1>9

(* The repair of the local count fits: it raises it to the published one.   *)
LEMMA PromoteWhole ==
  ASSUME TypeOK, Whole, queue = {}, CmdFrame, NEW s \in Slots, Readable(s),
         NEW kind \in {"offchain", "userop"}, NEW type1 \in BOOLEAN,
         NEW ok \in {"gate", "commit"}, NEW err \in {"idle", "commit"}, err = "commit" => ok = "commit",
         Holds(ok, Held, Locals(kind, s, type1), used),
         Promote(s, ok, err, Locals(kind, s, type1))
  PROVE  Whole'
<1> DEFINE n == Clamp(Effective(s))
           e == Entry(s, "count", n)
           locals == Locals(kind, s, type1)
<1>1. n \in 0..(MaxUses - 1) /\ n <= Effective(s) /\ locals.off = Effective(s)
  BY ReadsFit DEF Locals
<1>2. CASE Go(ok, locals)
  <2> HIDE DEF locals
  <2>1. ok \in Points \ Writing
    BY DEF Points, Writing
  <2> QED  BY <1>2, <2>1, GoWhole DEF locals
<1>3. CASE n > Read(s, "count") /\ Write(e, ok, err, locals)
  <2> HIDE DEF n
  <2>1. e \in Entries
    BY <1>1, SlotReads DEF Entries, Entry, Types
  <2>2. n <= Top(Held, s, "userop") /\ n \in Nat
    BY <1>1, <1>3, SlotReads
  <2>3. Fits(Held, e)
    <3>1. Greater(TopOff(Held, s), n) = TopOff(Held, s)
      BY <2>2, SlotReads DEF Greater
    <3>2. n <= Top(Held, s, "userop") + MaxGap
      BY <2>2, SlotReads
    <3> QED  BY <3>1, <3>2, SlotReads DEF Fits, Entry
  <2>4. Counts(e, locals)
    BY <1>1 DEF Counts, Entry
  <2> HIDE DEF e, locals
  <2> QED  BY <1>3, <2>1, <2>3, <2>4, WriteWhole DEF locals
<1> QED  BY <1>2, <1>3 DEF Promote

(* CMD_SIGN_OFFCHAIN starts ahead of the record: it has just read it.      *)
LEMMA SignOffchainWhole ==
  ASSUME TypeOK, Whole, queue = {}, NEW s \in Slots, SignOffchain(s)
  PROVE  Whole'
<1> DEFINE c == Locals("offchain", s, FALSE)
<1>1. c.slot = s /\ c.off = Effective(s) /\ c.sigs = Read(s, "sigs") /\ c.last = Read(s, "userop")
  BY DEF Locals
<1>2. Readable(s) /\ CmdFrame /\ Promote(s, "gate", "idle", c)
  BY DEF SignOffchain
<1> HIDE DEF c
<1>3. Ahead(Held, c) /\ c.last <= Top(Held, s, "userop")
  BY <1>1, SlotReads DEF Ahead
<1>4. Holds("gate", Held, c, used)
  BY <1>1, <1>3 DEF Holds
<1> QED  BY <1>2, <1>4, PromoteWhole DEF c

(* CMD_SIGN_USEROP starts ahead of the record and within the cap.          *)
LEMMA SignUserOpWhole ==
  ASSUME TypeOK, Whole, queue = {}, NEW s \in Slots, NEW type1 \in BOOLEAN, SignUserOp(s, type1)
  PROVE  Whole'
<1> DEFINE c == Locals("userop", s, type1)
<1>1. c.slot = s /\ c.off = Effective(s) /\ c.sigs = Read(s, "sigs")
  BY DEF Locals
<1>2. Readable(s) /\ CmdFrame /\ Promote(s, "commit", "commit", c)
  BY DEF SignUserOp
<1> HIDE DEF c
<1>3. Ahead(Held, c) /\ c.sigs + c.off < MaxUses
  BY <1>1, SlotReads DEF Ahead, SignUserOp, UserOpCapOk
<1>4. Holds("commit", Held, c, used)
  BY <1>3 DEF Holds
<1> QED  BY <1>2, <1>4, PromoteWhole DEF c

(* CMD_OFFCHAIN_SYNC accepts a count only if it fits.                      *)
LEMMA SyncWhole ==
  ASSUME TypeOK, Whole, queue = {}, NEW s \in Slots, NEW target \in 0..MaxUses, Sync(s, target)
  PROVE  Whole'
<1> DEFINE n == Clamp(target)
           c == [Locals("sync", s, FALSE) EXCEPT !.off = n]
<1>1. n \in Nat
  BY ReadsFit, LogAssumption
<1>2. c.slot = s /\ c.off = n /\ c.kind = "sync"
  BY DEF Locals
<1>3. Read(s, "sigs") + Greater(Effective(s), n) < MaxUses /\ CmdFrame /\ Go("commitLast", c)
  BY DEF Sync, SyncLeaves
<1> HIDE DEF n
<1>4. Top(Held, s, "sigs") + Greater(TopOff(Held, s), n) <= MaxUses
  <2>1. Greater(TopOff(Held, s), n) \in Nat
    BY <1>1, SlotReads DEF Greater
  <2> QED  BY <1>3, <2>1, SlotReads
<1>5. Fits(Held, Entry(c.slot, "userop", c.off))
  BY <1>2, <1>4 DEF Fits, Entry
<1> HIDE DEF c
<1>6. Holds("commitLast", Held, c, used)
  BY <1>2, <1>5 DEF Holds
<1> QED  BY <1>3, <1>6, GoWhole DEF Points, Writing

(* The checks of cap and gap: one more off-chain message fits.             *)
LEMMA OffchainGateWhole ==
  ASSUME TypeOK, Whole, queue = {}, OffchainGate
  PROVE  Whole'
<1>1. CmdFrame /\ pc = "gate"
  BY DEF OffchainGate
<1>2. CASE Go("idle", cmd)
  BY <1>1, <1>2, GoWhole DEF Points, Writing
<1>3. CASE GapOk /\ OffchainCapOk /\ Go("bump", [cmd EXCEPT !.off = cmd.off + 1])
  <2> DEFINE c == [cmd EXCEPT !.off = cmd.off + 1]
             s == cmd.slot
             n == cmd.off + 1
  <2>1. /\ c.slot = s /\ c.off = n /\ s \in Slots
        /\ cmd.off \in Nat /\ cmd.sigs \in Nat /\ cmd.last \in Nat
    BY LogAssumption DEF TypeOK, Commands, Unreadable
  <2>2. Top(Held, s, "sigs") <= cmd.sigs /\ TopOff(Held, s) <= cmd.off
        /\ cmd.last <= Top(Held, s, "userop")
    BY <1>1 DEF Whole, Holding, Holds, Ahead
  <2>3. cmd.off - cmd.last < MaxGap /\ cmd.sigs + cmd.off + 1 <= MaxUses
    BY <1>3 DEF GapOk, OffchainCapOk
  <2>4. Greater(TopOff(Held, s), n) = n
    BY <2>1, <2>2, SlotReads DEF Greater
  <2>5. Top(Held, s, "sigs") + n <= MaxUses /\ n <= Top(Held, s, "userop") + MaxGap
    BY <2>1, <2>2, <2>3, SlotReads
  <2>6. Fits(Held, Entry(s, "count", n)) /\ TopOff(Held, s) < n
    BY <2>1, <2>2, <2>4, <2>5, SlotReads DEF Fits, Entry
  <2> HIDE DEF c, s, n
  <2>7. Holds("bump", Held, c, used)
    BY <2>1, <2>6 DEF Holds
  <2>8. Go("bump", c)
    BY <1>3 DEF c
  <2> QED  BY <1>1, <2>7, <2>8, GoWhole DEF Points, Writing
<1> QED  BY <1>2, <1>3 DEF OffchainGate

(* The count written is above all that was released.                       *)
LEMMA OffchainBumpWhole ==
  ASSUME TypeOK, Control, Whole, queue = {}, OffchainBump
  PROVE  Whole'
<1>1. CmdFrame /\ pc = "bump" /\ cmd.slot \in Slots /\ cmd.off \in 0..MaxUses /\ cmd.kind = "offchain"
  BY DEF OffchainBump, TypeOK, Commands, Control, Suits
<1>2. CASE Go("idle", cmd)
  BY <1>1, <1>2, GoWhole DEF Points, Writing
<1> DEFINE e == Entry(cmd.slot, "count", cmd.off)
<1>3. CASE Write(e, "release", "idle", cmd)
  <2>1. e \in Entries
    BY <1>1 DEF Entries, Entry, Types
  <2>2. Fits(Held, e) /\ TopOff(Held, cmd.slot) < cmd.off /\ Covers(Held, used)
    BY <1>1 DEF Whole, Holding, Holds, Accounts
  <2>3. used[cmd.slot].off < cmd.off
    <3>1. used[cmd.slot].off <= TopOff(Held, cmd.slot)
      BY <1>1, <2>2, SlotReads
    <3> QED  BY <1>1, <2>2, <3>1, SlotReads
  <2>4. Holds("release", Held, cmd, used)
    BY <1>1, <2>3 DEF Holds
  <2> HIDE DEF e
  <2> QED  BY <1>1, <1>3, <2>1, <2>2, <2>4, WriteWhole
<1> QED  BY <1>2, <1>3 DEF OffchainBump

(* What a UserOp being committed holds.                                     *)
LEMMA UserOpHolds ==
  ASSUME TypeOK, Whole, queue = {}, pc \in {"commit", "commitLast", "commitSigs"}, cmd.kind = "userop"
  PROVE  /\ cmd.slot \in Slots /\ cmd.sigs \in Nat /\ cmd.off \in Nat /\ cmd.off <= MaxUses
         /\ Top(Held, cmd.slot, "sigs") <= cmd.sigs /\ TopOff(Held, cmd.slot) <= cmd.off
         /\ cmd.sigs + cmd.off < MaxUses
         /\ \A p \in {"commit", "commitLast", "commitSigs"} : Holds(p, Held, cmd, used)
<1>1. cmd.slot \in Slots /\ cmd.sigs \in Nat /\ cmd.off \in Nat /\ cmd.off <= MaxUses
  BY LogAssumption DEF TypeOK, Commands, Unreadable
<1>2. Ahead(Held, cmd) /\ cmd.sigs + cmd.off < MaxUses
  BY DEF Whole, Holding, Holds
<1>3. \A p \in {"commit", "commitLast", "commitSigs"} : Holds(p, Held, cmd, used)
  BY <1>2 DEF Holds
<1> QED  BY <1>1, <1>2, <1>3 DEF Ahead

(* The entry that registers a slot changes none of its counts.             *)
LEMMA CommitRegisterWhole ==
  ASSUME TypeOK, Control, Whole, queue = {}, CommitRegister
  PROVE  Whole'
<1>1. CmdFrame /\ pc = "commit" /\ cmd.kind = "userop"
  BY DEF CommitRegister, Control, Suits
<1>2. Holds("commitLast", Held, cmd, used) /\ cmd.slot \in Slots /\ cmd.off \in Nat
  BY <1>1, UserOpHolds
<1>3. CASE Go("commitLast", cmd)
  BY <1>1, <1>2, <1>3, GoWhole DEF Points, Writing
<1> DEFINE e == Entry(cmd.slot, "userop", 0)
<1>4. CASE Write(e, "commitLast", "idle", cmd)
  <2>1. e \in Entries
    BY <1>2, LogAssumption DEF Entries, Entry, Types
  <2>2. Greater(TopOff(Held, cmd.slot), 0) = TopOff(Held, cmd.slot)
    BY <1>2, SlotReads DEF Greater
  <2>3. Fits(Held, e)
    BY <1>2, <2>2, SlotReads DEF Fits, Entry
  <2>4. Counts(e, cmd)
    BY <1>2 DEF Counts, Entry
  <2> HIDE DEF e
  <2> QED  BY <1>1, <1>2, <1>4, <2>1, <2>3, <2>4, WriteWhole
<1> QED  BY <1>3, <1>4 DEF CommitRegister

(* The count published is the one that was checked, or less.               *)
LEMMA CommitLastWhole ==
  ASSUME TypeOK, Control, Whole, queue = {}, CommitLast
  PROVE  Whole'
<1> DEFINE next == IF cmd.kind = "sync" THEN "idle" ELSE "commitSigs"
           n == Clamp(cmd.off)
           e == Entry(cmd.slot, "userop", n)
<1>1. CmdFrame /\ pc = "commitLast" /\ cmd.kind \in {"userop", "sync"}
  BY DEF CommitLast, Control, Suits
<1>2. Go(next, cmd) \/ Write(e, next, "idle", cmd)
  BY DEF CommitLast
<1>3. cmd.slot \in Slots /\ cmd.off \in Nat /\ n \in Nat /\ n <= cmd.off /\ n <= MaxUses
  <2>1. cmd.slot \in Slots /\ cmd.off \in 0..MaxUses
    BY DEF TypeOK, Commands
  <2>2. n \in 0..(MaxUses - 1) /\ n <= cmd.off
    BY <2>1, ReadsFit
  <2>3. MaxUses \in Nat
    BY LogAssumption
  <2> HIDE DEF n
  <2> QED  BY <2>1, <2>2, <2>3
<1> HIDE DEF n
<1>4. e \in Entries /\ Counts(e, cmd)
  BY <1>3, SlotReads DEF Entries, Entry, Types, Counts
<1>5. Holds(next, Held, cmd, used)
  <2>1. CASE cmd.kind = "sync"
    BY <2>1 DEF Holds
  <2>2. CASE cmd.kind = "userop"
    BY <1>1, <2>2, UserOpHolds
  <2> QED  BY <1>1, <2>1, <2>2
<1>6. Fits(Held, e)
  <2>1. Top(Held, cmd.slot, "sigs") + Greater(TopOff(Held, cmd.slot), n) <= MaxUses
    <3>1. CASE cmd.kind = "sync"
      <4>1. Top(Held, cmd.slot, "sigs") + Greater(TopOff(Held, cmd.slot), cmd.off) <= MaxUses
        BY <1>1, <3>1 DEF Whole, Holding, Holds, Fits, Entry
      <4> QED  BY <1>3, <4>1, SlotReads DEF Greater
    <3>2. CASE cmd.kind = "userop"
      <4>1. /\ Top(Held, cmd.slot, "sigs") <= cmd.sigs /\ TopOff(Held, cmd.slot) <= cmd.off
            /\ cmd.sigs + cmd.off < MaxUses /\ cmd.sigs \in Nat
        BY <1>1, <3>2, UserOpHolds
      <4> QED  BY <1>3, <4>1, SlotReads DEF Greater
    <3> QED  BY <1>1, <3>1, <3>2
  <2> QED  BY <2>1 DEF Fits, Entry
<1>7. next \in Points \ Writing
  BY DEF Points, Writing
<1> HIDE DEF next, e
<1> QED  BY <1>1, <1>2, <1>4, <1>5, <1>6, <1>7, GoWhole, WriteWhole

(* The tally written is one above all that was released.                   *)
LEMMA CommitSigsWhole ==
  ASSUME TypeOK, Control, Whole, queue = {}, CommitSigs
  PROVE  Whole'
<1>1. CmdFrame /\ pc = "commitSigs" /\ cmd.kind = "userop"
  BY DEF CommitSigs, Control, Suits
<1>2. CASE Go("idle", cmd)
  BY <1>1, <1>2, GoWhole DEF Points, Writing
<1> DEFINE e == Entry(cmd.slot, "sigs", cmd.sigs + 1)
<1>3. CASE Write(e, "release", "idle", cmd)
  <2>1. /\ cmd.slot \in Slots /\ cmd.sigs \in Nat /\ cmd.off \in Nat
        /\ Top(Held, cmd.slot, "sigs") <= cmd.sigs /\ TopOff(Held, cmd.slot) <= cmd.off
        /\ cmd.sigs + cmd.off < MaxUses
    BY <1>1, UserOpHolds
  <2>2. e \in Entries
    BY <2>1, SlotReads DEF Entries, Entry, Types
  <2>3. cmd.sigs + 1 + TopOff(Held, cmd.slot) <= MaxUses
    BY <2>1, SlotReads
  <2>4. Fits(Held, e)
    BY <2>3 DEF Fits, Entry
  <2>5. used[cmd.slot].op <= cmd.sigs
    <3>1. used[cmd.slot].op <= Top(Held, cmd.slot, "sigs")
      BY <2>1, SlotReads DEF Whole, Accounts
    <3> QED  BY <2>1, <3>1, SlotReads
  <2>6. Holds("release", Held, cmd, used)
    BY <1>1, <2>5 DEF Holds
  <2> HIDE DEF e
  <2> QED  BY <1>1, <1>3, <2>2, <2>4, <2>6, WriteWhole
<1> QED  BY <1>2, <1>3 DEF CommitSigs, Tallied

(* Every command step keeps the record whole.                              *)
LEMMA CommandWhole ==
  ASSUME TypeOK, Control, Whole, Commanded
  PROVE  Whole'
<1>1. queue = {}
  BY DEF Whole, Ordered, Commanded, Request, SignOffchain, SignUserOp, Sync, OffchainGate,
         OffchainBump, CommitRegister, CommitLast, CommitSigs, Cancel
<1>2. ASSUME Cancel PROVE Whole'
  BY <1>1, <1>2, GoWhole DEF Cancel, Points, Writing
<1> QED  BY <1>1, <1>2, SignOffchainWhole, SignUserOpWhole, SyncWhole, OffchainGateWhole,
            OffchainBumpWhole, CommitRegisterWhole, CommitLastWhole, CommitSigsWhole
         DEF Commanded, Request

-----------------------------------------------------------------------------
(* Writes and compactions.                                                  *)

(* A release is of a count that is on record and was not released before.   *)
LEMMA ReleaseWhole ==
  ASSUME TypeOK, Control, Counted, Whole, Release
  PROVE  Whole'
<1> DEFINE s == cmd.slot
<1>1. /\ pc = "release" /\ pc' = "idle" /\ UNCHANGED <<cells, queue>> /\ queue = {}
      /\ s \in Slots /\ cmd.kind \in {"offchain", "userop"}
  BY DEF Release, Go, Whole, Ordered, TypeOK, Commands, Control, Suits
<1>2. Held' = Held /\ Solid' /\ Blanks' = Blanks
  BY <1>1, PageKept DEF Whole
<1>3. Sound(Held) /\ Covers(Held, used)
  BY DEF Whole, Accounts
<1>4. Covers(Held, used')
  <2>1. CASE UNCHANGED used
    BY <1>3, <2>1
  <2>2. CASE cmd.kind = "offchain" /\ used' = [used EXCEPT ![s].off = @ + 1]
    <3>1. used[s].off < cmd.off /\ Read(s, "count") = cmd.off /\ cmd.off \in Nat
      BY <1>1, <2>2, LogAssumption DEF Whole, Holding, Holds, Counted, TypeOK, Commands
    <3>2. used[s].off + 1 <= TopOff(Held, s)
      BY <1>1, <3>1, SlotReads
    <3>3. \A r \in Slots : /\ used'[r].op = used[r].op
                           /\ used'[r].off = IF r = s THEN used[r].off + 1 ELSE used[r].off
      <4>1. used \in [Slots -> [op : Nat, off : Nat, lost : BOOLEAN]]
        BY DEF TypeOK
      <4> HIDE DEF s
      <4> QED  BY <2>2, <4>1
    <3> HIDE DEF s
    <3> QED  BY <1>3, <3>2, <3>3 DEF Covers
  <2>3. CASE cmd.kind # "offchain" /\ used' = [used EXCEPT ![s].op = @ + 1]
    <3>1. used[s].op <= cmd.sigs /\ Read(s, "sigs") = cmd.sigs + 1 /\ cmd.sigs \in Nat
      BY <1>1, <2>3, LogAssumption DEF Whole, Holding, Holds, Counted, TypeOK, Commands,
                                       Unreadable
    <3>2. used[s].op + 1 <= Top(Held, s, "sigs")
      BY <1>1, <3>1, SlotReads
    <3>3. \A r \in Slots : /\ used'[r].off = used[r].off
                           /\ used'[r].op = IF r = s THEN used[r].op + 1 ELSE used[r].op
      <4>1. used \in [Slots -> [op : Nat, off : Nat, lost : BOOLEAN]]
        BY DEF TypeOK
      <4> HIDE DEF s
      <4> QED  BY <2>3, <4>1
    <3> HIDE DEF s
    <3> QED  BY <1>3, <3>2, <3>3 DEF Covers
  <2> QED  BY <2>1, <2>2, <2>3 DEF Release
<1>5. Accounts'
  BY <1>2, <1>3, <1>4 DEF Accounts
<1>6. Ordered' /\ Holding' /\ Room'
  BY <1>1, <1>2 DEF Whole, Ordered, Holding, Holds, Room, Writing
<1> QED  BY <1>2, <1>5, <1>6 DEF Whole

(* A write that returns, its entry on the page or not.                      *)
LEMMA ReturnWhole ==
  ASSUME TypeOK, Control, Whole, pc \in {"program", "heal"}, NEW to \in {entry.ok, entry.err},
         WriteReturns(to), UNCHANGED <<queue, used>>, Solid',
         Held' = Held \/ Held' = Held \cup {entry.what}
  PROVE  Whole'
<1> DEFINE e == entry.what
<1>1. /\ e \in Entries /\ e.slot = cmd.slot /\ cmd \in Commands /\ Held \subseteq Entries
      /\ entry.ok \in Points \ (Writing \cup {"bump"})
      /\ entry.err = "idle" \/ (entry.err = "commit" /\ entry.ok = "commit")
      /\ entry.ok = "commitLast" => cmd.kind = "userop"
      /\ pc \in Writing /\ queue = {} /\ used \in Users
  BY PageHoldsEntries DEF Control, Returns, Commits, Whole, Ordered, Writing, TypeOK, Users
<1>2. /\ pc' = to /\ (to # "idle" => cmd' = cmd) /\ pc' \notin Writing
      /\ to = "idle" \/ (to = entry.ok /\ to \in Points \ {"bump"})
  BY <1>1 DEF WriteReturns, Go, Writing
<1>3. /\ Fits(Held, e) /\ Holds(entry.ok, Held, cmd, used)
      /\ entry.ok \notin {"idle", "release"} => Counts(e, cmd)
      /\ Sound(Held) /\ Covers(Held, used)
  BY <1>1 DEF Whole, Holding, Accounts
<1>4. Accounts'
  <2>1. Sound(Held') /\ Covers(Held', used)
    BY <1>1, <1>3, SoundAdd, CoversAdd
  <2> QED  BY <2>1 DEF Accounts
<1>5. Holding'
  <2>1. CASE to = "idle"
    BY <1>2, <2>1 DEF Holding, Holds
  <2>2. CASE to = entry.ok /\ to # "idle"
    <3>1. Holds(to, Held', cmd, used)
      <4> HIDE DEF e
      <4>1. Holds(to, Held \cup {e}, cmd, used)
        BY <1>1, <1>2, <1>3, <2>2, HoldsAdd
      <4>2. Held' = Held \/ Held' = Held \cup {e}
        BY DEF e
      <4> QED  BY <1>3, <2>2, <4>1, <4>2
    <3> QED  BY <1>2, <2>2, <3>1 DEF Holding
  <2> QED  BY <1>2, <2>1, <2>2
<1>6. Room'
  <2>1. /\ Cardinality(Known(Held)) <= MaxDistinct
        /\ e.slot \in Known(Held) \/ Cardinality(Known(Held)) < MaxDistinct
    BY <1>1 DEF Whole, Room
  <2>2. Cardinality(Known(Held')) <= MaxDistinct
    BY <1>1, <2>1, ShareKept
  <2> QED  BY <1>2, <2>2 DEF Room, Writing
<1>7. Ordered'
  BY <1>1, <1>2, QueueKept DEF Whole, Writing
<1> QED  BY <1>4, <1>5, <1>6, <1>7 DEF Whole

(* What stands before the write of a slot's later entries says all there    *)
(* was of the earlier ones.                                                *)
LEMMA HeadOfRecord ==
  ASSUME NEW E, E \subseteq Entries, NEW F, F \subseteq E,
         \A e \in E \ F, f \in F : f.slot = e.slot => ReplayOrder[f.type] < ReplayOrder[e.type],
         NEW s \in Slots
  PROVE  /\ Has(F, s) => Top(F, s, "sigs") = Top(E, s, "sigs")
         /\ Top(F, s, "count") = 0 \/ Top(F, s, "userop") = Top(E, s, "userop")
<1>1. /\ \A e \in E : e.type \in {"sigs", "userop", "count"}
      /\ ReplayOrder["sigs"] = 1 /\ ReplayOrder["userop"] = 2 /\ ReplayOrder["count"] = 3
  BY DEF Entries, Types, ReplayOrder
<1>2. ASSUME Has(F, s) PROVE Top(F, s, "sigs") = Top(E, s, "sigs")
  <2>1. PICK f \in F : f.slot = s
    BY <1>2 DEF Has
  <2>2. \A e \in E \ F : e.slot = s => e.type # "sigs"
    BY <1>1, <2>1
  <2>3. Of(F, s, "sigs") = Of(E, s, "sigs")
    BY <2>2 DEF Of
  <2> QED  BY <2>3 DEF Top
<1>3. ASSUME Top(F, s, "count") # 0 PROVE Top(F, s, "userop") = Top(E, s, "userop")
  <2>1. PICK f \in Of(F, s, "count") : TRUE
    BY <1>3, TopIsLargest
  <2>2. \A e \in E \ F : e.slot # s
    BY <1>1, <2>1 DEF Of
  <2>3. Of(F, s, "userop") = Of(E, s, "userop")
    BY <2>2 DEF Of
  <2> QED  BY <2>3 DEF Top
<1> QED  BY <1>2, <1>3

(* A compaction that is cut or fails keeps what it has written back.        *)
LEMMA LossWhole ==
  ASSUME TypeOK, TypeOK', Control, Whole, pc \in {"erase", "replay"}, ~torn',
         NEW to \in {"idle", entry.err}, Go(to, cmd), queue' = {}, used' = StillTold, Solid',
         OnPage' \subseteq Held,
         \A e \in Held \ OnPage', f \in OnPage' :
            f.slot = e.slot => ReplayOrder[f.type] < ReplayOrder[e.type]
  PROVE  Whole'
<1> DEFINE F == OnPage'
<1>1. Held \subseteq Entries /\ cmd \in Commands /\ Sound(Held) /\ Covers(Held, used) /\ used \in Users
  BY PageHoldsEntries DEF Whole, Accounts, TypeOK, Users
<1>2. Held' = F
  BY DEF Held, InSram
<1>3. \A s \in Slots : /\ Has(F, s) => Top(F, s, "sigs") = Top(Held, s, "sigs")
                       /\ Top(F, s, "count") = 0 \/ Top(F, s, "userop") = Top(Held, s, "userop")
  <2> HIDE DEF F
  <2> SUFFICES ASSUME NEW s \in Slots
               PROVE  /\ Has(F, s) => Top(F, s, "sigs") = Top(Held, s, "sigs")
                      /\ Top(F, s, "count") = 0 \/ Top(F, s, "userop") = Top(Held, s, "userop")
    OBVIOUS
  <2> QED  BY <1>1, HeadOfRecord DEF F
<1>4. Sound(F) /\ (Ahead(Held, cmd) => Ahead(F, cmd))
  BY <1>1, <1>3, SoundLess
<1>5. PageReads'
  BY SolidPageReads, PTL
<1>6. Covers(F, used')
  <2> SUFFICES ASSUME NEW s \in Slots
               PROVE  used'[s].op <= Top(F, s, "sigs") /\ used'[s].off <= TopOff(F, s)
    BY DEF Covers
  <2>1. /\ Top(F, s, "sigs") \in Nat /\ TopOff(F, s) \in Nat /\ used[s].op \in Nat /\ used[s].off \in Nat
        /\ used[s].op <= Top(Held, s, "sigs")
    BY <1>1, TopTyped DEF Users, Covers
  <2>2. CASE Registered(s)'
    <3>1. Has(F, s) /\ Effective(s)' = TopOff(F, s)
      BY <1>5, <2>2 DEF PageReads, Types, Effective, TopOff
    <3>2. used'[s] = [used[s] EXCEPT !.off = Least(used[s].off, TopOff(F, s))]
      BY <2>2, <3>1 DEF StillTold
    <3>3. used'[s].op = used[s].op /\ used'[s].off = Least(used[s].off, TopOff(F, s))
      <4>1. used[s] \in [op : Nat, off : Nat, lost : BOOLEAN]
        BY <1>1 DEF Users
      <4> QED  BY <3>2, <4>1
    <3>4. Top(Held, s, "sigs") = Top(F, s, "sigs")
      BY <1>3, <3>1
    <3> HIDE DEF F
    <3> QED  BY <2>1, <3>3, <3>4 DEF Least
  <2>3. CASE ~Registered(s)'
    <3>1. used'[s] = [NoneUsed EXCEPT !.lost = Signed(s)]
      BY <2>3 DEF StillTold
    <3>2. used'[s].op = 0 /\ used'[s].off = 0
      BY <3>1 DEF NoneUsed
    <3> QED  BY <2>1, <3>2
  <2> QED  BY <2>2, <2>3
<1>7. Accounts'
  BY <1>2, <1>4, <1>6 DEF Accounts
<1>8. /\ pc' = to /\ pc' \in {"idle", "commit"} /\ (to # "idle" => cmd' = cmd)
      /\ entry.err = "commit" => entry.ok = "commit"
  BY DEF Go, Control, Writing, Returns
<1>9. Holding'
  <2>1. CASE to = "idle"
    BY <1>8, <2>1 DEF Holding, Holds, Writing
  <2>2. CASE to # "idle"
    <3>1. to = "commit" /\ Holds("commit", Held, cmd, used)
      BY <1>8, <2>2 DEF Whole, Holding, Writing
    <3>2. Holds("commit", F, cmd, used')
      BY <1>4, <3>1 DEF Holds
    <3> QED  BY <1>2, <1>8, <2>2, <3>1, <3>2 DEF Holding, Writing
  <2> QED  BY <2>1, <2>2
<1>10. Room'
  <2>1. Cardinality(Known(Held)) <= MaxDistinct
    BY DEF Whole, Room
  <2>2. Cardinality(Known(Held')) <= Cardinality(Known(Held))
    BY <1>2, KnownCounts
  <2>3. Cardinality(Known(Held')) <= MaxDistinct
    BY <2>1, <2>2, KnownCounts, LogAssumption
  <2> QED  BY <1>8, <2>3 DEF Room, Writing
<1>11. Ordered'
  BY <1>8 DEF Ordered
<1> QED  BY <1>7, <1>9, <1>10, <1>11 DEF Whole

(* What a step that stays on its way to the same write must keep.           *)
LEMMA OnTheWay ==
  ASSUME TypeOK, Control, Whole, pc \in Writing, pc' \in Writing, UNCHANGED <<cmd, entry, used>>,
         SameTops(Held, Held'), Known(Held') = Known(Held), Solid', Ordered',
         pc' \in {"replay", "program"} => Cardinality(Blanks') > Cardinality(queue')
  PROVE  Whole'
<1>1. /\ entry.what \in Entries /\ cmd \in Commands
      /\ Sound(Held) /\ Covers(Held, used) /\ Fits(Held, entry.what)
      /\ Holds(entry.ok, Held, cmd, used) /\ (entry.ok \notin {"idle", "release"} => Counts(entry.what, cmd))
  BY DEF Control, TypeOK, Whole, Accounts, Holding
<1>2. /\ Sound(Held') /\ Covers(Held', used) /\ Fits(Held', entry.what)
      /\ Holds(entry.ok, Held', cmd, used)
  <2>1. /\ Sound(Held) => Sound(Held')
        /\ \A u : Covers(Held, u) => Covers(Held', u)
        /\ \A e \in Entries : Fits(Held, e) => Fits(Held', e)
        /\ \A c \in Commands : \A p, u : Holds(p, Held, c, u) => Holds(p, Held', c, u)
    BY SameSays
  <2>2. Sound(Held') /\ Covers(Held', used)
    BY <1>1, <2>1
  <2>3. Fits(Held', entry.what)
    BY <1>1, <2>1
  <2>4. Holds(entry.ok, Held', cmd, used)
    BY <1>1, <2>1
  <2> QED  BY <2>2, <2>3, <2>4
<1>3. Accounts'
  BY <1>2 DEF Accounts
<1>4. Holding'
  <2>1. Holds(pc', Held', cmd', used')
    BY DEF Holds, Writing
  <2> QED  BY <1>1, <1>2, <2>1 DEF Holding
<1>5. Room'
  BY DEF Whole, Room
<1> QED  BY <1>3, <1>4, <1>5 DEF Whole

(* The page is read into SRAM: one entry per slot and type says it all.     *)
LEMMA EraseWhole ==
  ASSUME TypeOK, Control, Whole, pc = "erase", cells' = Erased, queue' = Projection,
         pc' = "replay", UNCHANGED <<cmd, entry, used>>
  PROVE  Whole'
<1>1. Held = OnPage /\ Held \subseteq Entries
  BY PageIsRecord, PageHoldsEntries DEF Whole, Ordered
<1>2. Solid' /\ OnPage' = {} /\ Blanks' = Index
  BY Renewed
<1>3. Held' = {p.what : p \in Projection}
  BY <1>2 DEF Held, InSram
<1>4. /\ \A p \in Projection : /\ p.what.count = Top(Held, p.what.slot, p.what.type)
                               /\ Of(Held, p.what.slot, p.what.type) # {}
                               /\ p = Latest(p.what.slot, p.what.type) /\ p.what \in Entries
      /\ \A e \in Held : Latest(e.slot, e.type) \in Projection
      /\ Projection \subseteq [seen : Index, what : Entries]
  BY <1>1, ProjectionIs DEF Whole
<1>5. Held' \subseteq Entries
  BY <1>3, <1>4
<1>6. \A s, t : Latest(s, t).what.slot = s /\ Latest(s, t).what.type = t /\ Latest(s, t).seen = FirstSeen(s)
  BY DEF Latest, Entry
<1>7. SameTops(Held, Held')
  <2> SUFFICES ASSUME NEW s \in Slots, NEW t \in Types PROVE Top(Held', s, t) = Top(Held, s, t)
    BY DEF SameTops
  <2>1. \A f \in Of(Held', s, t) : f.count = Top(Held, s, t)
    BY <1>3, <1>4 DEF Of
  <2>2. Of(Held, s, t) # {} => Of(Held', s, t) # {}
    BY <1>3, <1>4, <1>6 DEF Of
  <2> QED  BY <1>1, <1>5, <2>1, <2>2, TopOfLatest
<1>8. Known(Held') = Known(Held)
  <2>1. ASSUME NEW s \in Slots, Has(Held, s) PROVE Has(Held', s)
    BY <1>3, <1>4, <1>6, <2>1 DEF Has
  <2>2. ASSUME NEW s \in Slots, Has(Held', s) PROVE Has(Held, s)
    <3>1. PICK p \in Projection : p.what.slot = s
      BY <1>3, <2>2 DEF Has
    <3>2. Of(Held, s, p.what.type) # {}
      BY <1>4, <3>1
    <3> QED  BY <3>2 DEF Of, Has
  <2> QED  BY <2>1, <2>2 DEF Known
<1>9. \A p, q \in Projection : p.what.slot = q.what.slot =>
        p.seen = q.seen /\ (p.what.type = q.what.type => p = q)
  <2> SUFFICES ASSUME NEW p \in Projection, NEW q \in Projection, p.what.slot = q.what.slot
               PROVE  p.seen = q.seen /\ (p.what.type = q.what.type => p = q)
    OBVIOUS
  <2>1. p = Latest(p.what.slot, p.what.type) /\ q = Latest(q.what.slot, q.what.type)
    BY <1>4
  <2>2. p.seen = FirstSeen(p.what.slot) /\ q.seen = FirstSeen(q.what.slot)
    BY <1>6, <2>1
  <2> QED  BY <2>1, <2>2
<1>10. Ordered'
  BY <1>2, <1>9 DEF Ordered
<1>11. Cardinality(Blanks') > Cardinality(queue')
  <2> DEFINE K == Known(Held)
  <2>1. \A p \in Projection : p.what.slot \in K
    <3>1. \A p \in Projection : p.what.slot \in Slots /\ Has(Held', p.what.slot)
      BY <1>3, <1>4 DEF Has, Entries
    <3> QED  BY <1>8, <3>1 DEF Known
  <2>2. IsFiniteSet(K) /\ Cardinality(K) \in Nat /\ Cardinality(K) <= MaxDistinct
    BY KnownCounts DEF Whole, Room
  <2> HIDE DEF K
  <2>3. IsFiniteSet(Projection) /\ Cardinality(Projection) <= 3 * Cardinality(K)
    BY <1>4, <1>9, <2>1, <2>2, QueueSmall
  <2>4. Cardinality(Index) = N
    BY FS_Interval, LogAssumption DEF Index
  <2>5. Cardinality(Projection) \in Nat
    BY <2>3, FS_CardinalityType
  <2>6. MaxDistinct \in Nat /\ N \in Nat /\ 3 * MaxDistinct < N
    BY LogAssumption
  <2>7. Cardinality(Projection) < N
    BY <2>2, <2>3, <2>5, <2>6
  <2> QED  BY <1>2, <2>4, <2>5, <2>6, <2>7
<1> QED  BY <1>2, <1>7, <1>8, <1>10, <1>11, OnTheWay DEF Writing

(* An entry goes back from SRAM to the page.                                *)
LEMMA ReplayWhole ==
  ASSUME TypeOK, Control, Whole, pc = "replay", NEW p \in Foremost, ~Full,
         cells' = [cells EXCEPT ![End] = p.what], queue' = queue \ {p},
         UNCHANGED <<pc, cmd, entry, used>>
  PROVE  Whole'
<1>1. /\ p \in queue /\ p.what \in Entries /\ \A q \in queue \ {p} : Precedes(p, q)
      /\ queue \subseteq [seen : Index, what : Entries]
  BY DEF Foremost, TypeOK
<1>2. /\ Solid' /\ OnPage' = OnPage \cup {p.what} /\ Blanks' = Blanks \ {End} /\ End \in Blanks
  BY <1>1, Appended, EntriesApart DEF Whole
<1>3. Held' = Held
  BY <1>1, <1>2 DEF Held, InSram
<1>4. Ordered'
  <2>1. /\ \A q, r \in queue : q.what.slot = r.what.slot =>
             q.seen = r.seen /\ (q.what.type = r.what.type => q = r)
        /\ \A q \in queue, e \in OnPage : e.slot = q.what.slot =>
             ReplayOrder[e.type] < ReplayOrder[q.what.type]
    BY DEF Whole, Ordered
  <2>2. ASSUME NEW q \in queue \ {p}, p.what.slot = q.what.slot
        PROVE  ReplayOrder[p.what.type] < ReplayOrder[q.what.type]
    <3>1. p.seen = q.seen /\ p.seen \in Nat
      BY <1>1, <2>1, <2>2, LogAssumption DEF Index
    <3>2. Precedes(p, q)
      BY <1>1
    <3> QED  BY <3>1, <3>2 DEF Precedes
  <2> QED  BY <1>2, <2>1, <2>2 DEF Ordered
<1>5. Cardinality(Blanks') > Cardinality(queue')
  <2>1. IsFiniteSet(Index)
    BY FS_Interval, LogAssumption DEF Index
  <2>2. IsFiniteSet(Blanks)
    <3>1. Blanks \in SUBSET Index
      BY DEF Blanks
    <3> QED  BY <2>1, <3>1, FS_Subset
  <2>3. IsFiniteSet(queue)
    <3>1. \A q, r \in queue : q.what.slot = r.what.slot /\ q.what.type = r.what.type => q = r
      BY DEF Whole, Ordered
    <3>2. \A q \in queue : q.what.slot \in Slots
      BY <1>1 DEF Entries
    <3> QED  BY <1>1, <3>1, <3>2, QueueSmall, LogAssumption
  <2>4. Cardinality(Blanks) > Cardinality(queue)
    BY DEF Whole, Room
  <2>5. Cardinality(Blanks') = Cardinality(Blanks) - 1
    BY <1>2, <2>2, FS_RemoveElement
  <2>6. Cardinality(queue') = Cardinality(queue) - 1
    BY <1>1, <2>3, FS_RemoveElement
  <2>7. Cardinality(Blanks) \in Nat /\ Cardinality(queue) \in Nat
    BY <2>2, <2>3, FS_CardinalityType
  <2> QED  BY <2>4, <2>5, <2>6, <2>7
<1>6. SameTops(Held, Held')
  BY <1>3 DEF SameTops
<1> QED  BY <1>2, <1>3, <1>4, <1>5, <1>6, OnTheWay DEF Writing

(* A page that is unchanged, or to which a word was written that is no      *)
(* entry.                                                                  *)
LEMMA PageSame ==
  ASSUME TypeOK, Solid,
         UNCHANGED cells \/ (~Full /\ \E left \in {Blank, Noise} : cells' = [cells EXCEPT ![End] = left])
  PROVE  Solid' /\ OnPage' = OnPage
<1>1. CASE UNCHANGED cells
  BY <1>1 DEF Solid, OnPage
<1>2. ASSUME ~Full, NEW left \in {Blank, Noise}, cells' = [cells EXCEPT ![End] = left]
      PROVE  Solid' /\ OnPage' = OnPage
  BY <1>2, Appended, EntriesApart
<1> QED  BY <1>1, <1>2

(* A compaction whose erase fails: the page is as it was, or empty.        *)
LEMMA EraseLost ==
  ASSUME TypeOK, TypeOK', Control, Whole, ~torn', pc = "erase", cells' \in {cells, Erased},
         WriteReturns(entry.err), used' = StillTold, UNCHANGED queue
  PROVE  Whole'
<1>1. queue = {} /\ queue' = {} /\ Held = OnPage
  BY DEF Whole, Ordered, Held, InSram
<1>2. Solid' /\ OnPage' \in {OnPage, {}}
  <2>1. CASE UNCHANGED cells
    BY <2>1, PageSame DEF Whole
  <2>2. CASE cells' = Erased
    BY <2>2, Renewed
  <2> QED  BY <2>1, <2>2
<1>3. /\ OnPage' \subseteq Held
      /\ \A e \in Held \ OnPage', f \in OnPage' :
           f.slot = e.slot => ReplayOrder[f.type] < ReplayOrder[e.type]
  BY <1>1, <1>2
<1> QED  BY <1>1, <1>2, <1>3, LossWhole DEF WriteReturns

(* A replay stops with some of the queue on the page: the entries that come *)
(* first.                                                                  *)
LEMMA ReplayLost ==
  ASSUME TypeOK, TypeOK', Control, Whole, ~torn', pc = "replay", NEW to \in {"idle", entry.err},
         Go(to, cmd), used' = StillTold, queue' = {},
         \/ UNCHANGED cells
         \/ ~Full /\ \E left \in {Blank, Noise} : cells' = [cells EXCEPT ![End] = left]
         \/ ~Full /\ \E p \in Foremost : cells' = [cells EXCEPT ![End] = p.what]
  PROVE  Whole'
<1>1. /\ \A q, r \in queue : q.what.slot = r.what.slot => q.seen = r.seen
      /\ \A q \in queue, e \in OnPage : e.slot = q.what.slot =>
           ReplayOrder[e.type] < ReplayOrder[q.what.type]
      /\ queue \subseteq [seen : Index, what : Entries]
  BY DEF Whole, Ordered, TypeOK
<1> DEFINE First == /\ Solid' /\ OnPage' \subseteq Held
                    /\ \A e \in Held \ OnPage', f \in OnPage' :
                         f.slot = e.slot => ReplayOrder[f.type] < ReplayOrder[e.type]
<1>2. ASSUME Solid' /\ OnPage' = OnPage PROVE First
  BY <1>1, <1>2 DEF Held, InSram
<1>3. ASSUME ~Full, NEW p \in Foremost, cells' = [cells EXCEPT ![End] = p.what] PROVE First
  <2>1. p \in queue /\ p.what \in Entries /\ \A q \in queue \ {p} : Precedes(p, q)
    BY <1>1 DEF Foremost
  <2>2. Solid' /\ OnPage' = OnPage \cup {p.what}
    BY <1>3, <2>1, Appended DEF Whole
  <2>3. ASSUME NEW q \in queue \ {p}, p.what.slot = q.what.slot
        PROVE  ReplayOrder[p.what.type] < ReplayOrder[q.what.type]
    <3>1. p.seen = q.seen /\ p.seen \in Nat
      BY <1>1, <2>1, <2>3, LogAssumption DEF Index
    <3> QED  BY <2>1, <3>1 DEF Precedes
  <2>4. Held \ OnPage' \subseteq {q.what : q \in queue \ {p}}
    BY <2>2 DEF Held, InSram
  <2>5. OnPage' \subseteq Held
    BY <2>1, <2>2 DEF Held, InSram
  <2>6. ASSUME NEW e \in Held \ OnPage', NEW f \in OnPage', f.slot = e.slot
        PROVE  ReplayOrder[f.type] < ReplayOrder[e.type]
    <3>1. PICK q \in queue \ {p} : e = q.what
      BY <2>4
    <3>2. f \in OnPage \/ f = p.what
      BY <2>2
    <3> QED  BY <1>1, <2>3, <2>6, <3>1, <3>2
  <2> QED  BY <2>2, <2>5, <2>6
<1>4. First
  <2> HIDE DEF First
  <2> QED  BY <1>2, <1>3, PageSame DEF Whole
<1> QED  BY <1>4, LossWhole

(* Every step of a compaction.                                             *)
LEMMA CompactWhole ==
  ASSUME TypeOK, TypeOK', Control, Whole, ~torn', CompactErase \/ CompactReplay
  PROVE  Whole'
<1>1. CASE CompactErase
  <2>1. CASE cells' = Erased /\ queue' = Projection /\ pc' = "replay" /\ UNCHANGED <<cmd, entry, used>>
    BY <1>1, <2>1, EraseWhole DEF CompactErase
  <2>2. CASE /\ UNCHANGED cells \/ cells' = Erased
             /\ WriteReturns(entry.err) /\ used' = StillTold /\ UNCHANGED queue
    BY <1>1, <2>2, EraseLost DEF CompactErase
  <2> QED  BY <1>1, <2>1, <2>2 DEF CompactErase
<1>2. CASE CompactReplay
  <2>0. pc = "replay"
    BY <1>2 DEF CompactReplay
  <2>1. ASSUME NEW p \in Foremost, ~Full, cells' = [cells EXCEPT ![End] = p.what],
               queue' = queue \ {p}, UNCHANGED <<pc, cmd, entry, used>>
        PROVE  Whole'
    BY <2>0, <2>1, ReplayWhole
  <2>2. ASSUME NEW p \in Foremost,
               \/ UNCHANGED cells
               \/ ~Full /\ \E left \in {Blank, Noise, p.what} : cells' = [cells EXCEPT ![End] = left],
               queue' = {}, WriteReturns(entry.err), used' = StillTold
        PROVE  Whole'
    <3>1. \/ UNCHANGED cells
          \/ ~Full /\ \E left \in {Blank, Noise} : cells' = [cells EXCEPT ![End] = left]
          \/ ~Full /\ \E q \in Foremost : cells' = [cells EXCEPT ![End] = q.what]
      BY <2>2
    <3> QED  BY <2>0, <2>2, <3>1, ReplayLost DEF WriteReturns
  <2>3. CASE queue = {} /\ pc' = "program" /\ UNCHANGED <<cells, queue, cmd, entry, used>>
    <3>1. /\ Held' = Held /\ Solid' /\ Blanks' = Blanks /\ OnPage' = OnPage
      BY <2>3, PageKept DEF Whole
    <3>2. Ordered'
      BY <2>3, <3>1, QueueKept DEF Whole
    <3>3. Cardinality(Blanks') > Cardinality(queue')
      BY <2>0, <2>3, <3>1 DEF Whole, Room
    <3>4. SameTops(Held, Held')
      BY <3>1 DEF SameTops
    <3> QED  BY <2>0, <2>3, <3>1, <3>2, <3>3, <3>4, OnTheWay DEF Writing
  <2> QED  BY <1>2, <2>1, <2>2, <2>3 DEF CompactReplay
<1> QED  BY <1>1, <1>2

(* A write goes on to heal the page only if there is no entry on it.        *)
LEMMA ProgramWhole ==
  ASSUME TypeOK, TypeOK', Control, Whole, Program
  PROVE  Whole'
<1>1. /\ pc = "program" /\ UNCHANGED <<queue, used>> /\ queue = {}
      /\ entry.what \in Entries
  BY DEF Program, Whole, Ordered, Control, Writing
<1>2. Held = OnPage /\ Held' = OnPage'
  BY <1>1 DEF Held, InSram
<1>3. /\ Solid' /\ (Held' = Held \/ Held' = Held \cup {entry.what})
  <2>1. CASE UNCHANGED cells \/ (~Full /\ \E left \in {Blank, Noise} : cells' = [cells EXCEPT ![End] = left])
    BY <1>2, <2>1, PageSame DEF Whole
  <2>2. CASE ~Full /\ cells' = [cells EXCEPT ![End] = entry.what]
    BY <1>1, <1>2, <2>2, Appended DEF Whole
  <2> QED  BY <2>1, <2>2 DEF Program
<1>4. CASE \E e \in {entry.what} : WriteReturns(LandsAs(e))
  BY <1>1, <1>3, <1>4, LandsSomewhere, ReturnWhole
<1>5. CASE WriteReturns(entry.err)
  BY <1>1, <1>3, <1>5, ReturnWhole
<1>6. CASE ~HasLiveEntries' /\ pc' = "heal" /\ UNCHANGED <<cmd, entry>>
  <2>1. OnPage' = {}
    <3>1. OnPage' \subseteq Entries
      <4>1. \A i \in Index : cells'[i] \in Entries \cup {Blank, Noise}
        BY DEF TypeOK
      <4> QED  BY <4>1 DEF OnPage
    <3>2. \A e \in OnPage' : \E i \in Index : cells'[i].slot = e.slot
      BY DEF OnPage
    <3>3. \A s \in Slots : ~\E i \in Index : cells'[i].slot = s
      BY <1>6 DEF HasLiveEntries, HeldBy
    <3> QED  BY <3>1, <3>2, <3>3 DEF Entries
  <2>2. Held' = Held
    BY <1>2, <1>3, <2>1
  <2>3. Ordered'
    BY <1>1, <1>6, <2>1, QueueKept DEF Whole
  <2>4. SameTops(Held, Held')
    BY <2>2 DEF SameTops
  <2> QED  BY <1>1, <1>3, <1>6, <2>2, <2>3, <2>4, OnTheWay DEF Writing
<1> QED  BY <1>4, <1>5, <1>6 DEF Program

(* The page is erased and written once more: nothing was on it.            *)
LEMMA HealWhole ==
  ASSUME TypeOK, Control, Whole, Heal
  PROVE  Whole'
<1>1. /\ pc = "heal" /\ UNCHANGED <<queue, used>> /\ queue = {} /\ OnPage = {}
      /\ entry.what \in Entries
  BY DEF Heal, Whole, Ordered, Control, Writing
<1>2. Held = {} /\ Held' = OnPage'
  BY <1>1 DEF Held, InSram
<1>3. CASE \E e \in {entry.what} : cells' = [Erased EXCEPT ![0] = e] /\ WriteReturns(LandsAs(e))
  <2>1. Solid' /\ OnPage' = {entry.what}
    BY <1>1, <1>3, Renewed
  <2>2. Held' = Held \cup {entry.what}
    BY <1>2, <2>1
  <2>3. PICK to \in {entry.ok, entry.err} : WriteReturns(to)
    BY <1>3, LandsSomewhere
  <2> QED  BY <1>1, <2>1, <2>2, <2>3, ReturnWhole
<1>4. CASE cells' \in {cells, Erased} /\ WriteReturns(entry.err)
  <2>1. Solid' /\ OnPage' = {}
    <3>1. CASE UNCHANGED cells
      BY <1>1, <3>1, PageSame DEF Whole
    <3>2. CASE cells' = Erased
      BY <3>2, Renewed
    <3> QED  BY <1>4, <3>1, <3>2
  <2> QED  BY <1>1, <1>2, <1>4, <2>1, ReturnWhole
<1> QED  BY <1>3, <1>4 DEF Heal

(* Power fails anywhere but inside an erase.                                *)
LEMMA PowerCutWhole ==
  ASSUME TypeOK, TypeOK', Control, Whole, ~torn', PowerCut
  PROVE  Whole'
<1>1. /\ Go("idle", cmd) /\ pc' = "idle" /\ queue' = {}
      /\ UNCHANGED cells \/ (pc \in {"program", "replay"} /\ ~Full /\ cells' = [cells EXCEPT ![End] = Noise])
  BY DEF PowerCut, Go, TornProgram, TornErase
<1>2. Solid' /\ OnPage' = OnPage
  BY <1>1, PageSame DEF Whole
<1>3. CASE pc \in {"erase", "replay"}
  <2>1. used' = StillTold
    BY <1>3 DEF PowerCut
  <2>2. CASE pc = "replay"
    BY <1>1, <2>1, <2>2, ReplayLost
  <2>3. CASE pc = "erase"
    <3>1. OnPage' \subseteq Held /\ Held \ OnPage' = {}
      BY <1>2, <2>3 DEF Whole, Ordered, Held, InSram
    <3> QED  BY <1>1, <1>2, <2>1, <2>3, <3>1, LossWhole
  <2> QED  BY <1>3, <2>2, <2>3
<1>4. CASE pc \notin {"erase", "replay"}
  <2>1. UNCHANGED used /\ queue = {} /\ Held' = Held
    BY <1>1, <1>2, <1>4 DEF PowerCut, Whole, Ordered, Held, InSram
  <2>2. Accounts'
    BY <2>1 DEF Whole, Accounts
  <2>3. Ordered' /\ Holding'
    BY <1>1 DEF Ordered, Holding, Holds, Writing
  <2>4. Room'
    BY <1>1, <2>1 DEF Whole, Room, Writing
  <2> QED  BY <1>2, <2>2, <2>3, <2>4 DEF Whole
<1> QED  BY <1>3, <1>4

(* While no erase has been torn every step keeps the record whole.          *)
LEMMA WholeStep ==
  ASSUME TypeOK, TypeOK', Control, Counted, ~torn => Whole, [Next]_vars
  PROVE  ~torn' => Whole'
<1> SUFFICES ASSUME ~torn' PROVE Whole'
  OBVIOUS
<1>1. ~torn
  BY Zenon DEF Next, Request, SignOffchain, SignUserOp, Sync, OffchainGate, OffchainBump,
     CommitRegister, CommitLast, CommitSigs, Release, Cancel, LogStep, CompactErase,
     CompactReplay, Program, Heal, PowerCut, TornProgram, TornErase, CmdFrame, power, vars
<1>2. Whole
  BY <1>1
<1>3. CASE Commanded
  BY <1>2, <1>3, CommandWhole
<1>4. CASE Release
  BY <1>2, <1>4, ReleaseWhole
<1>5. CASE LogStep
  BY <1>2, <1>5, CompactWhole, ProgramWhole, HealWhole DEF LogStep
<1>6. CASE PowerCut
  BY <1>2, <1>6, PowerCutWhole
<1>7. CASE UNCHANGED vars
  <2>1. UNCHANGED <<cells, queue, pc, cmd, entry, used>>
    BY <1>7 DEF vars
  <2>2. Held' = Held /\ OnPage' = OnPage /\ Blanks' = Blanks /\ Solid'
    BY <1>2, <2>1, PageKept DEF Whole
  <2> QED  BY <1>2, <2>1, <2>2 DEF Whole, Ordered, Accounts, Holding, Room
<1> QED  BY <1>3, <1>4, <1>5, <1>6, <1>7 DEF Next, Commanded

-----------------------------------------------------------------------------
(* Theorems.                                                                *)

(* The record is empty, and nothing was released.                          *)
LEMMA WholeInit ==
  Init => Whole
<1> SUFFICES ASSUME Init PROVE Whole
  OBVIOUS
<1>1. cells = Erased /\ pc = "idle" /\ queue = {} /\ used = [s \in Slots |-> NoneUsed]
  BY DEF Init
<1>2. Held = {}
  BY <1>1 DEF Held, OnPage, InSram, Erased
<1>3. MaxUses \in Nat /\ MaxGap \in Nat /\ MaxDistinct \in Nat
  BY LogAssumption
<1>4. \A s \in Slots : /\ Top({}, s, "sigs") = 0 /\ Top({}, s, "count") = 0
                       /\ Top({}, s, "userop") = 0 /\ TopOff({}, s) = 0
  <2>1. \A s, t : Top({}, s, t) = 0
    BY TopIs DEF Of
  <2> QED  BY <2>1 DEF TopOff, Greater
<1>5. Sound(Held)
  BY <1>2, <1>3, <1>4 DEF Sound
<1>6. Covers(Held, used)
  BY <1>1, <1>2, <1>4 DEF Covers, NoneUsed
<1>7. Room
  <2>1. Known({}) = {}
    BY DEF Known, Has
  <2>2. Cardinality(Known(Held)) = 0
    BY <1>2, <2>1, FS_EmptySet
  <2> QED  BY <1>1, <1>3, <2>2 DEF Room, Writing
<1>8. Solid /\ Ordered /\ Holding
  BY <1>1 DEF Solid, Erased, Ordered, Holding, Holds, Writing
<1> QED  BY <1>5, <1>6, <1>7, <1>8 DEF Whole, Accounts

(* The inductive invariant.                                                *)
LEMMA IndInvHolds ==
  Spec => []IndInv
<1>1. Init => IndInv
  BY TypeInit, CountedIs, WholeInit DEF IndInv
<1>2. IndInv /\ [Next]_vars => IndInv'
  <2> SUFFICES ASSUME IndInv, [Next]_vars PROVE IndInv'
    OBVIOUS
  <2>1. TypeOK /\ Control /\ Counted /\ (~torn => Whole)
    BY CountedIs DEF IndInv
  <2>2. TypeOK' /\ Control' /\ Counted'
    BY <2>1, TypeStep
  <2>3. CountedBeforeRelease'
    BY <2>2, CountedIs, PTL
  <2>4. ~torn' => Whole'
    BY <2>1, <2>2, WholeStep
  <2> QED  BY <2>2, <2>3, <2>4 DEF IndInv
<1> QED  BY <1>1, <1>2, PTL DEF Spec

(* Every variable keeps its type, and no count passes MaxUses.              *)
THEOREM TypeCorrect ==
  Spec => []TypeOK
<1>1. IndInv => TypeOK
  BY DEF IndInv
<1> QED  BY <1>1, IndInvHolds, PTL

(* No signature leaves the device before both scans find its count on the   *)
(* page, whatever the page looks like: after failed writes, unfinished      *)
(* compactions and torn erases too.                                        *)
THEOREM CountedFirst ==
  Spec => []CountedBeforeRelease
<1>1. IndInv => CountedBeforeRelease
  BY DEF IndInv
<1> QED  BY <1>1, IndInvHolds, PTL

(* A slot key signs at most MaxUses times, UserOps and off-chain messages   *)
(* together, at every moment and also in the middle of a compaction.        *)
THEOREM WithinBudget ==
  Spec => []Budget
<1>1. IndInv => Budget
  <2> SUFFICES ASSUME IndInv, ~torn, NEW s \in Slots PROVE used[s].op + used[s].off <= MaxUses
    BY DEF Budget
  <2>1. Held \subseteq Entries
    BY PageHoldsEntries DEF IndInv
  <2>2. /\ used[s].op <= Top(Held, s, "sigs") /\ used[s].off <= TopOff(Held, s)
        /\ Top(Held, s, "sigs") + TopOff(Held, s) <= MaxUses
    BY DEF IndInv, Whole, Accounts, Sound, Covers
  <2>3. Top(Held, s, "sigs") \in Nat /\ TopOff(Held, s) \in Nat /\ MaxUses \in Nat
        /\ used[s].op \in Nat /\ used[s].off \in Nat
    BY <2>1, TopTyped, LogAssumption DEF IndInv, TypeOK
  <2> QED  BY <2>2, <2>3
<1> QED  BY <1>1, IndInvHolds, PTL

(* A slot that reads as registered reads at least as many UserOps and       *)
(* off-chain messages as have left the device under its key.                *)
THEOREM TallyNeverBehind ==
  Spec => []TallyCovers
<1>1. IndInv => TallyCovers
  <2> SUFFICES ASSUME IndInv, NEW s \in Slots, ~torn, ~Compacting
               PROVE  used[s].op <= Read(s, "sigs") /\ used[s].off <= Effective(s)
    BY DEF TallyCovers
  <2>1. TypeOK /\ Whole /\ queue = {} /\ Covers(Held, used)
    BY DEF IndInv, Whole, Ordered, Compacting, Accounts
  <2> QED  BY <2>1, SlotReads
<1> QED  BY <1>1, IndInvHolds, PTL

(* The local count of off-chain messages is never more than MaxGap ahead of *)
(* the count last published.                                               *)
THEOREM GapNeverWider ==
  Spec => []GapBound
<1>1. IndInv => GapBound
  <2> SUFFICES ASSUME IndInv, NEW s \in Slots, ~torn, ~Compacting
               PROVE  Read(s, "count") <= Read(s, "userop") + MaxGap
    BY DEF GapBound
  <2>1. TypeOK /\ Whole /\ queue = {}
    BY DEF IndInv, Whole, Ordered, Compacting
  <2> QED  BY <2>1, SlotReads
<1> QED  BY <1>1, IndInvHolds, PTL

(* A compaction finds room for all it writes back and for the entry that    *)
(* asked for it: three entries a slot, and MaxDistinct slots, are fewer     *)
(* than the quad-words of the page.                                        *)
THEOREM AlwaysRoom ==
  Spec => []NeverWedged
<1>1. IndInv => NeverWedged
  BY DEF IndInv, Whole, Room, NeverWedged
<1> QED  BY <1>1, IndInvHolds, PTL
=============================================================================
