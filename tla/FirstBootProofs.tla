--------------------------- MODULE FirstBootProofs ---------------------------
(***************************************************************************)
(* Recoverable, ReadyIsFinal and ImplementsCeremony hold for a page of any  *)
(* size and for any number of cuts, resets and failing operations.          *)
(***************************************************************************)
EXTENDS FirstBootProperties, TLAPS

-----------------------------------------------------------------------------
(* The inductive invariant.                                                 *)

BhkPoints == {"establish", "eraseBhk", "drawBhk", "programBhk", "lockBhk", "markBhk"}
Scp03Points == {"rotateScp03", "confirmScp03", "markScp03"}
AdminPoints == {"probeAdmin", "writeAdmin", "markAdmin"}
SaltPoints == {"saltLow", "saltHigh", "saltHeader"}
PbsPoints == {"rotatePbs", "confirmPbs", "markPbs"}
Underway ==
  BhkPoints \cup Scp03Points \cup AdminPoints \cup SaltPoints \cup PbsPoints
    \cup {"useSalt", "drawSalt", "markAll"}
Points == Underway \cup {"off", "halt", "bhkBlock", "resume", "ready", "shipCheck", "confirm"}

OneSalt(j) ==
  \A i, k \in 1..Len(j) : SaltAt(j, i) /\ SaltAt(j, k) => i = k /\ j[i].of > Half

(* What the flash holds: markers in order, a salt only after the admin      *)
(* marker, never two salts.                                                 *)
Ordered ==
  /\ Done(Scp03) => Done(Bhk)
  /\ Done(Admin) => Done(Scp03)
  /\ Done(Pbs) => Done(Admin) /\ StoredSalt # None
  /\ Done(All) => Done(Pbs)
  /\ StoredSalt # None => Done(Admin)
  /\ OneSalt(journal)

(* What the journal says of page 126 and of the chips.                      *)
Rooted ==
  /\ Done(Bhk) => locked /\ page126 > Half /\ tamp \in {None, page126}
  /\ scp03 # Transport => Done(Bhk) /\ scp03 = page126
  /\ admin # Transport => scp03 # Transport /\ admin \in {None, page126}
  /\ e140 # Transport => StoredSalt # None /\ e140 = StoredSalt
  /\ Done(Scp03) => scp03 # Transport
  /\ Done(Admin) => admin \notin {None, Transport}
  /\ Done(Pbs) => e140 # Transport

(* What control has established.                                            *)
Loaded == Done(Bhk) /\ tamp = page126
Reached ==
  /\ pc \in Underway \cup {"resume"} => locked
  /\ pc \in {"shipCheck", "confirm"} => ~locked
  /\ pc \in BhkPoints => ~Done(Bhk) /\ salt = StoredSalt
  /\ pc = "programBhk" => drawn > Half
  /\ pc \in {"lockBhk", "markBhk"} => page126 > Half
  /\ pc = "markBhk" => tamp = page126
  /\ pc \in Scp03Points => Loaded /\ salt = StoredSalt
  /\ pc = "markScp03" => scp03 = tamp
  /\ pc \in AdminPoints => Loaded /\ Done(Scp03) /\ salt = StoredSalt
  /\ pc = "writeAdmin" => admin = None
  /\ pc = "markAdmin" => admin = tamp
  /\ pc \in {"useSalt", "drawSalt"} => Loaded /\ Done(Admin) /\ salt = StoredSalt
  /\ pc = "drawSalt" => salt = None
  /\ pc \in SaltPoints => Loaded /\ Done(Admin) /\ salt > Half /\ StoredSalt = None
  /\ pc = "saltHigh" => Len(journal) > 0 /\ journal[Len(journal)] = Word("low", salt)
  /\ pc = "saltHeader" =>
       /\ Len(journal) > 1 /\ journal[Len(journal)] = Word("high", salt)
       /\ journal[Len(journal) - 1] = Word("low", salt)
  /\ pc \in PbsPoints => Loaded /\ Done(Admin) /\ salt = StoredSalt /\ salt # None
  /\ pc = "markPbs" => e140 = salt
  /\ pc = "markAll" => Loaded /\ Done(Pbs) /\ salt = StoredSalt
  /\ pc \in {"bhkBlock", "ready"} => locked /\ Done(All)
  /\ pc = "ready" => Loaded

IndInv ==
  TypeOK /\ pc \in Points /\ drawn >= Half /\ Ordered /\ Rooted /\ Reached
-----------------------------------------------------------------------------
(* The journal under one append.                                            *)

LEMMA WordsAre ==
  /\ \A k \in Kinds, x \in Nat : Word(k, x) \in Words
  /\ \A k, x : Word(k, x).kind = k /\ Word(k, x).of = x
  /\ \A w \in Words : w = Word(w.kind, w.of) /\ w.of \in Nat
  BY DEF Word, Words, Kinds

LEMMA MarkedAfter ==
  ASSUME NEW j \in Seq(Words), NEW w \in Words, NEW s
  PROVE  Marked(Append(j, w), s) <=> Marked(j, s) \/ w = Word("step", s)
<1> DEFINE l == Append(j, w)
           n == Len(j) + 1
<1>1. Len(l) = n /\ l[n] = w /\ \A i \in 1..Len(j) : l[i] = j[i] OBVIOUS
<1>2. 1..Len(l) = 1..Len(j) \cup {n} BY <1>1
<1> HIDE DEF l, n
<1> QED BY <1>1, <1>2 DEF Marked, l

LEMMA SaltAfter ==
  ASSUME NEW j \in Seq(Words), NEW w \in Words, NEW i
  PROVE  SaltAt(Append(j, w), i) <=>
           \/ SaltAt(j, i)
           \/ /\ i = Len(j) + 1 /\ Len(j) > 1 /\ w.kind = "header"
              /\ j[Len(j)] = Word("high", w.of) /\ j[Len(j) - 1] = Word("low", w.of)
  BY DEF SaltAt

(* SaltOf, where there is none and where there is one.                      *)
LEMMA SaltNone ==
  ASSUME NEW j \in Seq(Words), \A i \in 1..Len(j) : ~SaltAt(j, i)
  PROVE  SaltOf(j) = None
  BY DEF SaltOf

LEMMA SaltIs ==
  ASSUME NEW j \in Seq(Words), OneSalt(j), NEW i \in 1..Len(j), SaltAt(j, i)
  PROVE  SaltOf(j) = j[i].of
<1> DEFINE P(c) == SaltAt(j, c) /\ \A k \in 1..Len(j) : SaltAt(j, k) => k <= c
<1>1. P(i) BY DEF OneSalt
<1>2. \A c \in 1..Len(j) : P(c) => c = i BY DEF OneSalt
<1>3. (CHOOSE c \in 1..Len(j) : P(c)) = i BY <1>1, <1>2
<1> QED BY <1>3 DEF SaltOf

LEMMA SaltType ==
  ASSUME NEW j \in Seq(Words), OneSalt(j)
  PROVE  /\ SaltOf(j) \in Nat
         /\ SaltOf(j) = None <=> \A i \in 1..Len(j) : ~SaltAt(j, i)
         /\ SaltOf(j) # None => SaltOf(j) > Half
<1>1. CASE \A i \in 1..Len(j) : ~SaltAt(j, i)
  BY <1>1, SaltNone DEF None, Half
<1>2. CASE \E i \in 1..Len(j) : SaltAt(j, i)
  <2> PICK i \in 1..Len(j) : SaltAt(j, i) BY <1>2
  <2>1. SaltOf(j) = j[i].of BY SaltIs
  <2>2. j[i] \in Words OBVIOUS
  <2>3. j[i].of \in Nat /\ j[i].of > Half BY <2>2, WordsAre DEF OneSalt
  <2> QED BY <2>1, <2>3, <1>2 DEF None, Half
<1> QED BY <1>1, <1>2

LEMMA SaltKept ==
  ASSUME NEW j \in Seq(Words), OneSalt(j), NEW w \in Words, w.kind # "header"
  PROVE  OneSalt(Append(j, w)) /\ SaltOf(Append(j, w)) = SaltOf(j)
<1> DEFINE l == Append(j, w)
<1>1. l \in Seq(Words) /\ Len(l) = Len(j) + 1 /\ \A i \in 1..Len(j) : l[i] = j[i] OBVIOUS
<1>2. \A i : SaltAt(l, i) <=> SaltAt(j, i) BY SaltAfter
<1>3. \A i : SaltAt(j, i) => i \in 1..Len(j) BY DEF SaltAt
<1>4. OneSalt(l) BY <1>1, <1>2, <1>3 DEF OneSalt
<1>5. CASE \A i \in 1..Len(j) : ~SaltAt(j, i)
  <2>1. \A i \in 1..Len(l) : ~SaltAt(l, i) BY <1>2, <1>3, <1>5
  <2> QED BY <2>1, <1>1, <1>4, <1>5, SaltNone
<1>6. CASE \E i \in 1..Len(j) : SaltAt(j, i)
  <2> PICK i \in 1..Len(j) : SaltAt(j, i) BY <1>6
  <2>1. SaltOf(j) = j[i].of BY SaltIs
  <2>2. SaltAt(l, i) /\ i \in 1..Len(l) BY <1>1, <1>2
  <2>3. SaltOf(l) = l[i].of BY <1>1, <1>4, <2>2, SaltIs
  <2> QED BY <2>1, <2>3, <1>1, <1>4
<1> QED BY <1>5, <1>6

LEMMA SaltCommitted ==
  ASSUME NEW j \in Seq(Words), OneSalt(j), SaltOf(j) = None, NEW x \in Nat, x > Half,
         Len(j) > 1, j[Len(j)] = Word("high", x), j[Len(j) - 1] = Word("low", x)
  PROVE  OneSalt(Append(j, Word("header", x))) /\ SaltOf(Append(j, Word("header", x))) = x
<1> DEFINE w == Word("header", x)
           l == Append(j, w)
           n == Len(j) + 1
<1>1. w \in Words /\ w.kind = "header" /\ w.of = x BY WordsAre DEF Kinds
<1>2. l \in Seq(Words) /\ Len(l) = n /\ l[n] = w BY <1>1
<1>3. \A i \in 1..Len(j) : ~SaltAt(j, i) BY SaltType
<1>4. \A i : SaltAt(j, i) => i \in 1..Len(j) BY DEF SaltAt
<1>5. \A i : SaltAt(l, i) <=> i = n BY <1>1, <1>3, <1>4, SaltAfter
<1>6. OneSalt(l) BY <1>1, <1>2, <1>5 DEF OneSalt
<1>7. n \in 1..Len(l) /\ SaltAt(l, n) BY <1>2, <1>5
<1>8. SaltOf(l) = l[n].of BY <1>2, <1>6, <1>7, SaltIs
<1> QED BY <1>1, <1>2, <1>6, <1>8

(* Where Continue leads.                                                    *)
LEMMA LeastIs ==
  ASSUME NEW S \in SUBSET (1..5), NEW m \in S, \A n \in S : m <= n
  PROVE  (CHOOSE n \in S : \A k \in S : n <= k) = m
<1>1. \A n \in S : (\A k \in S : n <= k) => n = m OBVIOUS
<1> QED BY <1>1

LEMMA ContinueAt ==
  ASSUME NEW step \in 0..5, NEW m \in 1..5, m > step, ~Done(m),
         \A n \in 1..5 : n > step /\ n < m => Done(n)
  PROVE  Continue(step) = Entry[m]
<1> DEFINE left == {n \in Bhk..All : n > step /\ ~Done(n)}
<1>1. left \in SUBSET (1..5) /\ m \in left BY DEF Bhk, All
<1>2. \A n \in left : m <= n BY DEF Bhk, All
<1>3. (CHOOSE n \in left : \A k \in left : n <= k) = m BY <1>1, <1>2, LeastIs
<1> HIDE DEF left
<1>4. left # {} BY <1>1
<1> QED BY <1>3, <1>4 DEF Continue, left

LEMMA ContinueDone ==
  ASSUME NEW step \in 0..5, \A n \in 1..5 : n > step => Done(n)
  PROVE  Continue(step) = "ready"
  BY DEF Continue, Bhk, All

-----------------------------------------------------------------------------
(* What a step leaves of the journal's meaning.                             *)

Kept ==
  /\ (Done(Bhk)' <=> Done(Bhk)) /\ (Done(Scp03)' <=> Done(Scp03)) /\ (Done(Admin)' <=> Done(Admin))
  /\ (Done(Pbs)' <=> Done(Pbs)) /\ (Done(All)' <=> Done(All))
  /\ StoredSalt' = StoredSalt /\ OneSalt(journal)'

LEMMA KeptSame ==
  ASSUME OneSalt(journal), journal' = journal
  PROVE  Kept
  BY DEF Kept, Done, StoredSalt

LEMMA KeptNoted ==
  ASSUME TypeOK, OneSalt(journal), NEW k \in {"low", "high", "noise"}, NEW x \in Nat,
         journal' = Append(journal, Word(k, x))
  PROVE  Kept
<1> DEFINE w == Word(k, x)
<1>1. w \in Words /\ w.kind = k BY WordsAre DEF Kinds
<1>2. \A s : w # Word("step", s) BY <1>1, WordsAre
<1>3. journal \in Seq(Words) BY DEF TypeOK
<1>4. \A s : Marked(journal', s) <=> Marked(journal, s) BY <1>1, <1>2, <1>3, MarkedAfter
<1>5. OneSalt(journal') /\ SaltOf(journal') = SaltOf(journal) BY <1>1, <1>3, SaltKept
<1> QED BY <1>4, <1>5 DEF Kept, Done, StoredSalt

LEMMA Stepped ==
  ASSUME TypeOK, OneSalt(journal), NEW step \in 1..5,
         journal' = Append(journal, Word("step", step))
  PROVE  /\ Done(step)' /\ \A n \in 1..5 : n # step => (Done(n)' <=> Done(n))
         /\ StoredSalt' = StoredSalt /\ OneSalt(journal)'
<1> DEFINE w == Word("step", step)
<1>1. w \in Words /\ w.kind = "step" /\ w.of = step BY WordsAre DEF Kinds
<1>2. \A s : w = Word("step", s) <=> s = step BY <1>1, WordsAre
<1>3. journal \in Seq(Words) BY DEF TypeOK
<1>4. \A s : Marked(journal', s) <=> Marked(journal, s) \/ s = step BY <1>1, <1>2, <1>3, MarkedAfter
<1>5. OneSalt(journal') /\ SaltOf(journal') = SaltOf(journal) BY <1>1, <1>3, SaltKept
<1> QED BY <1>4, <1>5 DEF Done, StoredSalt

LEMMA OrderedStays ==
  ASSUME Ordered, Kept
  PROVE  Ordered'
  BY DEF Ordered, Kept

LEMMA AtRest ==
  ASSUME pc' \in {"off", "halt"}
  PROVE  Reached' /\ pc' \in Points
  BY DEF Reached, Points, Underway, BhkPoints, Scp03Points, AdminPoints, SaltPoints, PbsPoints

(* The step Continue names is one whose conditions hold.                    *)
LEMMA Onward ==
  ASSUME NEW step \in 0..5, pc' = Continue(step), Ordered', locked', salt' = StoredSalt',
         Done(Bhk)' => tamp' = page126',
         \A n \in 1..5 : IF n <= step THEN Done(n)' ELSE Done(n)' <=> Done(n)
  PROVE  Reached' /\ pc' \in Points
<1>1. CASE \A n \in 1..5 : n > step => Done(n)
  <2>1. pc' = "ready" BY <1>1, ContinueDone
  <2>2. Done(All)' /\ Done(Bhk)' BY <1>1 DEF Bhk, All
  <2> QED BY <2>1, <2>2 DEF Reached, Loaded, Points, Underway, BhkPoints, Scp03Points, AdminPoints, SaltPoints, PbsPoints
<1>2. ASSUME NEW m \in 1..5, m > step, ~Done(m), \A n \in 1..5 : n > step /\ n < m => Done(n)
      PROVE  Reached' /\ pc' \in Points
  <2>1. pc' = Entry[m] BY <1>2, ContinueAt
  <2>2. ~Done(m)' /\ \A n \in 1..5 : n < m => Done(n)' BY <1>2
  <2>3. CASE m = 1
    <3>1. pc' = "establish" /\ ~Done(Bhk)' BY <2>1, <2>2, <2>3 DEF Entry, Bhk
    <3> QED BY <3>1 DEF Reached, Points, Underway, BhkPoints, Scp03Points, AdminPoints, SaltPoints, PbsPoints
  <2>4. CASE m = 2
    <3>1. pc' = "rotateScp03" /\ Done(Bhk)' BY <2>1, <2>2, <2>4 DEF Entry, Bhk
    <3> QED BY <3>1 DEF Reached, Loaded, Points, Underway, BhkPoints, Scp03Points, AdminPoints, SaltPoints, PbsPoints
  <2>5. CASE m = 3
    <3>1. pc' = "probeAdmin" /\ Done(Bhk)' /\ Done(Scp03)' BY <2>1, <2>2, <2>5 DEF Entry, Bhk, Scp03
    <3> QED BY <3>1 DEF Reached, Loaded, Points, Underway, BhkPoints, Scp03Points, AdminPoints, SaltPoints, PbsPoints
  <2>6. CASE m = 4
    <3>1. pc' = "useSalt" /\ Done(Bhk)' /\ Done(Admin)' BY <2>1, <2>2, <2>6 DEF Entry, Bhk, Admin
    <3> QED BY <3>1 DEF Reached, Loaded, Points, Underway, BhkPoints, Scp03Points, AdminPoints, SaltPoints, PbsPoints
  <2>7. CASE m = 5
    <3>1. pc' = "markAll" /\ Done(Bhk)' /\ Done(Pbs)' BY <2>1, <2>2, <2>7 DEF Entry, Bhk, Pbs
    <3> QED BY <3>1 DEF Reached, Loaded, Points, Underway, BhkPoints, Scp03Points, AdminPoints, SaltPoints, PbsPoints
  <2> QED BY <2>3, <2>4, <2>5, <2>6, <2>7
<1>3. ASSUME ~ \A n \in 1..5 : n > step => Done(n)
      PROVE  \E m \in 1..5 : m > step /\ ~Done(m) /\ \A n \in 1..5 : n > step /\ n < m => Done(n)
  <2> DEFINE D(n) == n > step => Done(n)
  <2>1. ~(D(1) /\ D(2) /\ D(3) /\ D(4) /\ D(5)) BY <1>3
  <2>2. CASE ~D(1) BY <2>2
  <2>3. CASE D(1) /\ ~D(2) BY <2>3
  <2>4. CASE D(1) /\ D(2) /\ ~D(3) BY <2>4
  <2>5. CASE D(1) /\ D(2) /\ D(3) /\ ~D(4) BY <2>5
  <2>6. CASE D(1) /\ D(2) /\ D(3) /\ D(4) /\ ~D(5) BY <2>6
  <2> QED BY <2>1, <2>2, <2>3, <2>4, <2>5, <2>6
<1> QED BY <1>1, <1>2, <1>3

-----------------------------------------------------------------------------
(* One step of the device.                                                  *)

USE DEF Points, Underway, BhkPoints, Scp03Points, AdminPoints, SaltPoints, PbsPoints, None, Transport, Half

LEMMA OneMore ==
  ASSUME TypeOK, CanAppend(1), NEW w \in Words
  PROVE  Append(journal, w) \in Seq(Words) /\ Len(Append(journal, w)) <= PageQws
  BY DEF TypeOK, CanAppend

LEMMA FaultBound ==
  ASSUME TypeOK, Fault
  PROVE  faults' \in 0..MaxFaults /\ pc' = "halt"
  BY FirstBootAssumption DEF TypeOK, Fault, Halt

(* Nothing that survives a cut changes.                                     *)
LEMMA Calm ==
  ASSUME IndInv, UNCHANGED <<locked, page126, journal, scp03, admin, e140>>,
         Done(Bhk) => tamp' \in {None, tamp, page126}
  PROVE  Kept /\ Ordered' /\ Rooted'
<1>1. Kept BY KeptSame DEF IndInv, Ordered
<1>2. Ordered' BY <1>1, OrderedStays DEF IndInv
<1>3. Rooted' BY <1>1 DEF IndInv, Rooted, Kept
<1> QED BY <1>1, <1>2, <1>3

LEMMA Chain ==
  ASSUME IndInv
  PROVE  /\ Done(All) => Done(Pbs) /\ Done(Admin) /\ Done(Scp03) /\ Done(Bhk)
         /\ Done(Admin) => Done(Scp03) /\ Done(Bhk)
         /\ StoredSalt \in Nat /\ (StoredSalt # None => StoredSalt > Half)
         /\ OneSalt(journal) /\ journal \in Seq(Words)
  BY SaltType DEF IndInv, Ordered, TypeOK, StoredSalt

LEMMA PowerOnStep ==
  ASSUME IndInv, PowerOn
  PROVE  IndInv'
<1>1. TypeOK' /\ drawn' >= Half BY DEF IndInv, TypeOK, PowerOn, flash, chips, ram, bounds
<1>2. Kept /\ Ordered' /\ Rooted' BY Calm DEF PowerOn, flash, chips
<1>3. Reached' /\ pc' \in Points BY <1>2 DEF PowerOn, AtBoot, Reached, Kept, flash
<1> QED BY <1>1, <1>2, <1>3 DEF IndInv

LEMMA BhkBlockStep ==
  ASSUME IndInv, BhkBlock
  PROVE  IndInv'
<1>1. TypeOK' /\ drawn' >= Half
  BY FaultBound DEF IndInv, TypeOK, BhkBlock, LoadAndLock, Goto, flash, chips, ram
<1>2. Done(Bhk) => page126 > Half /\ tamp \in {None, page126} BY DEF IndInv, Rooted
<1>3. Kept /\ Ordered' /\ Rooted' BY <1>2, Calm DEF BhkBlock, LoadAndLock, Fault, flash, chips
<1>4. CASE pc' = "halt" BY <1>1, <1>3, <1>4, AtRest DEF IndInv
<1>5. CASE pc' # "halt"
  <2>1. pc' = "ready" /\ tamp' = page126' /\ locked' = locked
    BY <1>5 DEF BhkBlock, LoadAndLock, Goto, Fault, Halt, flash
  <2>2. locked /\ Done(All) /\ Done(Bhk) BY Chain DEF BhkBlock, IndInv, Reached
  <2>3. Reached' /\ pc' \in Points BY <2>1, <2>2, <1>3 DEF Reached, Loaded, Kept
  <2> QED BY <1>1, <1>3, <2>3 DEF IndInv
<1> QED BY <1>4, <1>5

LEMMA ShipCheckStep ==
  ASSUME IndInv, ShipCheck
  PROVE  IndInv'
<1>1. TypeOK' /\ drawn' >= Half BY DEF IndInv, TypeOK, ShipCheck, flash, chips, ram, bounds
<1>2. Kept /\ Ordered' /\ Rooted' BY Calm DEF ShipCheck, flash, chips
<1>3. Reached' /\ pc' \in Points BY DEF IndInv, ShipCheck, Reached, flash
<1> QED BY <1>1, <1>2, <1>3 DEF IndInv

LEMMA LockStep ==
  ASSUME IndInv, Lock
  PROVE  IndInv'
<1>1. TypeOK' /\ drawn' >= Half
  BY FaultBound DEF IndInv, TypeOK, Lock, Goto, chips, ram
<1>2. Kept BY KeptSame DEF IndInv, Ordered, Lock
<1>3. Ordered' BY <1>2, OrderedStays DEF IndInv
<1>4. ~Done(Bhk) BY DEF IndInv, Rooted, Reached, Lock
<1>5. Rooted' BY <1>2, <1>4 DEF IndInv, Rooted, Kept, Lock, chips
<1>6. Reached' /\ pc' \in Points BY AtRest DEF Lock, Goto, Fault, Halt
<1> QED BY <1>1, <1>3, <1>5, <1>6 DEF IndInv

LEMMA DeclineStep ==
  ASSUME IndInv, Decline
  PROVE  IndInv'
<1>1. TypeOK' /\ drawn' >= Half BY DEF IndInv, TypeOK, Decline, flash, chips, ram, bounds
<1>2. Kept /\ Ordered' /\ Rooted' BY Calm DEF Decline, flash, chips
<1>3. Reached' /\ pc' \in Points BY AtRest DEF Decline, Halt
<1> QED BY <1>1, <1>2, <1>3 DEF IndInv

LEMMA ResumeStep ==
  ASSUME IndInv, ResumeCeremony
  PROVE  IndInv'
<1>1. TypeOK' /\ drawn' >= Half
  BY FaultBound, Chain DEF IndInv, TypeOK, ResumeCeremony, LoadAndLock, Attempt, Goto, flash, chips
<1>2. Done(Bhk) => page126 > Half /\ tamp \in {None, page126} BY DEF IndInv, Rooted
<1>3. Kept /\ Ordered' /\ Rooted' BY <1>2, Calm DEF ResumeCeremony, LoadAndLock, Attempt, Fault, flash, chips
<1>4. CASE pc' = "halt" BY <1>1, <1>3, <1>4, AtRest DEF IndInv
<1>5. CASE pc' # "halt"
  <2>1. pc' = Continue(0) /\ salt' = StoredSalt /\ (Done(Bhk) => tamp' = page126')
    BY <1>5 DEF ResumeCeremony, LoadAndLock, Attempt, Goto, Fault, Halt, flash
  <2>2. locked' BY DEF ResumeCeremony, IndInv, Reached, flash
  <2>3. \A n \in 1..5 : IF n <= 0 THEN Done(n)' ELSE Done(n)' <=> Done(n)
    BY DEF ResumeCeremony, flash, Done
  <2>4. Reached' /\ pc' \in Points BY <2>1, <2>2, <2>3, <1>3, Onward DEF Kept
  <2> QED BY <1>1, <1>3, <2>4 DEF IndInv
<1> QED BY <1>4, <1>5

(* The root key: steps without the marker leave Done(Bhk) false, so nothing *)
(* depends on page 126 or the registers.                                    *)
LEMMA Rootless ==
  ASSUME IndInv, ~Done(Bhk), UNCHANGED <<locked, journal, scp03, admin, e140>>
  PROVE  Kept /\ Ordered' /\ Rooted'
<1>1. Kept BY KeptSame DEF IndInv, Ordered
<1>2. Ordered' BY <1>1, OrderedStays DEF IndInv
<1>3. Rooted' BY <1>1 DEF IndInv, Rooted, Kept
<1> QED BY <1>1, <1>2, <1>3

LEMMA EstablishForBhkStep ==
  ASSUME IndInv, EstablishForBhk
  PROVE  IndInv'
<1>1. TypeOK' /\ drawn' >= Half
  BY FaultBound DEF IndInv, TypeOK, EstablishForBhk, Establish, Goto, flash, chips
<1>2. Kept /\ Ordered' /\ Rooted' BY Calm DEF EstablishForBhk, Establish, flash, chips
<1>3. CASE pc' = "halt" BY <1>1, <1>2, <1>3, AtRest DEF IndInv
<1>4. CASE pc' # "halt"
  <2>1. pc' = "eraseBhk" BY <1>4 DEF EstablishForBhk, Establish, Goto, Fault, Halt
  <2>2. Reached' /\ pc' \in Points
    BY <2>1, <1>2 DEF IndInv, Reached, Kept, EstablishForBhk, Establish, flash
  <2> QED BY <1>1, <1>2, <2>2 DEF IndInv
<1> QED BY <1>3, <1>4

LEMMA EraseBhkStep ==
  ASSUME IndInv, EraseBhk
  PROVE  IndInv'
<1>1. TypeOK' /\ drawn' >= Half
  BY FaultBound DEF IndInv, TypeOK, EraseBhk, ErasedPage, Attempt, Goto, chips, ram
<1>2. ~Done(Bhk) /\ locked /\ salt = StoredSalt BY DEF IndInv, Reached, EraseBhk
<1>3. Kept /\ Ordered' /\ Rooted' BY <1>2, Rootless DEF EraseBhk, chips
<1>4. CASE pc' = "halt" BY <1>1, <1>3, <1>4, AtRest DEF IndInv
<1>5. CASE pc' # "halt"
  <2>1. pc' = "drawBhk" BY <1>5 DEF EraseBhk, Attempt, Goto, Fault, Halt
  <2>2. Reached' /\ pc' \in Points BY <2>1, <1>2, <1>3 DEF Reached, Kept, EraseBhk, ram
  <2> QED BY <1>1, <1>3, <2>2 DEF IndInv
<1> QED BY <1>4, <1>5

LEMMA DrawBhkStep ==
  ASSUME IndInv, DrawBhk
  PROVE  IndInv'
<1>1. TypeOK' /\ drawn' >= Half
  BY FaultBound DEF IndInv, TypeOK, DrawBhk, Attempt, Goto, chips, ram
<1>2. ~Done(Bhk) /\ locked /\ salt = StoredSalt BY DEF IndInv, Reached, DrawBhk
<1>3. Kept /\ Ordered' /\ Rooted' BY <1>2, Rootless DEF DrawBhk, chips
<1>4. CASE pc' = "halt" BY <1>1, <1>3, <1>4, AtRest DEF IndInv
<1>5. CASE pc' # "halt"
  <2>1. pc' = "programBhk" /\ drawn' = drawn + 1 BY <1>5 DEF DrawBhk, Attempt, Goto, Fault, Halt
  <2>2. drawn' > Half BY <2>1 DEF IndInv, TypeOK
  <2>3. Reached' /\ pc' \in Points BY <2>1, <2>2, <1>2, <1>3 DEF Reached, Kept, DrawBhk, ram
  <2> QED BY <1>1, <1>3, <2>3 DEF IndInv
<1> QED BY <1>4, <1>5

LEMMA ProgramBhkStep ==
  ASSUME IndInv, ProgramBhk
  PROVE  IndInv'
<1>1. TypeOK' /\ drawn' >= Half
  BY FaultBound DEF IndInv, TypeOK, ProgramBhk, Attempt, Goto, chips, ram
<1>2. ~Done(Bhk) /\ locked /\ salt = StoredSalt /\ drawn > Half BY DEF IndInv, Reached, ProgramBhk
<1>3. Kept /\ Ordered' /\ Rooted' BY <1>2, Rootless DEF ProgramBhk, chips
<1>4. CASE pc' = "halt" BY <1>1, <1>3, <1>4, AtRest DEF IndInv
<1>5. CASE pc' # "halt"
  <2>1. pc' = "lockBhk" /\ page126' = drawn BY <1>5 DEF ProgramBhk, Attempt, Goto, Fault, Halt
  <2>2. Reached' /\ pc' \in Points BY <2>1, <1>2, <1>3 DEF Reached, Kept, ProgramBhk, ram
  <2> QED BY <1>1, <1>3, <2>2 DEF IndInv
<1> QED BY <1>4, <1>5

LEMMA LockBhkStep ==
  ASSUME IndInv, LockBhk
  PROVE  IndInv'
<1>1. TypeOK' /\ drawn' >= Half
  BY FaultBound DEF IndInv, TypeOK, LockBhk, LoadAndLock, Goto, flash, chips, ram
<1>2. ~Done(Bhk) /\ locked /\ salt = StoredSalt /\ page126 > Half BY DEF IndInv, Reached, LockBhk
<1>3. Kept /\ Ordered' /\ Rooted' BY <1>2, Rootless DEF LockBhk, flash, chips
<1>4. CASE pc' = "halt" BY <1>1, <1>3, <1>4, AtRest DEF IndInv
<1>5. CASE pc' # "halt"
  <2>1. pc' = "markBhk" /\ tamp' = page126 BY <1>5 DEF LockBhk, LoadAndLock, Goto, Fault, Halt
  <2>2. Reached' /\ pc' \in Points BY <2>1, <1>2, <1>3 DEF Reached, Kept, LockBhk, flash, ram
  <2> QED BY <1>1, <1>3, <2>2 DEF IndInv
<1> QED BY <1>4, <1>5

(* A marker: what the step has reached is what its marker says, whether the *)
(* word is written, lost or torn.                                           *)
LEMMA MarkStep ==
  ASSUME IndInv, NEW step \in 1..5, CommitStep(step), locked, salt = StoredSalt,
         page126 > Half, tamp = page126,
         \A n \in 1..5 : n < step => Done(n),
         step = Scp03 => scp03 = tamp,
         step = Admin => admin = tamp,
         step = Pbs => e140 = salt /\ salt # None
  PROVE  IndInv'
<1> DEFINE w == Word("step", step)
<1>1. w \in Words /\ Word("noise", None) \in Words BY WordsAre DEF Kinds
<1>2. journal' \in {journal, Append(journal, w), Append(journal, Word("noise", None))}
      /\ (journal' # journal => CanAppend(1))
  BY DEF CommitStep, AppendWord
<1>3. TypeOK' /\ drawn' >= Half
  <2>1. journal' \in Seq(Words) /\ Len(journal') <= PageQws
    BY <1>1, <1>2, OneMore DEF IndInv, TypeOK
  <2> QED BY <2>1, FaultBound DEF IndInv, TypeOK, CommitStep, AppendWord, Goto, chips, ram
<1>4. OneSalt(journal) /\ StoredSalt \in Nat /\ (StoredSalt # None => StoredSalt > Half) BY Chain
<1>5. CASE journal' = Append(journal, w)
  <2>1. /\ Done(step)' /\ \A n \in 1..5 : n # step => (Done(n)' <=> Done(n))
        /\ StoredSalt' = StoredSalt /\ OneSalt(journal)'
    BY <1>4, <1>5, Stepped DEF IndInv
  <2>2. Ordered'
    BY <2>1, SMTT(30) DEF IndInv, Ordered, Bhk, Scp03, Admin, Pbs, All, Rooted
  <2>3. UNCHANGED <<locked, page126, tamp, scp03, admin, e140, salt>> BY DEF CommitStep, chips, ram
  <2>4. Rooted'
    BY <2>1, <2>3, <1>4, SMTT(30) DEF IndInv, Rooted, Bhk, Scp03, Admin, Pbs, All
  <2>5. CASE pc' = "halt" BY <1>3, <2>2, <2>4, <2>5, AtRest DEF IndInv
  <2>6. CASE pc' # "halt"
    <3>1. pc' = Continue(step) BY <2>6 DEF CommitStep, AppendWord, Goto, Fault, Halt
    <3>2. \A n \in 1..5 : IF n <= step THEN Done(n)' ELSE Done(n)' <=> Done(n) BY <2>1
    <3>3. Reached' /\ pc' \in Points BY <2>1, <2>2, <2>3, <3>1, <3>2, Onward
    <3> QED BY <1>3, <2>2, <2>4, <3>3 DEF IndInv
  <2> QED BY <2>5, <2>6
<1>6. CASE journal' # Append(journal, w)
  <2>1. pc' = "halt" BY <1>6 DEF CommitStep, AppendWord, Fault, Halt
  <2>2. Kept BY <1>2, <1>4, <1>6, KeptSame, KeptNoted DEF IndInv
  <2>3. Ordered' BY <2>2, OrderedStays DEF IndInv
  <2>4. Rooted' BY <2>2 DEF IndInv, Rooted, Kept, CommitStep, chips
  <2> QED BY <1>3, <2>1, <2>3, <2>4, AtRest DEF IndInv
<1> QED BY <1>5, <1>6

LEMMA MarkerSteps ==
  ASSUME IndInv, MarkBhk \/ MarkScp03 \/ MarkAdmin \/ MarkPbs \/ MarkAll
  PROVE  IndInv'
<1>1. Loaded => page126 > Half /\ tamp = page126 BY DEF IndInv, Rooted, Loaded
<1>2. CASE MarkBhk
  <2>1. locked /\ salt = StoredSalt /\ page126 > Half /\ tamp = page126
    BY <1>2 DEF MarkBhk, IndInv, Reached
  <2> QED BY <1>2, <2>1, MarkStep DEF MarkBhk, Bhk, Scp03, Admin, Pbs
<1>3. CASE MarkScp03
  <2>1. locked /\ salt = StoredSalt /\ Loaded /\ Done(Bhk) /\ scp03 = tamp
    BY <1>3 DEF MarkScp03, IndInv, Reached, Loaded
  <2>2. \A n \in 1..5 : n < 2 => Done(n) BY <2>1 DEF Bhk
  <2> QED BY <1>1, <1>3, <2>1, <2>2, MarkStep DEF MarkScp03, Scp03, Admin, Pbs
<1>4. CASE MarkAdmin
  <2>1. locked /\ salt = StoredSalt /\ Loaded /\ Done(Bhk) /\ Done(Scp03) /\ admin = tamp
    BY <1>4 DEF MarkAdmin, IndInv, Reached, Loaded
  <2>2. \A n \in 1..5 : n < 3 => Done(n) BY <2>1 DEF Bhk, Scp03
  <2> QED BY <1>1, <1>4, <2>1, <2>2, MarkStep DEF MarkAdmin, Scp03, Admin, Pbs
<1>5. CASE MarkPbs
  <2>1. locked /\ salt = StoredSalt /\ Loaded /\ Done(Admin) /\ e140 = salt /\ salt # None
    BY <1>5 DEF MarkPbs, IndInv, Reached
  <2>2. \A n \in 1..5 : n < 4 => Done(n) BY <2>1, Chain DEF Bhk, Scp03, Admin
  <2> QED BY <1>1, <1>5, <2>1, <2>2, MarkStep DEF MarkPbs, Scp03, Admin, Pbs
<1>6. CASE MarkAll
  <2>1. locked /\ salt = StoredSalt /\ Loaded /\ Done(Pbs)
    BY <1>6 DEF MarkAll, IndInv, Reached
  <2>2. Done(Admin) BY <2>1 DEF IndInv, Ordered
  <2>3. \A n \in 1..5 : n < 5 => Done(n) BY <2>1, <2>2, Chain DEF Bhk, Scp03, Admin, Pbs
  <2> QED BY <1>1, <1>6, <2>1, <2>3, MarkStep DEF MarkAll, Scp03, Admin, Pbs, All
<1> QED BY <1>2, <1>3, <1>4, <1>5, <1>6

(* The chips: what one of them takes is derived from the loaded key, or     *)
(* from the salt the journal holds.                                         *)
LEMMA RotateScp03Step ==
  ASSUME IndInv, RotateScp03
  PROVE  IndInv'
<1>1. TypeOK' /\ drawn' >= Half
  BY FaultBound DEF IndInv, TypeOK, RotateScp03, Attempt, Goto, Halt, flash, ram
<1>2. locked /\ Loaded /\ salt = StoredSalt BY DEF IndInv, Reached, RotateScp03
<1>3. Kept BY KeptSame DEF IndInv, Ordered, RotateScp03, flash
<1>4. Ordered' BY <1>3, OrderedStays DEF IndInv
<1>5. scp03' \in {scp03, tamp} BY DEF RotateScp03, Attempt
<1>6. Rooted' BY <1>2, <1>3, <1>5 DEF IndInv, Rooted, Loaded, Kept, RotateScp03, flash
<1>7. CASE pc' = "halt" BY <1>1, <1>4, <1>6, <1>7, AtRest DEF IndInv
<1>8. CASE pc' # "halt"
  <2>1. pc' = "confirmScp03" \/ (pc' = "markScp03" /\ scp03' = tamp)
    BY <1>8 DEF RotateScp03, Attempt, Goto, Fault, Halt
  <2>2. Reached' /\ pc' \in Points
    BY <2>1, <1>2, <1>3 DEF Reached, Loaded, Kept, RotateScp03, flash, ram
  <2> QED BY <1>1, <1>4, <1>6, <2>2 DEF IndInv
<1> QED BY <1>7, <1>8

LEMMA ConfirmScp03Step ==
  ASSUME IndInv, ConfirmScp03
  PROVE  IndInv'
<1>1. TypeOK' /\ drawn' >= Half
  BY FaultBound DEF IndInv, TypeOK, ConfirmScp03, Confirm, Goto, flash, chips, ram
<1>2. Kept /\ Ordered' /\ Rooted' BY Calm DEF ConfirmScp03, Confirm, flash, chips
<1>3. CASE pc' = "halt" BY <1>1, <1>2, <1>3, AtRest DEF IndInv
<1>4. CASE pc' # "halt"
  <2>1. pc' = "markScp03" /\ scp03 = tamp BY <1>4 DEF ConfirmScp03, Confirm, Goto, Fault, Halt
  <2>2. Reached' /\ pc' \in Points
    BY <2>1, <1>2 DEF IndInv, Reached, Loaded, Kept, ConfirmScp03, Confirm, flash, chips, ram
  <2> QED BY <1>1, <1>2, <2>2 DEF IndInv
<1> QED BY <1>3, <1>4

LEMMA ProbeAdminStep ==
  ASSUME IndInv, ProbeAdmin
  PROVE  IndInv'
<1>1. TypeOK' /\ drawn' >= Half
  BY FaultBound DEF IndInv, TypeOK, ProbeAdmin, Attempt, Goto, Halt, flash, ram
<1>2. locked /\ Loaded /\ Done(Scp03) /\ salt = StoredSalt BY DEF IndInv, Reached, ProbeAdmin
<1>3. Kept BY KeptSame DEF IndInv, Ordered, ProbeAdmin, flash
<1>4. Ordered' BY <1>3, OrderedStays DEF IndInv
<1>5. admin' = admin \/ (admin = Transport /\ admin' = None) BY DEF ProbeAdmin, Attempt
<1>6. Rooted' BY <1>2, <1>3, <1>5 DEF IndInv, Rooted, Loaded, Kept, ProbeAdmin, flash
<1>7. CASE pc' = "halt" BY <1>1, <1>4, <1>6, <1>7, AtRest DEF IndInv
<1>8. CASE pc' # "halt"
  <2>1. (pc' = "writeAdmin" /\ admin' = None) \/ (pc' = "markAdmin" /\ admin' = tamp)
    BY <1>8 DEF ProbeAdmin, Attempt, Goto, Fault, Halt
  <2>2. Reached' /\ pc' \in Points
    BY <2>1, <1>2, <1>3 DEF Reached, Loaded, Kept, ProbeAdmin, flash, ram
  <2> QED BY <1>1, <1>4, <1>6, <2>2 DEF IndInv
<1> QED BY <1>7, <1>8

LEMMA WriteAdminStep ==
  ASSUME IndInv, WriteAdmin
  PROVE  IndInv'
<1>1. TypeOK' /\ drawn' >= Half
  BY FaultBound DEF IndInv, TypeOK, WriteAdmin, Attempt, Goto, flash, ram
<1>2. locked /\ Loaded /\ Done(Scp03) /\ salt = StoredSalt /\ admin = None
  BY DEF IndInv, Reached, WriteAdmin
<1>3. Kept BY KeptSame DEF IndInv, Ordered, WriteAdmin, flash
<1>4. Ordered' BY <1>3, OrderedStays DEF IndInv
<1>5. admin' \in {admin, tamp} BY DEF WriteAdmin, Attempt
<1>6. Rooted' BY <1>2, <1>3, <1>5 DEF IndInv, Rooted, Loaded, Kept, WriteAdmin, flash
<1>7. CASE pc' = "halt" BY <1>1, <1>4, <1>6, <1>7, AtRest DEF IndInv
<1>8. CASE pc' # "halt"
  <2>1. pc' = "markAdmin" /\ admin' = tamp BY <1>8 DEF WriteAdmin, Attempt, Goto, Fault, Halt
  <2>2. Reached' /\ pc' \in Points
    BY <2>1, <1>2, <1>3 DEF Reached, Loaded, Kept, WriteAdmin, flash, ram
  <2> QED BY <1>1, <1>4, <1>6, <2>2 DEF IndInv
<1> QED BY <1>7, <1>8

LEMMA UseSaltStep ==
  ASSUME IndInv, UseSalt
  PROVE  IndInv'
<1>1. TypeOK' /\ drawn' >= Half
  BY FaultBound DEF IndInv, TypeOK, UseSalt, Establish, Goto, flash, chips, ram
<1>2. Kept /\ Ordered' /\ Rooted' BY Calm DEF UseSalt, Establish, flash, chips
<1>3. locked /\ Loaded /\ Done(Admin) /\ salt = StoredSalt BY DEF IndInv, Reached, UseSalt
<1>4. CASE pc' = "halt" BY <1>1, <1>2, <1>4, AtRest DEF IndInv
<1>5. CASE pc' # "halt"
  <2>1. (pc' = "rotatePbs" /\ salt # None) \/ (pc' = "drawSalt" /\ salt = None)
    BY <1>5 DEF UseSalt, HasSalt, Establish, Goto, Fault, Halt
  <2>2. UNCHANGED <<locked, page126, tamp, salt>> BY DEF UseSalt, Establish, flash, ram
  <2>3. Reached' /\ pc' \in Points BY <2>1, <2>2, <1>2, <1>3 DEF Reached, Loaded, Kept
  <2> QED BY <1>1, <1>2, <2>3 DEF IndInv
<1> QED BY <1>4, <1>5

LEMMA DrawSaltStep ==
  ASSUME IndInv, DrawSalt
  PROVE  IndInv'
<1>1. TypeOK' /\ drawn' >= Half
  BY FaultBound DEF IndInv, TypeOK, DrawSalt, Goto, Halt, flash, chips
<1>2. Kept /\ Ordered' /\ Rooted' BY Calm DEF DrawSalt, flash, chips
<1>3. locked /\ Loaded /\ Done(Admin) /\ StoredSalt = None BY DEF IndInv, Reached, DrawSalt
<1>4. CASE pc' = "halt" BY <1>1, <1>2, <1>4, AtRest DEF IndInv
<1>5. CASE pc' # "halt"
  <2>1. pc' = "saltLow" /\ salt' = drawn + 1 BY <1>5 DEF DrawSalt, Goto, Fault, Halt
  <2>2. salt' > Half BY <2>1 DEF IndInv, TypeOK
  <2>3. Reached' /\ pc' \in Points BY <2>1, <2>2, <1>2, <1>3 DEF Reached, Loaded, Kept, DrawSalt, flash
  <2> QED BY <1>1, <1>2, <2>3 DEF IndInv
<1> QED BY <1>4, <1>5

(* A word of the salt record.                                               *)
LEMMA CommitType ==
  ASSUME IndInv, NEW k \in {"low", "high", "header"}, NEW p, CommitSalt(k, p)
  PROVE  /\ TypeOK' /\ drawn' >= Half
         /\ journal' \in {journal, Append(journal, Word(k, salt)), Append(journal, Word("noise", None))}
         /\ UNCHANGED <<locked, page126, tamp, scp03, admin, e140, salt>>
         /\ \/ pc' = "halt"
            \/ pc' = p /\ journal' = Append(journal, Word(k, salt))
<1>1. Word(k, salt) \in Words /\ Word("noise", None) \in Words
  BY WordsAre DEF Kinds, IndInv, TypeOK
<1>2. journal' \in {journal, Append(journal, Word(k, salt)), Append(journal, Word("noise", None))}
      /\ (journal' # journal => CanAppend(1))
  BY DEF CommitSalt, AppendWord
<1>3. journal' \in Seq(Words) /\ Len(journal') <= PageQws
  BY <1>1, <1>2, OneMore DEF IndInv, TypeOK
<1>4. TypeOK' /\ drawn' >= Half
  BY <1>3, FaultBound DEF IndInv, TypeOK, CommitSalt, AppendWord, Goto, chips, ram
<1>5. \/ pc' = "halt"
      \/ pc' = p /\ journal' = Append(journal, Word(k, salt))
  BY DEF CommitSalt, AppendWord, Goto, Fault, Halt
<1> QED BY <1>2, <1>4, <1>5 DEF CommitSalt, chips, ram

(* Its first two words mean nothing yet.                                    *)
LEMMA CommitPart ==
  ASSUME IndInv, NEW k \in {"low", "high"}, NEW p, CommitSalt(k, p)
  PROVE  Kept /\ Ordered' /\ Rooted'
<1>1. OneSalt(journal) BY Chain
<1>2. salt \in Nat BY DEF IndInv, TypeOK
<1>3. Kept BY <1>1, <1>2, CommitType, KeptSame, KeptNoted DEF IndInv
<1>4. Ordered' BY <1>3, OrderedStays DEF IndInv
<1>5. Rooted' BY <1>3, CommitType DEF IndInv, Rooted, Kept
<1> QED BY <1>3, <1>4, <1>5

LEMMA SaltLowStep ==
  ASSUME IndInv, SaltLow
  PROVE  IndInv'
<1>1. CommitSalt("low", "saltHigh") BY DEF SaltLow
<1>2. Kept /\ Ordered' /\ Rooted' BY <1>1, CommitPart
<1>3. locked /\ Loaded /\ Done(Admin) /\ salt > Half /\ StoredSalt = None
  BY DEF IndInv, Reached, SaltLow
<1>4. CASE pc' = "halt" BY <1>1, <1>2, <1>4, AtRest, CommitType DEF IndInv
<1>5. CASE pc' # "halt"
  <2>1. pc' = "saltHigh" /\ journal' = Append(journal, Word("low", salt)) BY <1>1, <1>5, CommitType
  <2>2. UNCHANGED <<locked, page126, tamp, salt>> BY <1>1, CommitType
  <2>3. Len(journal') > 0 /\ journal'[Len(journal')] = Word("low", salt)
    BY <2>1 DEF IndInv, TypeOK
  <2>4. Reached' /\ pc' \in Points BY <2>1, <2>2, <2>3, <1>2, <1>3 DEF Reached, Loaded, Kept
  <2> QED BY <1>1, <1>2, <2>4, CommitType DEF IndInv
<1> QED BY <1>4, <1>5

LEMMA SaltHighStep ==
  ASSUME IndInv, SaltHigh
  PROVE  IndInv'
<1>1. CommitSalt("high", "saltHeader") BY DEF SaltHigh
<1>2. Kept /\ Ordered' /\ Rooted' BY <1>1, CommitPart
<1>3. /\ locked /\ Loaded /\ Done(Admin) /\ salt > Half /\ StoredSalt = None
      /\ Len(journal) > 0 /\ journal[Len(journal)] = Word("low", salt)
  BY DEF IndInv, Reached, SaltHigh
<1>4. CASE pc' = "halt" BY <1>1, <1>2, <1>4, AtRest, CommitType DEF IndInv
<1>5. CASE pc' # "halt"
  <2>1. pc' = "saltHeader" /\ journal' = Append(journal, Word("high", salt)) BY <1>1, <1>5, CommitType
  <2>2. UNCHANGED <<locked, page126, tamp, salt>> BY <1>1, CommitType
  <2>3. /\ Len(journal') > 1 /\ journal'[Len(journal')] = Word("high", salt)
        /\ journal'[Len(journal') - 1] = Word("low", salt)
    BY <2>1, <1>3 DEF IndInv, TypeOK
  <2>4. Reached' /\ pc' \in Points BY <2>1, <2>2, <2>3, <1>2, <1>3 DEF Reached, Loaded, Kept
  <2> QED BY <1>1, <1>2, <2>4, CommitType DEF IndInv
<1> QED BY <1>4, <1>5

(* Its header commits it.                                                   *)
LEMMA HeaderWritten ==
  ASSUME IndInv, SaltHeader, journal' = Append(journal, Word("header", salt))
  PROVE  /\ (Done(Bhk)' <=> Done(Bhk)) /\ (Done(Scp03)' <=> Done(Scp03)) /\ (Done(Admin)' <=> Done(Admin))
         /\ (Done(Pbs)' <=> Done(Pbs)) /\ (Done(All)' <=> Done(All))
         /\ StoredSalt' = salt /\ OneSalt(journal)' /\ StoredSalt = None
<1> DEFINE w == Word("header", salt)
<1>1. w \in Words /\ w.kind = "header" BY WordsAre DEF Kinds, IndInv, TypeOK
<1>2. \A s : w # Word("step", s) BY <1>1, WordsAre
<1>3. journal \in Seq(Words) /\ OneSalt(journal) /\ salt \in Nat BY Chain DEF IndInv, TypeOK
<1>4. \A s : Marked(journal', s) <=> Marked(journal, s) BY <1>1, <1>2, <1>3, MarkedAfter
<1>5. /\ salt > Half /\ StoredSalt = None
      /\ Len(journal) > 1 /\ journal[Len(journal)] = Word("high", salt)
      /\ journal[Len(journal) - 1] = Word("low", salt)
  BY DEF IndInv, Reached, SaltHeader
<1>6. OneSalt(journal') /\ SaltOf(journal') = salt BY <1>3, <1>5, SaltCommitted DEF StoredSalt
<1> QED BY <1>4, <1>5, <1>6 DEF Done, StoredSalt

LEMMA SaltHeaderStep ==
  ASSUME IndInv, SaltHeader
  PROVE  IndInv'
<1>1. CommitSalt("header", "rotatePbs") BY DEF SaltHeader
<1>2. locked /\ Loaded /\ Done(Admin) /\ salt > Half /\ StoredSalt = None
  BY DEF IndInv, Reached, SaltHeader
<1>3. UNCHANGED <<locked, page126, tamp, scp03, admin, e140, salt>> BY <1>1, CommitType
<1>4. salt # None BY <1>2 DEF IndInv, TypeOK
<1>5. CASE journal' = Append(journal, Word("header", salt))
  <2>1. Ordered' BY <1>2, <1>5, HeaderWritten DEF IndInv, Ordered
  <2>2. Rooted' BY <1>2, <1>3, <1>5, HeaderWritten DEF IndInv, Rooted
  <2>3. CASE pc' = "halt" BY <1>1, <2>1, <2>2, <2>3, AtRest, CommitType DEF IndInv
  <2>4. CASE pc' # "halt"
    <3>1. pc' = "rotatePbs" BY <1>1, <2>4, CommitType
    <3>2. Reached' /\ pc' \in Points
      BY <3>1, <1>2, <1>3, <1>4, <1>5, HeaderWritten DEF Reached, Loaded
    <3> QED BY <1>1, <2>1, <2>2, <3>2, CommitType DEF IndInv
  <2> QED BY <2>3, <2>4
<1>6. CASE journal' # Append(journal, Word("header", salt))
  <2>1. pc' = "halt" /\ journal' \in {journal, Append(journal, Word("noise", None))}
    BY <1>1, <1>6, CommitType
  <2>2. Kept BY <2>1, Chain, KeptSame, KeptNoted DEF IndInv
  <2>3. Ordered' BY <2>2, OrderedStays DEF IndInv
  <2>4. Rooted' BY <2>2, <1>3 DEF IndInv, Rooted, Kept
  <2> QED BY <1>1, <2>1, <2>3, <2>4, AtRest, CommitType DEF IndInv
<1> QED BY <1>5, <1>6

LEMMA RotatePbsStep ==
  ASSUME IndInv, RotatePbs
  PROVE  IndInv'
<1>1. TypeOK' /\ drawn' >= Half
  BY FaultBound DEF IndInv, TypeOK, RotatePbs, Attempt, Goto, Halt, flash
<1>2. locked /\ Loaded /\ Done(Admin) /\ salt = StoredSalt /\ salt # None
  BY DEF IndInv, Reached, RotatePbs
<1>3. Kept BY KeptSame DEF IndInv, Ordered, RotatePbs, flash
<1>4. Ordered' BY <1>3, OrderedStays DEF IndInv
<1>5. e140' = e140 \/ e140' = salt BY DEF RotatePbs, Attempt
<1>6. StoredSalt > Half BY <1>2, Chain
<1>7. Rooted' BY <1>2, <1>3, <1>5, <1>6 DEF IndInv, Rooted, Kept, RotatePbs, flash
<1>8. CASE pc' = "halt" BY <1>1, <1>4, <1>7, <1>8, AtRest DEF IndInv
<1>9. CASE pc' # "halt"
  <2>1. pc' = "confirmPbs" \/ (pc' = "markPbs" /\ e140' = salt)
    BY <1>9 DEF RotatePbs, Attempt, Goto, Fault, Halt
  <2>2. Reached' /\ pc' \in Points
    BY <2>1, <1>2, <1>3 DEF Reached, Loaded, Kept, RotatePbs, flash
  <2> QED BY <1>1, <1>4, <1>7, <2>2 DEF IndInv
<1> QED BY <1>8, <1>9

LEMMA ConfirmPbsStep ==
  ASSUME IndInv, ConfirmPbs
  PROVE  IndInv'
<1>1. TypeOK' /\ drawn' >= Half
  BY FaultBound DEF IndInv, TypeOK, ConfirmPbs, Confirm, Goto, flash, chips
<1>2. Kept /\ Ordered' /\ Rooted' BY Calm DEF ConfirmPbs, Confirm, flash, chips
<1>3. CASE pc' = "halt" BY <1>1, <1>2, <1>3, AtRest DEF IndInv
<1>4. CASE pc' # "halt"
  <2>1. pc' = "markPbs" /\ e140 = salt BY <1>4 DEF ConfirmPbs, Confirm, Goto, Fault, Halt
  <2>2. Reached' /\ pc' \in Points
    BY <2>1, <1>2 DEF IndInv, Reached, Loaded, Kept, ConfirmPbs, Confirm, flash, chips
  <2> QED BY <1>1, <1>2, <2>2 DEF IndInv
<1> QED BY <1>3, <1>4

-----------------------------------------------------------------------------
(* Power.                                                                   *)

LEMMA PowerSteps ==
  ASSUME IndInv, SwitchOff \/ PowerCut \/ WarmReset \/ TornWord \/ TornBhk
  PROVE  IndInv'
<1>1. pc' = "off" /\ salt' = None /\ shield' = None /\ tamp' \in {tamp, None} /\ faults' = faults
      /\ drawn' = drawn /\ cuts' \in 0..MaxCuts /\ UNCHANGED chips /\ UNCHANGED <<locked, otp>>
  BY FirstBootAssumption
  DEF IndInv, TypeOK, SwitchOff, PowerCut, WarmReset, TornWord, TornBhk, Interrupted, Forget, flash, bounds
<1>2. Reached' /\ pc' \in Points BY <1>1, AtRest
<1>3. CASE SwitchOff \/ PowerCut \/ WarmReset
  <2>1. UNCHANGED flash BY <1>3 DEF SwitchOff, PowerCut, WarmReset
  <2>2. TypeOK' /\ drawn' >= Half BY <1>1, <2>1 DEF IndInv, TypeOK, flash, chips
  <2>3. Ordered' /\ Rooted' BY <1>1, <2>1, Calm DEF flash, chips
  <2> QED BY <1>2, <2>2, <2>3 DEF IndInv
<1>4. CASE TornWord
  <2>1. journal' = Append(journal, Word("noise", None)) /\ CanAppend(1) /\ UNCHANGED page126
    BY <1>4 DEF TornWord
  <2>2. Word("noise", None) \in Words BY WordsAre DEF Kinds
  <2>3. TypeOK' /\ drawn' >= Half BY <1>1, <2>1, <2>2, OneMore DEF IndInv, TypeOK, chips
  <2>4. Kept BY <2>1, Chain, KeptNoted DEF IndInv
  <2>5. Ordered' BY <2>4, OrderedStays DEF IndInv
  <2>6. Rooted' BY <1>1, <2>1, <2>4 DEF IndInv, Rooted, Kept, chips
  <2> QED BY <1>2, <2>3, <2>5, <2>6 DEF IndInv
<1>5. CASE TornBhk
  <2>1. ~Done(Bhk) BY <1>5 DEF TornBhk, IndInv, Reached
  <2>2. page126' = Half /\ journal' = journal BY <1>5 DEF TornBhk
  <2>3. TypeOK' /\ drawn' >= Half BY <1>1, <2>2 DEF IndInv, TypeOK, chips
  <2>4. Ordered' /\ Rooted' BY <1>1, <2>1, <2>2, Rootless DEF chips
  <2> QED BY <1>2, <2>3, <2>4 DEF IndInv
<1> QED BY <1>3, <1>4, <1>5

-----------------------------------------------------------------------------
(* The invariant, and what follows from it.                                 *)

LEMMA Initially ==
  ASSUME Init
  PROVE  IndInv
<1>1. journal \in Seq(Words) /\ Len(journal) = 0 BY DEF Init
<1>2. TypeOK
  <2>1. locked \in BOOLEAN /\ otp \in BOOLEAN BY Zenon DEF Init
  <2> QED BY <1>1, <2>1, FirstBootAssumption DEF Init, TypeOK
<1>3. \A s : ~Marked(journal, s) BY <1>1 DEF Marked
<1>4. \A i \in 1..Len(journal) : ~SaltAt(journal, i) BY <1>1
<1>5. StoredSalt = None BY <1>1, <1>4, SaltNone DEF StoredSalt
<1>6. OneSalt(journal) BY <1>1 DEF OneSalt
<1>7. Ordered BY <1>3, <1>5, <1>6 DEF Ordered, Done
<1>8. Rooted BY <1>3 DEF Rooted, Done, Init
<1>9. Reached /\ pc \in Points /\ drawn >= Half BY DEF Reached, Init
<1> QED BY <1>2, <1>7, <1>8, <1>9 DEF IndInv

LEMMA Inductive ==
  ASSUME IndInv, [Next]_vars
  PROVE  IndInv'
<1>1. CASE UNCHANGED vars
  <2>1. UNCHANGED <<locked, otp, page126, journal, tamp, scp03, admin, e140, pc, salt, shield, drawn, cuts, faults>>
    BY <1>1 DEF vars, flash, chips, ram, bounds
  <2>2. Kept /\ Ordered' /\ Rooted' BY <2>1, Calm
  <2>3. TypeOK' /\ pc' \in Points /\ drawn' >= Half BY <2>1 DEF IndInv, TypeOK
  <2>4. Reached' BY <2>1, <2>2 DEF IndInv, Reached, Loaded, Kept
  <2> QED BY <2>2, <2>3, <2>4 DEF IndInv
<1>2. CASE PowerOn \/ BhkBlock \/ ShipCheck \/ Lock \/ Decline
  BY <1>2, PowerOnStep, BhkBlockStep, ShipCheckStep, LockStep, DeclineStep
<1>3. CASE ResumeCeremony \/ EstablishForBhk \/ EraseBhk \/ DrawBhk \/ ProgramBhk \/ LockBhk
  BY <1>3, ResumeStep, EstablishForBhkStep, EraseBhkStep, DrawBhkStep, ProgramBhkStep, LockBhkStep
<1>4. CASE MarkBhk \/ MarkScp03 \/ MarkAdmin \/ MarkPbs \/ MarkAll
  BY <1>4, MarkerSteps
<1>5. CASE RotateScp03 \/ ConfirmScp03 \/ ProbeAdmin \/ WriteAdmin
  BY <1>5, RotateScp03Step, ConfirmScp03Step, ProbeAdminStep, WriteAdminStep
<1>6. CASE UseSalt \/ DrawSalt \/ SaltLow \/ SaltHigh \/ SaltHeader \/ RotatePbs \/ ConfirmPbs
  BY <1>6, UseSaltStep, DrawSaltStep, SaltLowStep, SaltHighStep, SaltHeaderStep, RotatePbsStep, ConfirmPbsStep
<1>7. CASE SwitchOff \/ PowerCut \/ WarmReset \/ TornWord \/ TornBhk
  BY <1>7, PowerSteps
<1> QED BY <1>1, <1>2, <1>3, <1>4, <1>5, <1>6, <1>7 DEF Next, Ceremony

(* IndInv holds in every reachable state of a unit of any page size.        *)
THEOREM Invariant == Spec => []IndInv
<1>1. Init => IndInv BY Initially
<1>2. IndInv /\ [Next]_vars => IndInv' BY Inductive
<1> QED BY <1>1, <1>2, PTL DEF Spec

(* What a chip has been given can be derived again after any cut, reset or  *)
(* failure: page 126 and the journal still hold its root and its salt.      *)
THEOREM NothingIsStranded == Spec => []Recoverable
<1>1. IndInv => Recoverable
  <2> SUFFICES ASSUME IndInv PROVE Recoverable OBVIOUS
  <2>1. scp03 # Transport => Done(Bhk) /\ scp03 = page126 BY DEF IndInv, Rooted
  <2>2. admin # Transport => Done(Bhk) /\ scp03 = page126 /\ admin \in {None, page126}
    BY <2>1 DEF IndInv, Rooted
  <2>3. e140 # Transport => e140 = StoredSalt BY DEF IndInv, Rooted
  <2> QED BY <2>1, <2>2, <2>3 DEF Recoverable
<1> QED BY <1>1, Invariant, PTL

(* A unit that reaches the wallet is locked, and its chips hold what main   *)
(* then derives.                                                            *)
THEOREM WalletIsFinal == Spec => []ReadyIsFinal
<1>1. IndInv => ReadyIsFinal
  <2> SUFFICES ASSUME IndInv, pc = "ready"
               PROVE  /\ locked /\ Done(All)
                      /\ tamp \notin {None, Transport, Half}
                      /\ scp03 = tamp /\ admin = tamp /\ e140 = StoredSalt /\ e140 # Transport
    BY DEF ReadyIsFinal
  <2>1. locked /\ Done(All) /\ tamp = page126 BY DEF IndInv, Reached, Loaded
  <2>2. Done(Bhk) /\ Done(Scp03) /\ Done(Admin) /\ Done(Pbs) BY <2>1, Chain
  <2>3. page126 > Half /\ scp03 = page126 /\ admin = page126 BY <2>2 DEF IndInv, Rooted
  <2>4. e140 = StoredSalt /\ e140 # Transport BY <2>2 DEF IndInv, Rooted
  <2> QED BY <2>1, <2>3, <2>4
<1> QED BY <1>1, Invariant, PTL

-----------------------------------------------------------------------------
(* The ceremony that FirstBootCeremony promises.                            *)

Root == IF Done(Bhk) THEN page126 ELSE None

LEMMA DoneIsBoolean == Done(All) \in BOOLEAN /\ Done(All)' \in BOOLEAN
  BY DEF Done, Marked

(* A step that leaves the journal's meaning, the chips and a page that      *)
(* counts settles nothing.                                                  *)
LEMMA SettlesNothing ==
  ASSUME Kept, UNCHANGED <<scp03, admin, e140>>, Done(Bhk) => page126' = page126
  PROVE  UNCHANGED Promise!vars
<1>1. Root' = Root BY DEF Root, Kept
<1>2. StoredSalt' = StoredSalt /\ Done(All)' = Done(All) BY DoneIsBoolean DEF Kept
<1> QED BY <1>1, <1>2 DEF Promise!vars, Root

LEMMA WaitingStep ==
  ASSUME IndInv,
         \/ PowerOn \/ BhkBlock \/ ShipCheck \/ Lock \/ Decline
         \/ ResumeCeremony \/ EstablishForBhk \/ LockBhk \/ ConfirmScp03
         \/ UseSalt \/ DrawSalt \/ ConfirmPbs
         \/ SwitchOff \/ PowerCut \/ WarmReset
  PROVE  UNCHANGED Promise!vars
<1>1. UNCHANGED <<page126, journal, scp03, admin, e140>>
  <2>1. CASE PowerOn \/ BhkBlock \/ ShipCheck \/ Lock \/ Decline
    BY <2>1 DEF PowerOn, BhkBlock, ShipCheck, Lock, Decline, flash, chips
  <2>2. CASE ResumeCeremony \/ EstablishForBhk \/ LockBhk \/ ConfirmScp03
    BY <2>2 DEF ResumeCeremony, EstablishForBhk, Establish, LockBhk, ConfirmScp03, Confirm, flash, chips
  <2>3. CASE UseSalt \/ DrawSalt \/ ConfirmPbs
    BY <2>3 DEF UseSalt, Establish, DrawSalt, ConfirmPbs, Confirm, flash, chips
  <2>4. CASE SwitchOff \/ PowerCut \/ WarmReset
    BY <2>4 DEF SwitchOff, PowerCut, WarmReset, Interrupted, flash, chips
  <2> QED BY <2>1, <2>2, <2>3, <2>4
<1>2. Kept BY <1>1, Chain, KeptSame
<1> QED BY <1>1, <1>2, SettlesNothing

LEMMA PageStep ==
  ASSUME IndInv, EraseBhk \/ DrawBhk \/ ProgramBhk \/ TornBhk
  PROVE  UNCHANGED Promise!vars
<1>1. ~Done(Bhk) BY DEF IndInv, Reached, EraseBhk, DrawBhk, ProgramBhk, TornBhk
<1>2. UNCHANGED <<journal, scp03, admin, e140>>
  BY DEF EraseBhk, DrawBhk, ProgramBhk, TornBhk, Interrupted, chips
<1>3. Kept BY <1>2, Chain, KeptSame
<1> QED BY <1>1, <1>2, <1>3, SettlesNothing

LEMMA NotedStep ==
  ASSUME IndInv, SaltLow \/ SaltHigh \/ TornWord
  PROVE  UNCHANGED Promise!vars
<1>1. CASE SaltLow
  <2>1. CommitSalt("low", "saltHigh") BY <1>1 DEF SaltLow
  <2> QED BY <2>1, CommitPart, CommitType, SettlesNothing
<1>2. CASE SaltHigh
  <2>1. CommitSalt("high", "saltHeader") BY <1>2 DEF SaltHigh
  <2> QED BY <2>1, CommitPart, CommitType, SettlesNothing
<1>3. CASE TornWord
  <2>1. Kept BY <1>3, Chain, KeptNoted DEF TornWord, IndInv
  <2> QED BY <1>3, <2>1, SettlesNothing DEF TornWord, Interrupted, chips
<1> QED BY <1>1, <1>2, <1>3

(* A marker settles the root key, ends the ceremony, or settles nothing.    *)
LEMMA MarkedStep ==
  ASSUME IndInv, NEW step \in 1..5, CommitStep(step),
         step = Bhk => page126 > Half /\ ~Done(Bhk),
         step = All => Done(Pbs)
  PROVE  Promise!Next \/ UNCHANGED Promise!vars
<1>1. OneSalt(journal) /\ UNCHANGED <<page126, scp03, admin, e140>> BY Chain DEF CommitStep, chips
<1>2. page126 \in Nat BY DEF IndInv, TypeOK
<1>3. CASE journal' = Append(journal, Word("step", step))
  <2>1. /\ Done(step)' /\ \A n \in 1..5 : n # step => (Done(n)' <=> Done(n))
        /\ StoredSalt' = StoredSalt /\ OneSalt(journal)'
    BY <1>1, <1>3, Stepped DEF IndInv
  <2>2. CASE step = Bhk
    <3>1. Root = None /\ Root' = page126 /\ page126 > Half BY <1>1, <2>1, <2>2 DEF Root
    <3>2. Done(All)' = Done(All) BY <2>1, <2>2, DoneIsBoolean DEF Bhk, All
    <3>3. Promise!SettleRoot
      BY <1>1, <1>2, <2>1, <3>1, <3>2 DEF Promise!SettleRoot, Promise!None, Promise!Transport, Root
    <3> QED BY <3>3 DEF Promise!Next
  <2>3. CASE step = All
    <3>1. Root' = Root BY <1>1, <2>1, <2>3 DEF Root, Bhk, All
    <3>2. CASE Done(All)
      BY <1>1, <2>1, <2>3, <3>1, <3>2 DEF Promise!vars, Root
    <3>3. CASE ~Done(All)
      <4>1. StoredSalt # None /\ e140 = StoredSalt BY <2>3 DEF IndInv, Ordered, Rooted
      <4>2. Promise!Finish
        BY <1>1, <2>1, <2>3, <3>1, <3>3, <4>1 DEF Promise!Finish, Promise!None, Root
      <4> QED BY <4>2 DEF Promise!Next
    <3> QED BY <3>2, <3>3
  <2>4. CASE step \notin {Bhk, All}
    <3>1. Root' = Root /\ Done(All)' = Done(All) BY <1>1, <2>1, <2>4, DoneIsBoolean DEF Root, Bhk, All
    <3> QED BY <1>1, <2>1, <3>1 DEF Promise!vars, Root
  <2> QED BY <2>2, <2>3, <2>4
<1>4. CASE journal' # Append(journal, Word("step", step))
  <2>1. journal' \in {journal, Append(journal, Word("noise", None))}
    BY <1>4 DEF CommitStep, AppendWord
  <2>2. Kept BY <1>1, <2>1, KeptSame, KeptNoted DEF IndInv
  <2> QED BY <1>1, <2>2, SettlesNothing
<1> QED BY <1>3, <1>4

LEMMA MarkingStep ==
  ASSUME IndInv, MarkBhk \/ MarkScp03 \/ MarkAdmin \/ MarkPbs \/ MarkAll
  PROVE  Promise!Next \/ UNCHANGED Promise!vars
<1>1. CASE MarkBhk
  <2>1. page126 > Half /\ ~Done(Bhk) BY <1>1 DEF MarkBhk, IndInv, Reached
  <2> QED BY <1>1, <2>1, MarkedStep DEF MarkBhk, Bhk, All
<1>2. CASE MarkScp03 BY <1>2, MarkedStep DEF MarkScp03, Bhk, Scp03, All
<1>3. CASE MarkAdmin BY <1>3, MarkedStep DEF MarkAdmin, Bhk, Admin, All
<1>4. CASE MarkPbs BY <1>4, MarkedStep DEF MarkPbs, Bhk, Pbs, All
<1>5. CASE MarkAll
  <2>1. Done(Pbs) BY <1>5 DEF MarkAll, IndInv, Reached
  <2> QED BY <1>5, <2>1, MarkedStep DEF MarkAll, Bhk, All
<1> QED BY <1>1, <1>2, <1>3, <1>4, <1>5

(* Every exchange with a chip that changes it settles its credential.       *)
LEMMA ChipStep ==
  ASSUME IndInv, RotateScp03 \/ ProbeAdmin \/ WriteAdmin \/ RotatePbs
  PROVE  Promise!Next \/ UNCHANGED Promise!vars
<1>1. UNCHANGED <<page126, journal>> BY DEF RotateScp03, ProbeAdmin, WriteAdmin, RotatePbs, flash
<1>2. Kept BY <1>1, Chain, KeptSame
<1>3. Root' = Root /\ StoredSalt' = StoredSalt /\ Done(All)' = Done(All)
  BY <1>1, <1>2, DoneIsBoolean DEF Root, Kept
<1>4. CASE RotateScp03
  <2>1. Loaded BY <1>4 DEF IndInv, Reached, RotateScp03
  <2>2. Root = tamp /\ Root # None BY <2>1 DEF Loaded, Root, IndInv, Rooted, TypeOK
  <2>3. UNCHANGED <<admin, e140>> /\ (scp03' = scp03 \/ (scp03 = Transport /\ scp03' = tamp))
    BY <1>4 DEF RotateScp03, Attempt
  <2>4. CASE scp03' = scp03 BY <1>1, <1>2, <2>3, <2>4, SettlesNothing
  <2>5. CASE scp03 = Transport /\ scp03' = tamp
    <3>1. Promise!SettlePlatform
      BY <1>3, <2>2, <2>3, <2>5 DEF Promise!SettlePlatform, Promise!None, Promise!Transport, Root
    <3> QED BY <3>1 DEF Promise!Next
  <2> QED BY <2>3, <2>4, <2>5
<1>5. CASE ProbeAdmin
  <2>1. Loaded BY <1>5 DEF IndInv, Reached, ProbeAdmin
  <2>2. Root = tamp BY <2>1 DEF Loaded, Root
  <2>3. UNCHANGED <<scp03, e140>> /\ (admin' = admin \/ (admin = Transport /\ admin' = None /\ scp03 = tamp))
    BY <1>5 DEF ProbeAdmin, Attempt
  <2>4. CASE admin' = admin BY <1>1, <1>2, <2>3, <2>4, SettlesNothing
  <2>5. CASE admin = Transport /\ admin' = None /\ scp03 = tamp
    <3>1. Promise!DropAdmin
      BY <1>3, <2>2, <2>3, <2>5 DEF Promise!DropAdmin, Promise!None, Promise!Transport, Root
    <3> QED BY <3>1 DEF Promise!Next
  <2> QED BY <2>3, <2>4, <2>5
<1>6. CASE WriteAdmin
  <2>1. Loaded /\ admin = None /\ Done(Scp03) BY <1>6 DEF IndInv, Reached, WriteAdmin
  <2>2. Root = tamp /\ scp03 = page126 /\ tamp = page126 BY <2>1 DEF Loaded, Root, IndInv, Rooted
  <2>3. UNCHANGED <<scp03, e140>> /\ (admin' = admin \/ admin' = tamp)
    BY <1>6 DEF WriteAdmin, Attempt
  <2>4. CASE admin' = admin BY <1>1, <1>2, <2>3, <2>4, SettlesNothing
  <2>5. CASE admin' = tamp
    <3>1. Promise!SettleAdmin
      BY <1>3, <2>1, <2>2, <2>3, <2>5 DEF Promise!SettleAdmin, Promise!None, Root
    <3> QED BY <3>1 DEF Promise!Next
  <2> QED BY <2>3, <2>4, <2>5
<1>7. CASE RotatePbs
  <2>1. salt = StoredSalt /\ salt # None BY <1>7 DEF IndInv, Reached, RotatePbs
  <2>2. UNCHANGED <<scp03, admin>> /\ (e140' = e140 \/ (e140 = Transport /\ e140' = salt))
    BY <1>7 DEF RotatePbs, Attempt
  <2>3. CASE e140' = e140 BY <1>1, <1>2, <2>2, <2>3, SettlesNothing
  <2>4. CASE e140 = Transport /\ e140' = salt
    <3>1. Promise!SettleBinding
      BY <1>3, <2>1, <2>2, <2>4 DEF Promise!SettleBinding, Promise!None, Promise!Transport, Root
    <3> QED BY <3>1 DEF Promise!Next
  <2> QED BY <2>2, <2>3, <2>4
<1> QED BY <1>4, <1>5, <1>6, <1>7

LEMMA HeaderStep ==
  ASSUME IndInv, SaltHeader
  PROVE  Promise!Next \/ UNCHANGED Promise!vars
<1>1. CommitSalt("header", "rotatePbs") BY DEF SaltHeader
<1>2. Done(Bhk) /\ Done(Scp03) /\ Done(Admin) /\ salt > Half /\ salt \in Nat
  BY Chain DEF IndInv, Reached, SaltHeader, TypeOK
<1>3. Root = page126 /\ page126 > Half /\ page126 \in Nat /\ admin = page126
  BY <1>2 DEF Root, IndInv, Rooted, TypeOK
<1>4. UNCHANGED <<page126, scp03, admin, e140>> BY <1>1, CommitType
<1>5. CASE journal' = Append(journal, Word("header", salt))
  <2>1. /\ Root' = Root /\ Done(All)' = Done(All)
        /\ StoredSalt = None /\ StoredSalt' = salt
    BY <1>4, <1>5, HeaderWritten, DoneIsBoolean DEF Root
  <2>2. Promise!SettleSalt
    BY <1>2, <1>3, <1>4, <2>1 DEF Promise!SettleSalt, Promise!None, Promise!Transport, Root
  <2> QED BY <2>2 DEF Promise!Next
<1>6. CASE journal' # Append(journal, Word("header", salt))
  <2>1. journal' \in {journal, Append(journal, Word("noise", None))} BY <1>1, <1>6, CommitType
  <2>2. Kept BY <2>1, Chain, KeptSame, KeptNoted DEF IndInv
  <2> QED BY <1>4, <2>2, SettlesNothing
<1> QED BY <1>5, <1>6

(* Every step of the device is a step of the ceremony or settles nothing:   *)
(* root, salt and credentials are each settled once, in order, for good.    *)
THEOREM Ceremonious == Spec => ImplementsCeremony
<1>1. Init => Promise!Init
  <2> SUFFICES ASSUME Init PROVE Promise!Init OBVIOUS
  <2>1. journal \in Seq(Words) /\ Len(journal) = 0 BY DEF Init
  <2>2. \A s : ~Done(s) BY <2>1 DEF Done, Marked
  <2>3. \A i \in 1..Len(journal) : ~SaltAt(journal, i) BY <2>1
  <2>4. StoredSalt = None BY <2>1, <2>3, SaltNone DEF StoredSalt
  <2> QED BY <2>2, <2>4 DEF Init, Promise!Init, Promise!None, Promise!Transport
<1>2. IndInv /\ [Next]_vars => [Promise!Next]_Promise!vars
  <2> SUFFICES ASSUME IndInv, [Next]_vars PROVE Promise!Next \/ UNCHANGED Promise!vars
    OBVIOUS
  <2>1. CASE UNCHANGED vars
    <3>1. UNCHANGED <<page126, journal, scp03, admin, e140>> BY <2>1 DEF vars, flash, chips
    <3>2. Kept BY <3>1, Chain, KeptSame
    <3> QED BY <3>1, <3>2, SettlesNothing
  <2>2. CASE \/ PowerOn \/ BhkBlock \/ ShipCheck \/ Lock \/ Decline
             \/ ResumeCeremony \/ EstablishForBhk \/ LockBhk \/ ConfirmScp03
             \/ UseSalt \/ DrawSalt \/ ConfirmPbs
             \/ SwitchOff \/ PowerCut \/ WarmReset
    BY <2>2, WaitingStep
  <2>3. CASE EraseBhk \/ DrawBhk \/ ProgramBhk \/ TornBhk BY <2>3, PageStep
  <2>4. CASE SaltLow \/ SaltHigh \/ TornWord BY <2>4, NotedStep
  <2>5. CASE MarkBhk \/ MarkScp03 \/ MarkAdmin \/ MarkPbs \/ MarkAll BY <2>5, MarkingStep
  <2>6. CASE RotateScp03 \/ ProbeAdmin \/ WriteAdmin \/ RotatePbs BY <2>6, ChipStep
  <2>7. CASE SaltHeader BY <2>7, HeaderStep
  <2> QED BY <2>1, <2>2, <2>3, <2>4, <2>5, <2>6, <2>7 DEF Next, Ceremony
<1> QED BY <1>1, <1>2, Invariant, PTL DEF Spec, ImplementsCeremony, Promise!Spec
=============================================================================
