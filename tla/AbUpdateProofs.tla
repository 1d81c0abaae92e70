--------------------------- MODULE AbUpdateProofs ---------------------------
(***************************************************************************)
(* The inductive invariant of AbUpdate: an update touches only the slot     *)
(* that does not run, and what the log and the manifests say together keeps *)
(* the boot loader from going back.                                         *)
(***************************************************************************)
EXTENDS AbUpdateProperties, FiniteSetTheorems, TLAPS

Powered == mode \notin {"off", "halted"}
Committing == mode \in {"eraseLog", "confirmOld", "writeManifest"}

(* The running slot stays a slot the boot loader accepts.                   *)
RunningStays ==
  /\ \E s \in Slots : Candidate(s)
  /\ Powered => Candidate(cur)

(* A streaming context writes into the other slot, whose manifest is gone.  *)
Streaming ==
  ctx # None =>
    /\ mode = "ready" \/ Committing
    /\ ctx.slot = Other(cur) /\ manifest[ctx.slot] \notin Manifests
Verified ==
  Committing =>
    /\ ctx # None /\ image[ctx.slot] = Filled(ctx.release)
    /\ ctx.release.linked = ctx.slot /\ ctx.release.version > Running

(* A release older than the highest confirmed one is only ever there beside *)
(* a settled newer one.                                                    *)
Outranked(s) ==
  /\ Candidate(Other(s)) /\ manifest[Other(s)].version >= high
  /\ Settled(log, Other(s), manifest[Other(s)])
NoWayBack ==
  /\ Powered => Running >= high
  /\ \A s \in Slots : manifest[s] \in Manifests /\ manifest[s].version < high => Outranked(s)

(* The attempts the log shows are boots the release has had.                *)
Tried(s) == Attempts(log, s, manifest[s].version)
FreshTally ==
  mode \in {"confirmOld", "writeManifest"} => \A i \in LogIndex : log[i].kind # "attempt"
TallyEarned ==
  \A s \in Slots : manifest[s] \in Manifests /\ boots[s] < MaxUnconfirmedBoots =>
    Tried(s) <= IF mode = "booting" /\ cur = s THEN boots[s] - 1 ELSE boots[s]

Activated == mode = "resetting" => Chosen(Inactive)

Sound ==
  /\ RunningStays /\ Streaming /\ Verified /\ NoWayBack
  /\ FreshTally /\ TallyEarned /\ Activated
IndInv == TypeOK /\ Sound
-----------------------------------------------------------------------------
(* Slots, manifests and the log.                                           *)

LEMMA TwoSlots ==
  \A s \in Slots : Other(s) \in Slots /\ Other(s) # s /\ Other(Other(s)) = s
BY DEF Slots, Other

LEMMA Blanks ==
  /\ Erased \notin Manifests /\ Torn \notin Manifests
  /\ \A x \in Contexts : x # None
  /\ LogErased \notin Records /\ LogTorn \notin Records /\ LogErased # LogTorn
BY DEF Erased, Torn, None, Manifests, Contexts, LogErased, LogTorn, Records

LEMMA TallyIsNat == \A l, s, v : Attempts(l, s, v) \in Nat
<1> TAKE l, s, v
<1>1. IsFiniteSet(LogIndex) BY LogAssumption, FS_Interval DEF LogIndex
<1>2. {i \in LogIndex : l[i] = Record("attempt", s, v)} \in SUBSET LogIndex OBVIOUS
<1> QED BY <1>1, <1>2, FS_Subset, FS_CardinalityType DEF Attempts

(* A log with no record that another lacks counts no more attempts.         *)
LEMMA TallyMonotone ==
  ASSUME NEW l, NEW m, NEW s, NEW v,
         \A i \in LogIndex : m[i] = Record("attempt", s, v) => l[i] = Record("attempt", s, v)
  PROVE  Attempts(m, s, v) <= Attempts(l, s, v)
<1>1. IsFiniteSet(LogIndex) BY LogAssumption, FS_Interval DEF LogIndex
<1>2. IsFiniteSet({i \in LogIndex : l[i] = Record("attempt", s, v)}) BY <1>1, FS_Subset
<1>3. {i \in LogIndex : m[i] = Record("attempt", s, v)}
        \in SUBSET {i \in LogIndex : l[i] = Record("attempt", s, v)}
  OBVIOUS
<1> QED BY <1>2, <1>3, FS_Subset DEF Attempts

(* One more quad-word counts for one attempt at most.                       *)
LEMMA TallyGrowsByOne ==
  ASSUME NEW l \in [LogIndex -> Cells], NEW i \in LogIndex, NEW x, NEW s, NEW v
  PROVE  Attempts([l EXCEPT ![i] = x], s, v) <= Attempts(l, s, v) + 1
<1> DEFINE A == {j \in LogIndex : l[j] = Record("attempt", s, v)}
           B == {j \in LogIndex : [l EXCEPT ![i] = x][j] = Record("attempt", s, v)}
<1>1. IsFiniteSet(LogIndex) BY LogAssumption, FS_Interval DEF LogIndex
<1>2. IsFiniteSet(A) BY <1>1, FS_Subset
<1>3. IsFiniteSet(A \cup {i}) /\ Cardinality(A \cup {i}) <= Cardinality(A) + 1
  <2>1. Cardinality(A) \in Nat BY <1>2, FS_CardinalityType
  <2>2. IsFiniteSet(A \cup {i}) BY <1>2, FS_AddElement
  <2>3. Cardinality(A \cup {i}) = IF i \in A THEN Cardinality(A) ELSE Cardinality(A) + 1
    BY <1>2, FS_AddElement
  <2> HIDE DEF A
  <2> QED BY <2>1, <2>2, <2>3
<1>4. B \in SUBSET (A \cup {i}) OBVIOUS
<1>5. Cardinality(B) <= Cardinality(A \cup {i}) BY <1>3, <1>4, FS_Subset
<1>6. Cardinality(A) \in Nat /\ Cardinality(B) \in Nat /\ Cardinality(A \cup {i}) \in Nat
  BY <1>2, <1>3, <1>4, FS_Subset, FS_CardinalityType
<1> QED BY <1>3, <1>5, <1>6 DEF Attempts

(* What `append` can do to the log: nothing, or one quad-word at the        *)
(* frontier, the record or a torn one.                                     *)
Appends(rec) ==
  \/ log' = log /\ high' = high
  \/ \E i \in LogIndex :
       /\ NextFree(log, i)
       /\ \/ log' = [log EXCEPT ![i] = rec] /\ high' = Seen(rec)
          \/ log' = [log EXCEPT ![i] = LogTorn] /\ high' = high

(* Appending forgets no record.                                            *)
LEMMA AppendsKeep ==
  ASSUME DiskOK, NEW rec \in Records, Appends(rec)
  PROVE  /\ log' \in [LogIndex -> Cells]
         /\ \A r \in Records : (\E i \in LogIndex : log[i] = r) => \E i \in LogIndex : log'[i] = r
         /\ high' = high \/ (high' = Seen(rec) /\ \E i \in LogIndex : log'[i] = rec)
         /\ \A i \in LogIndex : log'[i] \in {log[i], rec, LogTorn}
<1>1. CASE log' = log /\ high' = high BY <1>1 DEF DiskOK
<1>2. ASSUME NEW i \in LogIndex, NextFree(log, i), NEW x \in {rec, LogTorn},
             log' = [log EXCEPT ![i] = x],
             (x = rec /\ high' = Seen(rec)) \/ high' = high
      PROVE  /\ log' \in [LogIndex -> Cells]
             /\ \A r \in Records : (\E j \in LogIndex : log[j] = r) => \E j \in LogIndex : log'[j] = r
             /\ high' = high \/ (high' = Seen(rec) /\ \E j \in LogIndex : log'[j] = rec)
             /\ \A j \in LogIndex : log'[j] \in {log[j], rec, LogTorn}
  <2>1. log[i] = LogErased BY <1>2, LogAssumption DEF NextFree, LogIndex
  <2>2. log' \in [LogIndex -> Cells] BY <1>2 DEF DiskOK, Cells
  <2>3. \A j \in LogIndex : log[j] \in Records => log'[j] = log[j]
    BY <1>2, <2>1, Blanks DEF DiskOK
  <2>4. \A r \in Records : (\E j \in LogIndex : log[j] = r) => \E j \in LogIndex : log'[j] = r
    BY <2>3
  <2>5. log'[i] = x BY <1>2 DEF DiskOK
  <2> QED BY <1>2, <2>2, <2>4, <2>5 DEF DiskOK
<1> QED BY <1>1, <1>2 DEF Appends

(* `settle` appends, and leaves the mode where the code or the cut does.    *)
LEMMA SettleAppends ==
  ASSUME TypeOK, Powered, NEW kind \in {"attempt", "confirm"}, NEW next \in Modes,
         Settle(kind, next)
  PROVE  /\ Appends(RunningRecord(kind))
         /\ \/ mode' = next /\ UNCHANGED <<ctx, unlocked>>
            \/ mode' = "off" /\ ctx' = None /\ unlocked' = FALSE
         /\ cuts' \in 0..MaxCuts /\ faults' \in 0..MaxFaults
<1> USE UpdateAssumption DEF TypeOK, ObservedOK
<1>1. Appends(RunningRecord(kind)) BY DEF Settle, Wrote, HalfWrote, Appends
<1>2. cuts' \in 0..MaxCuts /\ faults' \in 0..MaxFaults
  BY DEF Settle, Succeeds, Fails, IsCut
<1> QED BY <1>1, <1>2 DEF Settle, Succeeds, Fails, IsCut
-----------------------------------------------------------------------------
(* Types.                                                                  *)

LEMMA CapsAreNat ==
  /\ HangLimit \in Nat
  /\ \A n, limit \in Nat : n \in 0..limit => Cap(n + 1, limit) \in 0..limit
BY UpdateAssumption DEF HangLimit, MaxUnconfirmedBoots, Cap

(* However a flash operation ends, the session and the counters keep their   *)
(* types.                                                                  *)
LEMMA EndTypes ==
  ASSUME TypeOK, NEW m \in Modes,
         Succeeds(m) \/ Fails(m) \/ FailsDropping(m) \/ IsCut
  PROVE  /\ ctx' \in Contexts \cup {None} /\ mode' \in Modes /\ unlocked' \in BOOLEAN
         /\ cuts' \in 0..MaxCuts /\ faults' \in 0..MaxFaults
<1>1. mode' \in Modes BY DEF Succeeds, Fails, FailsDropping, IsCut, Modes
<1>2. ctx' \in Contexts \cup {None}
  BY DEF Succeeds, Fails, FailsDropping, IsCut, TypeOK, RunOK
<1>3. unlocked' = unlocked \/ unlocked' = FALSE
  BY DEF Succeeds, Fails, FailsDropping, IsCut
<1>4. unlocked' \in BOOLEAN BY <1>3 DEF TypeOK, RunOK
<1>5. cuts' \in 0..MaxCuts /\ faults' \in 0..MaxFaults
  BY UpdateAssumption DEF Succeeds, Fails, FailsDropping, IsCut, TypeOK, ObservedOK
<1> QED BY <1>1, <1>2, <1>4, <1>5

(* The disk, the running slot and the observers of a step that leaves them.  *)
LEMMA BootTypes ==
  ASSUME TypeOK, RunningStays,
         \/ PowerOn \/ PowerOff \/ NoteBootAttempt \/ Hang \/ BootUnlock \/ BootPinLocked
         \/ ConfirmRunning \/ Lock \/ Unlock \/ Abort \/ Commit
  PROVE  TypeOK'
<1> USE UpdateAssumption, CapsAreNat DEF TypeOK, disk, observed
<1>1. CASE PowerOn
  <2>1. DiskOK' BY <1>1 DEF PowerOn, DiskOK
  <2>2. RunOK' BY <1>1 DEF PowerOn, RunOK, Modes, Slots
  <2>3. ObservedOK' BY <1>1 DEF PowerOn, ObservedOK, MaxUnconfirmedBoots
  <2> QED BY <2>1, <2>2, <2>3
<1>2. CASE Hang
  <2>1. DiskOK' BY <1>2 DEF Hang, DiskOK
  <2>2. RunOK' BY <1>2 DEF Hang, RunOK, Modes
  <2>3. cur \in Slots /\ hangs[cur] \in 0..HangLimit BY DEF RunOK, ObservedOK
  <2>4. Cap(hangs[cur] + 1, HangLimit) \in 0..HangLimit BY <2>3
  <2>5. hangs' \in [Slots -> 0..HangLimit] BY <1>2, <2>3, <2>4 DEF Hang, ObservedOK
  <2>6. ObservedOK' BY <1>2, <2>5 DEF Hang, ObservedOK
  <2> QED BY <2>1, <2>2, <2>6
<1>3. ASSUME NoteBootAttempt \/ ConfirmRunning PROVE TypeOK'
  <2> DEFINE kind == IF NoteBootAttempt THEN "attempt" ELSE "confirm"
  <2>1. Powered /\ manifest[cur] \in Manifests
    BY <1>3 DEF Powered, NoteBootAttempt, ConfirmRunning, RunningStays, Candidate
  <2>2. \A k \in {"attempt", "confirm"} : RunningRecord(k) \in Records
    BY <2>1 DEF RunningRecord, Record, Records, RunOK, Manifests
  <2>3. \E k \in {"attempt", "confirm"}, next \in Modes :
          Settle(k, next) /\ UNCHANGED <<manifest, image, cur, hangs, boots>>
    BY <1>3 DEF NoteBootAttempt, ConfirmRunning, Modes
  <2>4. PICK k \in {"attempt", "confirm"}, next \in Modes :
          Settle(k, next) /\ UNCHANGED <<manifest, image, cur, hangs, boots>>
    BY <2>3
  <2>5. Appends(RunningRecord(k)) BY <2>1, <2>4, SettleAppends
  <2>6. DiskOK' BY <2>2, <2>4, <2>5, AppendsKeep DEF DiskOK
  <2>7. RunOK' BY <2>1, <2>4, SettleAppends DEF RunOK, Modes
  <2>8. high' \in Versions
    BY <2>1, <2>5 DEF Appends, Seen, RunningRecord, Record, ObservedOK, Manifests
  <2>9. ObservedOK' BY <2>1, <2>4, <2>8, SettleAppends DEF ObservedOK
  <2> QED BY <2>6, <2>7, <2>9
<1>4. CASE PowerOff \/ BootUnlock \/ BootPinLocked \/ Lock \/ Unlock \/ Abort \/ Commit
  <2>1. DiskOK' /\ ObservedOK'
    BY <1>4 DEF PowerOff, BootUnlock, BootPinLocked, Lock, Unlock, Abort, Commit, DiskOK, ObservedOK
  <2>2. RunOK'
    BY <1>4 DEF PowerOff, BootUnlock, BootPinLocked, Lock, Unlock, Abort, Commit, RunOK, Modes
  <2> QED BY <2>1, <2>2
<1> QED BY <1>1, <1>2, <1>3, <1>4

(* So do the steps of the update commands.                                 *)
LEMMA UpdateTypes ==
  ASSUME TypeOK, RunningStays, Streaming, Verified,
         \/ \E r \in Releases : Begin(r)
         \/ \E k \in Kinds : Chunk(k, Torn) \/ (ctx # None /\ Chunk(k, ctx.release))
         \/ CommitErasesLog \/ CommitConfirmsRunning \/ CommitWritesManifest
  PROVE  TypeOK'
<1> USE UpdateAssumption, TwoSlots DEF TypeOK, Inactive
<1>1. ASSUME NEW r \in Releases, Begin(r) PROVE TypeOK'
  <2>1. \/ ErasedWhole /\ mode' = mode /\ UNCHANGED <<unlocked, cuts, faults>>
           /\ ctx' = [slot |-> Inactive, release |-> r, got |-> [k \in Kinds |-> 0]]
        \/ ErasedInPart /\ (Fails("ready") \/ IsCut)
    BY <1>1 DEF Begin
  <2>2. Other(cur) \in Slots BY DEF RunOK
  <2>3. [i \in 1..Chunks |-> Erased] \in [1..Chunks -> Releases \cup {Erased, Torn}] OBVIOUS
  <2>4. [i \in 1..Chunks |-> Torn] \in [1..Chunks -> Releases \cup {Erased, Torn}] OBVIOUS
  <2>5. ASSUME ErasedWhole PROVE DiskOK'
    BY <1>1, <2>2, <2>5 DEF Begin, ErasedWhole, Filled, DiskOK
  <2>6. ASSUME NEW k \in Kinds \cup {"manifest"},
               NEW left, EraseAt(k, left),
               k = "manifest" => left \in Manifests \cup {Erased, Torn},
               k # "manifest" => left \in [1..Chunks -> Releases \cup {Erased, Torn}]
        PROVE  DiskOK'
    <3>1. image[Other(cur)] \in [Kinds -> [1..Chunks -> Releases \cup {Erased, Torn}]]
      BY <2>2 DEF DiskOK
    <3> DEFINE row == [j \in Kinds |-> IF j = k THEN left
                        ELSE IF j = "nonsecure" \/ k = "manifest" THEN [i \in 1..Chunks |-> Erased]
                        ELSE image[Other(cur)][j]]
    <3>2. row \in [Kinds -> [1..Chunks -> Releases \cup {Erased, Torn}]]
      BY <2>3, <2>6, <3>1 DEF Kinds
    <3>3. image' = [image EXCEPT ![Other(cur)] = row] BY <2>6 DEF EraseAt
    <3>4. image' \in [Slots -> [Kinds -> [1..Chunks -> Releases \cup {Erased, Torn}]]]
      BY <3>2, <3>3 DEF DiskOK
    <3>5. manifest' \in [Slots -> Manifests \cup {Erased, Torn}]
      BY <2>2, <2>6 DEF EraseAt, DiskOK
    <3> QED BY <1>1, <3>4, <3>5 DEF Begin, DiskOK
  <2>7. ASSUME ErasedInPart PROVE DiskOK'
    <3>1. image[Other(cur)] \in [Kinds -> [1..Chunks -> Releases \cup {Erased, Torn}]]
      BY <2>2 DEF DiskOK
    <3>2. CASE \E k \in Kinds : \E cell \in {Erased, Torn} : EraseAt(k, [i \in 1..Chunks |-> cell])
      BY <2>3, <2>4, <2>6, <3>2 DEF Kinds
    <3>3. CASE \E k \in Kinds : EraseAt(k, image[Other(cur)][k])
      BY <2>6, <3>1, <3>3 DEF Kinds
    <3>4. CASE \E page \in {Erased, Torn, manifest[Other(cur)]} : EraseAt("manifest", page)
      BY <2>2, <2>6, <3>4 DEF DiskOK
    <3> QED BY <2>7, <3>2, <3>3, <3>4 DEF ErasedInPart
  <2>8. ASSUME ctx' = [slot |-> Inactive, release |-> r, got |-> [k \in Kinds |-> 0]]
        PROVE  ctx' \in Contexts
    BY <2>2, <2>8, 0 \in 0..Chunks DEF Contexts
  <2>9. "ready" \in Modes BY DEF Modes
  <2>10. ctx' \in Contexts \cup {None} /\ mode' \in Modes /\ unlocked' \in BOOLEAN
         /\ cuts' \in 0..MaxCuts /\ faults' \in 0..MaxFaults
    <3>1. CASE ErasedInPart /\ (Fails("ready") \/ IsCut) BY <2>9, <3>1, EndTypes
    <3>2. CASE ErasedWhole /\ mode' = mode /\ UNCHANGED <<unlocked, cuts, faults>>
               /\ ctx' = [slot |-> Inactive, release |-> r, got |-> [k \in Kinds |-> 0]]
      BY <2>8, <3>2 DEF RunOK, ObservedOK
    <3> QED BY <2>1, <3>1, <3>2
  <2>11. DiskOK' BY <2>1, <2>5, <2>7
  <2>12. RunOK' BY <1>1, <2>10 DEF Begin, RunOK
  <2>13. ObservedOK' BY <1>1, <2>10 DEF Begin, ObservedOK, observed
  <2> QED BY <2>11, <2>12, <2>13
<1>2. ASSUME NEW k \in Kinds, NEW x \in Releases \cup {Torn}, Chunk(k, x) PROVE TypeOK'
  <2>1. ctx \in Contexts BY <1>2 DEF Chunk, RunOK
  <2>2. ctx.slot \in Slots /\ ctx.got \in [Kinds -> 0..Chunks] BY <2>1 DEF Contexts
  <2>3. Frontier(k) \in 1..Chunks BY <1>2, <2>2 DEF Chunk, Frontier
  <2>4. image' = image \/ Programs(k, x) \/ Programs(k, Torn) BY <1>2 DEF Chunk
  <2>5. image' \in [Slots -> [Kinds -> [1..Chunks -> Releases \cup {Erased, Torn}]]]
    <3> DEFINE Words == Releases \cup {Erased, Torn}
    <3>1. image \in [Slots -> [Kinds -> [1..Chunks -> Words]]] BY DEF DiskOK
    <3>2. ASSUME NEW y \in Words, Programs(k, y)
          PROVE  image' \in [Slots -> [Kinds -> [1..Chunks -> Words]]]
      <4> DEFINE s == ctx.slot
                 cells == [image[s][k] EXCEPT ![Frontier(k)] = y]
                 row == [image[s] EXCEPT ![k] = cells]
      <4>1. image' = [image EXCEPT ![s] = row] BY <3>2 DEF Programs
      <4>2. cells \in [1..Chunks -> Words] BY <2>2, <2>3, <3>1, <3>2
      <4>3. row \in [Kinds -> [1..Chunks -> Words]] BY <2>2, <3>1, <4>2
      <4> HIDE DEF row
      <4> QED BY <2>2, <3>1, <4>1, <4>3
    <3>3. x \in Words /\ Torn \in Words OBVIOUS
    <3> HIDE DEF Words
    <3>4. image' \in [Slots -> [Kinds -> [1..Chunks -> Words]]] BY <2>4, <3>1, <3>2, <3>3
    <3> QED BY <3>4 DEF Words
  <2>6. DiskOK' BY <1>2, <2>5 DEF Chunk, DiskOK
  <2>7. CASE Fails("ready") \/ IsCut
    <3>1. "ready" \in Modes BY DEF Modes
    <3>2. RunOK' BY <1>2, <2>7, <3>1, EndTypes DEF Chunk, RunOK
    <3>3. ObservedOK' BY <1>2, <2>7, <3>1, EndTypes DEF Chunk, ObservedOK, observed
    <3> QED BY <2>6, <3>2, <3>3
  <2>8. CASE ctx' = [ctx EXCEPT !.got[k] = Frontier(k)] /\ UNCHANGED <<mode, unlocked, cuts, faults>>
    <3>1. ctx' \in Contexts BY <2>1, <2>3, <2>8 DEF Contexts
    <3>2. RunOK' BY <1>2, <2>8, <3>1 DEF Chunk, RunOK
    <3>3. ObservedOK' BY <1>2, <2>8 DEF Chunk, ObservedOK, observed
    <3> QED BY <2>6, <3>2, <3>3
  <2> QED BY <1>2, <2>7, <2>8 DEF Chunk
<1>3. CASE CommitErasesLog
  <2>1. DiskOK' BY <1>3 DEF CommitErasesLog, FreshLog, BlankLog, DiskOK, Cells
  <2>2. RunOK' BY <1>3 DEF CommitErasesLog, Succeeds, FailsDropping, IsCut, RunOK, Modes
  <2>3. ObservedOK'
    BY <1>3 DEF CommitErasesLog, Succeeds, FailsDropping, IsCut, ObservedOK, observed
  <2> QED BY <2>1, <2>2, <2>3
<1>4. CASE CommitConfirmsRunning
  <2> DEFINE rec == RunningRecord("confirm")
  <2>1. rec \in Records /\ manifest[cur] \in Manifests
    BY <1>4 DEF CommitConfirmsRunning, RunningStays, Powered, Candidate, RunningRecord, Record,
       Records, RunOK, Manifests
  <2>2. Appends(rec) BY <1>4 DEF CommitConfirmsRunning, Wrote, HalfWrote, Appends
  <2>3. DiskOK' BY <1>4, <2>1, <2>2, AppendsKeep DEF CommitConfirmsRunning, DiskOK
  <2>4. RunOK'
    BY <1>4 DEF CommitConfirmsRunning, Succeeds, FailsDropping, IsCut, RunOK, Modes
  <2>5. high' \in Versions
    BY <2>1, <2>2 DEF Appends, Seen, RunningRecord, Record, ObservedOK, Manifests
  <2>6. ObservedOK'
    BY <1>4, <2>5 DEF CommitConfirmsRunning, Succeeds, FailsDropping, IsCut, ObservedOK
  <2> QED BY <2>3, <2>4, <2>6
<1>5. CASE CommitWritesManifest
  <2>1. ctx \in Contexts /\ ctx.slot \in Slots /\ ctx.release \in Releases
    BY <1>5 DEF CommitWritesManifest, Committing, Verified, RunOK, Contexts
  <2>2. NewManifest \in Manifests BY <2>1 DEF NewManifest, Manifests, Releases
  <2>3. DiskOK' BY <1>5, <2>1, <2>2 DEF CommitWritesManifest, DiskOK
  <2>4. RunOK' BY <1>5 DEF CommitWritesManifest, FailsDropping, IsCut, RunOK, Modes
  <2>5. ObservedOK'
    BY <1>5, <2>1, CapsAreNat DEF CommitWritesManifest, FailsDropping, IsCut, ObservedOK,
       MaxUnconfirmedBoots
  <2> QED BY <2>3, <2>4, <2>5
<1>6. \A k \in Kinds : ctx # None /\ Chunk(k, ctx.release) => ctx.release \in Releases
  BY DEF RunOK, Contexts
<1> QED BY <1>1, <1>2, <1>3, <1>4, <1>5, <1>6
-----------------------------------------------------------------------------
(* What the boot loader chooses.                                           *)

LEMMA ChosenIsCandidate == \A s : Chosen(s) => Candidate(s)
BY DEF Chosen, Choose, Candidates

(* A settled newer candidate is the one started.                           *)
LEMMA NeverBelowHigh ==
  ASSUME TypeOK, NoWayBack, NEW s \in Slots, Chosen(s)
  PROVE  manifest[s].version \in Nat /\ manifest[s].version >= high
<1>1. Candidate(s) /\ manifest[s] \in Manifests BY ChosenIsCandidate DEF Candidate
<1>2. manifest[s].version \in Nat /\ high \in Nat
  BY <1>1, VersionsAssumption DEF Manifests, TypeOK, ObservedOK
<1>3. ASSUME manifest[s].version < high PROVE FALSE
  <2>1. Outranked(s) BY <1>1, <1>3 DEF NoWayBack
  <2>2. manifest[Other(s)] \in Manifests /\ manifest[Other(s)].version \in Nat
    BY <2>1, VersionsAssumption DEF Outranked, Candidate, Manifests
  <2>3. ~Newer(manifest, s) /\ manifest[s].version # manifest[Other(s)].version
    BY <1>2, <1>3, <2>1, <2>2 DEF Outranked, Newer
  <2>4. Other(s) \in Candidates BY <2>1, TwoSlots DEF Outranked, Candidates
  <2>5. ~BootableAsNewer(log, Other(s), manifest[Other(s)])
    BY <2>3, <2>4 DEF Chosen, Choose
  <2> QED BY <2>1, <2>5 DEF BootableAsNewer, Outranked
<1> QED BY <1>2, <1>3
-----------------------------------------------------------------------------
(* The steps.                                                              *)

(* Steps that leave the flash, the running slot and the tallies alone.      *)
LEMMA IdleKeeps ==
  ASSUME IndInv,
         \/ PowerOff \/ Hang \/ BootUnlock \/ BootPinLocked \/ Lock \/ Unlock \/ Abort \/ Commit
  PROVE  Sound'
<1> USE DEF IndInv, Sound, disk, observed
<1>1. UNCHANGED <<log, manifest, image, cur, boots, high>> /\ Powered
  BY DEF PowerOff, Hang, BootUnlock, BootPinLocked, Lock, Unlock, Abort, Commit, Powered
<1>2. mode' \notin {"booting", "resetting", "confirmOld", "writeManifest"}
  BY DEF PowerOff, Hang, BootUnlock, BootPinLocked, Lock, Unlock, Abort, Commit
<1>3. RunningStays' BY <1>1 DEF RunningStays, Candidate
<1>4. ctx' = None \/ (ctx' = ctx /\ (mode' = mode \/ mode' = "eraseLog"))
  BY DEF PowerOff, Hang, BootUnlock, BootPinLocked, Lock, Unlock, Abort, Commit, Streaming, Committing
<1>5. Streaming' BY <1>1, <1>4 DEF Streaming, Committing
<1>6. Verified'
  BY <1>1 DEF PowerOff, Hang, BootUnlock, BootPinLocked, Lock, Unlock, Abort, Commit, Verified,
     Committing, ImagesMatch, Running
<1>7. NoWayBack'
  BY <1>1 DEF NoWayBack, Outranked, Candidate, Running, Settled, Confirmed
<1>8. FreshTally' BY <1>2 DEF FreshTally
<1>9. TallyEarned'
  <2>1. SUFFICES ASSUME NEW s \in Slots, manifest[s] \in Manifests,
                        boots[s] < MaxUnconfirmedBoots
                 PROVE  Tried(s)' <= boots[s]
    BY <1>1, <1>2 DEF TallyEarned
  <2>2. Tried(s)' = Tried(s) BY <1>1 DEF Tried, Attempts
  <2>3. Tried(s) \in Nat /\ boots[s] \in Nat BY TallyIsNat DEF Tried, TypeOK, ObservedOK
  <2> QED BY <2>1, <2>2, <2>3 DEF TallyEarned
<1>10. Activated' BY <1>2 DEF Activated
<1> QED BY <1>3, <1>5, <1>6, <1>7, <1>8, <1>9, <1>10

LEMMA PowerOnKeeps ==
  ASSUME IndInv, PowerOn
  PROVE  Sound'
<1> USE DEF IndInv, Sound, disk
<1>1. UNCHANGED <<log, manifest, image, high, ctx>> /\ mode = "off" BY DEF PowerOn
<1>2. mode' \in {"booting", "halted"} BY DEF PowerOn
<1>3. ctx' = None BY <1>1 DEF Streaming, Committing
<1>4. CASE mode' = "halted"
  <2>1. UNCHANGED <<cur, boots>> BY <1>4 DEF PowerOn
  <2>2. RunningStays' BY <1>1, <1>4 DEF RunningStays, Candidate, Powered
  <2>3. NoWayBack'
    BY <1>1, <1>4 DEF NoWayBack, Powered, Outranked, Candidate, Settled, Confirmed
  <2>4. TallyEarned' BY <1>1, <1>4, <2>1 DEF TallyEarned, Tried, Attempts
  <2> QED BY <1>3, <1>4, <2>2, <2>3, <2>4 DEF Streaming, Verified, Committing, FreshTally, Activated
<1>5. CASE mode' = "booting"
  <2>1. PICK s \in Slots :
          Chosen(s) /\ cur' = s /\ boots' = [boots EXCEPT ![s] = Cap(@ + 1, MaxUnconfirmedBoots)]
    BY <1>5 DEF PowerOn
  <2>2. RunningStays' BY <1>1, <2>1, ChosenIsCandidate DEF RunningStays, Candidate
  <2>3. NoWayBack'
    BY <1>1, <2>1, NeverBelowHigh
    DEF NoWayBack, Running, Outranked, Candidate, Settled, Confirmed
  <2>4. ASSUME NEW t \in Slots, manifest[t] \in Manifests, boots'[t] < MaxUnconfirmedBoots
        PROVE  Tried(t)' <= IF cur' = t THEN boots'[t] - 1 ELSE boots'[t]
    <3>1. Tried(t)' = Tried(t) BY <1>1 DEF Tried, Attempts
    <3>2. Tried(t) \in Nat /\ boots[t] \in Nat BY TallyIsNat DEF Tried, TypeOK, ObservedOK
    <3>3. boots[t] < MaxUnconfirmedBoots /\ boots'[t] = IF t = s THEN boots[t] + 1 ELSE boots[t]
      BY <2>1, <2>4, <3>2 DEF TypeOK, ObservedOK, Cap, MaxUnconfirmedBoots
    <3>4. Tried(t) <= boots[t] BY <1>1, <2>4, <3>3 DEF TallyEarned
    <3> QED BY <2>1, <3>1, <3>2, <3>3, <3>4
  <2>5. TallyEarned' BY <1>1, <1>5, <2>4 DEF TallyEarned
  <2> QED BY <1>3, <1>5, <2>2, <2>3, <2>5 DEF Streaming, Verified, Committing, FreshTally, Activated
<1> QED BY <1>2, <1>4, <1>5

(* Boot accounting: `note_boot_attempt` and `confirm_running`.              *)
LEMMA SettleKeeps ==
  ASSUME IndInv, NoteBootAttempt \/ ConfirmRunning
  PROVE  Sound'
<1> USE DEF IndInv, Sound
<1>1. Powered /\ Candidate(cur) /\ manifest[cur] \in Manifests
  BY DEF Powered, NoteBootAttempt, ConfirmRunning, RunningStays, Candidate
<1>2. cur \in Slots /\ Running \in Nat /\ high \in Nat /\ Running >= high
  BY <1>1, VersionsAssumption DEF TypeOK, RunOK, ObservedOK, Running, Manifests, NoWayBack
<1>3. PICK k \in {"attempt", "confirm"}, next \in {"started", "ready"} :
        /\ Settle(k, next) /\ UNCHANGED <<manifest, image, cur, hangs, boots>>
        /\ k = "attempt" => mode = "booting"
  BY DEF NoteBootAttempt, ConfirmRunning
<1> DEFINE rec == RunningRecord(k)
<1>4. rec \in Records BY <1>1, <1>2 DEF RunningRecord, Record, Records, Manifests
<1>5. Appends(rec) /\ mode' \in {"started", "ready", "off"}
  BY <1>1, <1>3, SettleAppends DEF Modes
<1>6. /\ \A r \in Records : (\E i \in LogIndex : log[i] = r) => \E i \in LogIndex : log'[i] = r
      /\ high' = high \/ (high' = Seen(rec) /\ \E i \in LogIndex : log'[i] = rec)
      /\ \A i \in LogIndex : log'[i] \in {log[i], rec, LogTorn}
  BY <1>4, <1>5, AppendsKeep DEF TypeOK
<1>7. ctx' = None
  BY <1>3 DEF Settle, Succeeds, Fails, IsCut, Streaming, Committing, NoteBootAttempt, ConfirmRunning
<1>8. RunningStays' BY <1>1, <1>3 DEF RunningStays, Candidate
<1>9. Streaming' /\ Verified' /\ FreshTally' /\ Activated'
  BY <1>5, <1>7 DEF Streaming, Verified, Committing, FreshTally, Activated
<1>10. ASSUME NEW s \in Slots, manifest[s] \in Manifests, Settled(log, s, manifest[s])
       PROVE  Settled(log', s, manifest[s])
  <2>1. Record("confirm", s, manifest[s].version) \in Records
    BY <1>10 DEF Record, Records, Manifests
  <2> QED BY <1>6, <1>10, <2>1 DEF Settled, Confirmed
<1>11. NoWayBack'
  <2>1. Running' = Running /\ (Powered' => Running' >= high')
    <3>1. high' = high \/ high' = Running
      BY <1>2, <1>6 DEF Seen, RunningRecord, Record, Running
    <3> QED BY <1>2, <1>3, <3>1 DEF Running
  <2>2. ASSUME NEW s \in Slots, manifest[s] \in Manifests, manifest[s].version < high'
        PROVE  Outranked(s)'
    <3>1. CASE high' = high
      <4>1. Outranked(s) BY <2>2, <3>1 DEF NoWayBack
      <4>2. Other(s) \in Slots /\ manifest[Other(s)] \in Manifests
        BY <4>1, TwoSlots DEF Outranked, Candidate
      <4>3. Settled(log', Other(s), manifest[Other(s)]) BY <1>10, <4>1, <4>2 DEF Outranked
      <4> QED BY <1>3, <3>1, <4>1, <4>3 DEF Outranked, Candidate
    <3>2. CASE high' = Seen(rec) /\ (\E i \in LogIndex : log'[i] = rec) /\ high' # high
      <4>1. rec.kind = "confirm" /\ high' = Running
        BY <3>2 DEF Seen, RunningRecord, Record, Running
      <4>2. k = "confirm" BY <4>1 DEF RunningRecord, Record
      <4>3. manifest[s].version < Running BY <2>2, <4>1
      <4>4. s # cur BY <1>2, <4>3 DEF Running
      <4>5. Other(s) = cur BY <1>2, <4>4 DEF Slots, Other
      <4>6. Settled(log', cur, manifest[cur])
        BY <3>2, <4>2 DEF Settled, Confirmed, RunningRecord
      <4> QED BY <1>1, <1>2, <1>3, <4>1, <4>5, <4>6 DEF Outranked, Candidate, Running
    <3> QED BY <1>6, <3>1, <3>2
  <2> QED BY <1>3, <2>1, <2>2 DEF NoWayBack
<1>12. TallyEarned'
  <2>1. SUFFICES ASSUME NEW s \in Slots, manifest[s] \in Manifests, boots[s] < MaxUnconfirmedBoots
                 PROVE  Attempts(log', s, manifest[s].version) <= boots[s]
    BY <1>3, <1>5 DEF TallyEarned, Tried
  <2>2. Tried(s) \in Nat /\ Attempts(log', s, manifest[s].version) \in Nat /\ boots[s] \in Nat
    BY TallyIsNat DEF Tried, TypeOK, ObservedOK
  <2>3. CASE k = "attempt" /\ s = cur
    <3>1. mode = "booting" BY <1>3, <2>3
    <3>2. Tried(s) <= boots[s] - 1 BY <2>1, <2>3, <3>1 DEF TallyEarned
    <3>3. Attempts(log', s, manifest[s].version) <= Tried(s) + 1
      <4>1. CASE log' = log BY <2>2, <4>1 DEF Tried
      <4>2. ASSUME NEW i \in LogIndex, NEW x, log' = [log EXCEPT ![i] = x]
            PROVE  Attempts(log', s, manifest[s].version) <= Tried(s) + 1
        <5>1. log \in [LogIndex -> Cells] BY DEF TypeOK, DiskOK
        <5> QED BY <4>2, <5>1, TallyGrowsByOne DEF Tried
      <4> QED BY <1>5, <4>1, <4>2 DEF Appends, NextFree
    <3> QED BY <2>2, <3>2, <3>3
  <2>4. CASE ~(k = "attempt" /\ s = cur)
    <3>1. Tried(s) <= boots[s] BY <2>1, <2>2 DEF TallyEarned
    <3>2. rec # Record("attempt", s, manifest[s].version) /\ LogTorn # Record("attempt", s, manifest[s].version)
      BY <2>4, Blanks DEF RunningRecord, Record, LogTorn
    <3>3. Attempts(log', s, manifest[s].version) <= Attempts(log, s, manifest[s].version)
      BY <1>6, <3>2, TallyMonotone
    <3> QED BY <2>2, <3>1, <3>3 DEF Tried
  <2> QED BY <2>3, <2>4
<1> QED BY <1>8, <1>9, <1>11, <1>12

(* BEGIN and CHUNK write only to the other slot.                           *)
LEMMA StreamKeeps ==
  ASSUME IndInv,
         \/ \E r \in Releases : Begin(r)
         \/ \E k \in Kinds : \E x : Chunk(k, x)
  PROVE  Sound'
<1> USE DEF IndInv, Sound
<1>1. mode = "ready" /\ UNCHANGED <<log, cur, boots, high>>
  BY DEF Begin, Chunk, observed
<1>2. cur \in Slots /\ Other(cur) # cur /\ Other(cur) \in Slots /\ Candidate(cur)
  BY <1>1, TwoSlots DEF TypeOK, RunOK, RunningStays, Powered
<1>3. mode' \in {"ready", "off"}
  BY <1>1 DEF Begin, Chunk, Fails, IsCut
<1>4. /\ image'[cur] = image[cur] /\ manifest'[cur] = manifest[cur]
      /\ manifest'[Other(cur)] \in {Erased, Torn, manifest[Other(cur)]}
  <2>1. ASSUME NEW r \in Releases, Begin(r)
        PROVE  /\ image'[cur] = image[cur] /\ manifest'[cur] = manifest[cur]
               /\ manifest'[Other(cur)] \in {Erased, Torn, manifest[Other(cur)]}
    <3>1. ErasedWhole \/ ErasedInPart BY <2>1 DEF Begin
    <3>2. CASE ErasedWhole
      BY <1>2, <3>2 DEF ErasedWhole, Inactive, TypeOK, DiskOK
    <3>3. ASSUME NEW at, NEW left, EraseAt(at, left),
                 at = "manifest" => left \in {Erased, Torn, manifest[Inactive]}
          PROVE  /\ image'[cur] = image[cur] /\ manifest'[cur] = manifest[cur]
                 /\ manifest'[Other(cur)] \in {Erased, Torn, manifest[Other(cur)]}
      <4>1. image'[cur] = image[cur]
        BY <1>2, <3>3 DEF EraseAt, Inactive, TypeOK, DiskOK
      <4>2. manifest' = manifest \/ (at = "manifest" /\ manifest' = [manifest EXCEPT ![Inactive] = left])
        BY <3>3 DEF EraseAt
      <4> QED BY <1>2, <3>3, <4>1, <4>2 DEF Inactive, TypeOK, DiskOK
    <3>4. ErasedInPart => \E at, left : EraseAt(at, left) /\
            (at = "manifest" => left \in {Erased, Torn, manifest[Inactive]})
      BY DEF ErasedInPart, Kinds
    <3> QED BY <3>1, <3>2, <3>3, <3>4
  <2>2. ASSUME NEW k \in Kinds, NEW x, Chunk(k, x)
        PROVE  /\ image'[cur] = image[cur] /\ manifest' = manifest
    <3>1. ctx.slot = Other(cur) BY <2>2 DEF Chunk, Streaming
    <3>2. image' = image \/ \E y : Programs(k, y) BY <2>2 DEF Chunk
    <3> QED BY <1>2, <2>2, <3>1, <3>2 DEF Chunk, Programs, TypeOK, DiskOK
  <2> QED BY <2>1, <2>2
<1>5. Candidate(cur)' BY <1>1, <1>2, <1>4 DEF Candidate
<1>6. RunningStays' BY <1>1, <1>2, <1>5 DEF RunningStays
<1>7. Streaming'
  <2>1. CASE \E r \in Releases : Begin(r) /\ ctx' = [slot |-> Inactive, release |-> r, got |-> [k \in Kinds |-> 0]] /\ ErasedWhole
    <3>1. ctx'.slot = Other(cur) BY <2>1 DEF Inactive
    <3>2. manifest'[Other(cur)] = Erased BY <1>2, <2>1 DEF ErasedWhole, Inactive, TypeOK, DiskOK
    <3> QED BY <1>1, <2>1, <3>1, <3>2, Blanks DEF Streaming, Begin, Fails, IsCut
  <2>2. CASE mode' = "ready" /\ (ctx' = ctx \/ (ctx # None /\ \E k, n : ctx' = [ctx EXCEPT !.got[k] = n]))
    <3>1. ctx \in Contexts \cup {None} BY DEF TypeOK, RunOK
    <3>2. CASE ctx = None /\ ctx' = ctx BY <3>2 DEF Streaming
    <3>3. CASE ctx \in Contexts
      <4>1. ctx'.slot = ctx.slot BY <2>2, <3>3 DEF Contexts
      <4>2. ctx # None BY <3>3, Blanks
      <4>3. manifest'[Other(cur)] \notin Manifests BY <1>4, <4>2, Blanks DEF Streaming
      <4> QED BY <1>1, <2>2, <4>1, <4>2, <4>3 DEF Streaming
    <3>4. ctx = None => ctx' = ctx BY <2>2
    <3> QED BY <3>1, <3>2, <3>3, <3>4
  <2>3. CASE ctx' = None BY <2>3 DEF Streaming
  <2> QED BY <1>1, <2>1, <2>2, <2>3 DEF Begin, Chunk, Fails, IsCut
<1>8. Verified' /\ FreshTally' /\ Activated'
  BY <1>3 DEF Verified, Committing, FreshTally, Activated
<1>9. NoWayBack'
  <2>1. Running' = Running /\ Running >= high BY <1>1, <1>4 DEF Running, NoWayBack, Powered
  <2>2. ASSUME NEW s \in Slots, manifest'[s] \in Manifests, manifest'[s].version < high
        PROVE  Outranked(s)'
    <3>1. Running \in Nat /\ high \in Nat
      BY <1>2, VersionsAssumption DEF Running, Candidate, Manifests, TypeOK, ObservedOK
    <3>2. s # cur BY <1>4, <2>1, <2>2, <3>1 DEF Running
    <3>3. s = Other(cur) /\ Other(s) = cur BY <1>2, <3>2 DEF Slots, Other
    <3>4. manifest'[s] = manifest[s] BY <1>4, <2>2, <3>3, Blanks
    <3>5. Outranked(s) BY <2>2, <3>4 DEF NoWayBack
    <3> QED BY <1>1, <1>4, <1>5, <3>3, <3>5 DEF Outranked, Settled, Confirmed
  <2> QED BY <1>1, <2>1, <2>2 DEF NoWayBack
<1>10. TallyEarned'
  <2>1. SUFFICES ASSUME NEW s \in Slots, manifest'[s] \in Manifests, boots[s] < MaxUnconfirmedBoots
                 PROVE  Attempts(log, s, manifest'[s].version) <= boots[s]
    BY <1>1, <1>3 DEF TallyEarned, Tried
  <2>2. manifest'[s] = manifest[s]
    <3>1. s = cur \/ s = Other(cur) BY <1>2 DEF Slots, Other
    <3> QED BY <1>4, <2>1, <3>1, Blanks
  <2> QED BY <1>1, <2>1, <2>2 DEF TallyEarned, Tried
<1> QED BY <1>6, <1>7, <1>8, <1>9, <1>10

(* COMMIT erases the log: with the other slot's manifest gone, it says       *)
(* nothing of an older release that could start instead.                   *)
LEMMA EraseKeeps ==
  ASSUME IndInv, CommitErasesLog
  PROVE  Sound'
<1> USE DEF IndInv, Sound
<1>1. mode = "eraseLog" /\ UNCHANGED <<manifest, image, cur, boots, high>>
  BY DEF CommitErasesLog, observed
<1>2. /\ ctx # None /\ ctx.slot = Other(cur) /\ manifest[Other(cur)] \notin Manifests
      /\ cur \in Slots /\ Candidate(cur) /\ Running >= high
  BY <1>1 DEF Verified, Streaming, Committing, TypeOK, RunOK, RunningStays, Powered, NoWayBack
<1>3. \/ log' = BlankLog /\ mode' = "confirmOld" /\ ctx' = ctx
      \/ /\ \E kept \in SUBSET LogIndex : \E x \in {LogErased, LogTorn} :
              log' = [i \in LogIndex |-> IF i \in kept THEN log[i] ELSE x]
         /\ mode' \in {"ready", "off"} /\ ctx' = None
  BY DEF CommitErasesLog, FreshLog, Succeeds, FailsDropping, IsCut
<1>4. RunningStays' BY <1>1, <1>2 DEF RunningStays, Candidate
<1>5. Streaming' BY <1>1, <1>2, <1>3 DEF Streaming, Committing
<1>6. Verified' BY <1>1, <1>3 DEF Verified, Committing, Running
<1>7. NoWayBack'
  <2>1. Running \in Nat /\ high \in Nat
    BY <1>2, VersionsAssumption DEF Running, Candidate, Manifests, TypeOK, ObservedOK
  <2>2. \A s \in Slots : s = cur \/ s = Other(cur) BY <1>2 DEF Slots, Other
  <2> QED BY <1>1, <1>2, <2>1, <2>2 DEF NoWayBack, Running
<1>8. FreshTally' BY <1>3 DEF FreshTally, BlankLog, LogErased
<1>9. TallyEarned'
  <2>1. SUFFICES ASSUME NEW s \in Slots, manifest[s] \in Manifests, boots[s] < MaxUnconfirmedBoots
                 PROVE  Attempts(log', s, manifest[s].version) <= boots[s]
    BY <1>1, <1>3 DEF TallyEarned, Tried
  <2>2. \A i \in LogIndex : log'[i] = Record("attempt", s, manifest[s].version) => log[i] = log'[i]
    BY <1>3, Blanks DEF BlankLog, Record, LogErased, LogTorn
  <2>3. Attempts(log', s, manifest[s].version) <= Attempts(log, s, manifest[s].version)
    BY <2>2, TallyMonotone
  <2>4. Attempts(log, s, manifest[s].version) <= boots[s]
    BY <1>1, <2>1 DEF TallyEarned, Tried
  <2> QED BY <2>3, <2>4, TallyIsNat DEF TypeOK, ObservedOK
<1>10. Activated' BY <1>3 DEF Activated
<1> QED BY <1>4, <1>5, <1>6, <1>7, <1>8, <1>9, <1>10

(* ... and confirms the running release in the new log.                     *)
LEMMA ConfirmOldKeeps ==
  ASSUME IndInv, CommitConfirmsRunning
  PROVE  Sound'
<1> USE DEF IndInv, Sound
<1>1. mode = "confirmOld" /\ UNCHANGED <<manifest, image, cur, boots>>
  BY DEF CommitConfirmsRunning
<1>2. /\ ctx # None /\ ctx.slot = Other(cur) /\ manifest[Other(cur)] \notin Manifests
      /\ cur \in Slots /\ Candidate(cur) /\ Running >= high
  BY <1>1 DEF Verified, Streaming, Committing, TypeOK, RunOK, RunningStays, Powered, NoWayBack
<1> DEFINE rec == RunningRecord("confirm")
<1>3. rec \in Records BY <1>2 DEF RunningRecord, Record, Records, Candidate, Manifests
<1>4. Appends(rec) BY DEF CommitConfirmsRunning, Wrote, HalfWrote, Appends
<1>5. /\ high' = high \/ high' = Seen(rec)
      /\ \A i \in LogIndex : log'[i] \in {log[i], rec, LogTorn}
  BY <1>3, <1>4, AppendsKeep DEF TypeOK
<1>6. \/ mode' = "writeManifest" /\ ctx' = ctx
      \/ mode' \in {"ready", "off"} /\ ctx' = None
  BY DEF CommitConfirmsRunning, Succeeds, FailsDropping, IsCut
<1>7. RunningStays' BY <1>1, <1>2 DEF RunningStays, Candidate
<1>8. Streaming' BY <1>1, <1>2, <1>6 DEF Streaming, Committing
<1>9. Verified' BY <1>1, <1>6 DEF Verified, Committing, Running
<1>10. NoWayBack'
  <2>1. Running \in Nat /\ high \in Nat
    BY <1>2, VersionsAssumption DEF Running, Candidate, Manifests, TypeOK, ObservedOK
  <2>2. \A s \in Slots : s = cur \/ s = Other(cur) BY <1>2 DEF Slots, Other
  <2>3. high' = high \/ high' = Running BY <1>5 DEF Seen, RunningRecord, Record, Running
  <2> QED BY <1>1, <1>2, <2>1, <2>2, <2>3 DEF NoWayBack, Running
<1>11. FreshTally'
  BY <1>1, <1>5 DEF FreshTally, LogTorn, RunningRecord, Record
<1>12. TallyEarned'
  <2>1. SUFFICES ASSUME NEW s \in Slots, manifest[s] \in Manifests, boots[s] < MaxUnconfirmedBoots
                 PROVE  Attempts(log', s, manifest[s].version) <= boots[s]
    BY <1>1, <1>6 DEF TallyEarned, Tried
  <2>2. \A i \in LogIndex : log'[i] = Record("attempt", s, manifest[s].version) => log[i] = log'[i]
    BY <1>5 DEF Record, RunningRecord, LogTorn
  <2>3. Attempts(log', s, manifest[s].version) <= Attempts(log, s, manifest[s].version)
    BY <2>2, TallyMonotone
  <2>4. Attempts(log, s, manifest[s].version) <= boots[s]
    BY <1>1, <2>1 DEF TallyEarned, Tried
  <2> QED BY <2>3, <2>4, TallyIsNat DEF TypeOK, ObservedOK
<1>13. Activated' BY <1>6 DEF Activated
<1> QED BY <1>7, <1>8, <1>9, <1>10, <1>11, <1>12, <1>13

(* COMMIT ends with the manifest, the one program that activates.           *)
LEMMA ActivateKeeps ==
  ASSUME IndInv, CommitWritesManifest
  PROVE  Sound'
<1> USE DEF IndInv, Sound
<1>1. mode = "writeManifest" /\ UNCHANGED <<log, image, cur, high>>
  BY DEF CommitWritesManifest
<1>2. /\ ctx # None /\ ctx.slot = Other(cur) /\ cur \in Slots /\ Candidate(cur) /\ Running >= high
      /\ image[ctx.slot] = Filled(ctx.release) /\ ctx.release.linked = ctx.slot
      /\ ctx.release.version > Running /\ ctx.release \in Releases
  BY <1>1, Blanks
  DEF Verified, Streaming, Committing, TypeOK, RunOK, RunningStays, Powered, NoWayBack, Contexts
<1>3. Other(cur) # cur /\ Other(cur) \in Slots /\ Other(Other(cur)) = cur BY <1>2, TwoSlots
<1>4. /\ manifest' = [manifest EXCEPT ![Other(cur)] = manifest'[Other(cur)]]
      /\ manifest'[Other(cur)] \in {Erased, Torn, NewManifest}
      /\ manifest'[cur] = manifest[cur]
  BY <1>2, <1>3 DEF CommitWritesManifest, TypeOK, DiskOK
<1>5. boots'[Other(cur)] = 0 /\ boots'[cur] = boots[cur]
  BY <1>2, <1>3 DEF CommitWritesManifest, TypeOK, ObservedOK
<1>6. ctx' = None /\ mode' \in {"resetting", "ready", "off"}
      /\ (mode' = "resetting" => manifest'[Other(cur)] = NewManifest)
  BY <1>2, <1>3 DEF CommitWritesManifest, FailsDropping, IsCut, TypeOK, DiskOK
<1>7. Running \in Nat /\ high \in Nat /\ NewManifest.version \in Nat /\ NewManifest.version > Running
  BY <1>2, VersionsAssumption
  DEF Running, Candidate, Manifests, TypeOK, ObservedOK, NewManifest, Releases
<1>8. \A s \in Slots : s = cur \/ s = Other(cur) BY <1>2 DEF Slots, Other
<1>9. Candidate(cur)' BY <1>1, <1>2, <1>4 DEF Candidate
<1>10. RunningStays' BY <1>1, <1>2, <1>9 DEF RunningStays
<1>11. Streaming' /\ Verified' /\ FreshTally'
  BY <1>6 DEF Streaming, Verified, Committing, FreshTally
<1>12. NoWayBack'
  BY <1>1, <1>2, <1>4, <1>7, <1>8, Blanks DEF NoWayBack, Running
<1>13. \A v : Attempts(log, Other(cur), v) = 0
  <2> TAKE v
  <2>1. {i \in LogIndex : log[i] = Record("attempt", Other(cur), v)} = {}
    BY <1>1 DEF FreshTally, Record
  <2> QED BY <2>1, FS_EmptySet DEF Attempts
<1>14. TallyEarned'
  <2>1. SUFFICES ASSUME NEW s \in Slots, manifest'[s] \in Manifests, boots'[s] < MaxUnconfirmedBoots
                 PROVE  Attempts(log, s, manifest'[s].version) <= boots'[s]
    BY <1>1, <1>6 DEF TallyEarned, Tried
  <2>2. CASE s = cur BY <1>1, <1>4, <1>5, <2>1, <2>2 DEF TallyEarned, Tried
  <2>3. CASE s = Other(cur) BY <1>5, <1>13, <2>3
  <2> QED BY <1>8, <2>2, <2>3
<1>15. Activated'
  <2>1. SUFFICES ASSUME mode' = "resetting" PROVE Chosen(Other(cur))'
    BY <1>1 DEF Activated, Inactive
  <2>2. manifest'[Other(cur)] = NewManifest BY <1>6, <2>1
  <2>3. NewManifest \in Manifests /\ NewManifest.try = "tried" /\ NewManifest.linked = Other(cur)
        /\ Release(NewManifest) = ctx.release
    BY <1>2 DEF NewManifest, Manifests, Releases, Release
  <2>4. Candidate(Other(cur))' BY <1>1, <1>2, <2>2, <2>3 DEF Candidate
  <2>5. manifest'[Other(cur)].version > manifest'[cur].version
    BY <1>4, <1>7, <2>2 DEF Running
  <2>6. BootableAsNewer(log', Other(cur), manifest'[Other(cur)])
    BY <1>1, <1>13, <2>2, <2>3 DEF BootableAsNewer, MaxUnconfirmedBoots
  <2>7. manifest'[Other(cur)].version # manifest'[cur].version /\ Newer(manifest', Other(cur))
    BY <1>3, <1>4, <1>7, <2>2, <2>5 DEF Newer, Running
  <2>8. Other(cur) \in Candidates' BY <1>1, <1>3, <2>4 DEF Candidates, Candidate
  <2>9. Choose(log', manifest', Candidates', Other(cur))
    BY <1>3, <2>6, <2>7, <2>8 DEF Choose
  <2> QED BY <1>1, <2>9 DEF Chosen
<1> QED BY <1>10, <1>11, <1>12, <1>14, <1>15
-----------------------------------------------------------------------------
(* The invariant.                                                          *)

LEMMA Start == ASSUME Init PROVE IndInv
<1> USE UpdateAssumption, LogAssumption, VersionsAssumption
<1> DEFINE m == [version |-> Factory, linked |-> "A", try |-> "committed"]
<1>1. m \in Manifests /\ Release(m) \in Releases /\ Release(m) = [version |-> Factory, linked |-> "A"]
  BY DEF Manifests, Releases, Release, Slots
<1>2. manifest["A"] = m /\ manifest["B"] = Erased /\ cur = "A" /\ "A" \in Slots
  BY DEF Init, Slots
<1>3. DiskOK
  <2>1. log \in [LogIndex -> Cells] BY DEF Init, BlankLog, Cells
  <2>2. manifest \in [Slots -> Manifests \cup {Erased, Torn}] BY <1>1 DEF Init
  <2>3. image \in [Slots -> [Kinds -> [1..Chunks -> Releases \cup {Erased, Torn}]]]
    BY <1>1 DEF Init, Filled
  <2> QED BY <2>1, <2>2, <2>3 DEF DiskOK
<1>4. RunOK BY DEF Init, RunOK, Modes, Slots
<1>5. ObservedOK BY CapsAreNat DEF Init, ObservedOK, MaxUnconfirmedBoots
<1>6. Candidate("A") BY <1>1, <1>2 DEF Candidate, Init
<1>7. RunningStays BY <1>2, <1>6 DEF RunningStays
<1>8. Streaming /\ Verified /\ FreshTally /\ Activated
  BY DEF Init, Streaming, Verified, Committing, FreshTally, Activated
<1>9. NoWayBack
  <2>1. Running >= high BY <1>2 DEF Init, Running
  <2>2. \A s \in Slots : manifest[s] \in Manifests => s = "A" /\ manifest[s].version = high
    BY <1>2, Blanks DEF Init, Slots
  <2> QED BY <2>1, <2>2 DEF NoWayBack, Init
<1>10. TallyEarned
  <2>1. \A s, v : Attempts(log, s, v) = 0
    <3> TAKE s, v
    <3>1. {i \in LogIndex : log[i] = Record("attempt", s, v)} = {}
      BY DEF Init, BlankLog, LogErased, Record
    <3> QED BY <3>1, FS_EmptySet DEF Attempts
  <2> QED BY <2>1 DEF TallyEarned, Tried, Init
<1> QED BY <1>3, <1>4, <1>5, <1>7, <1>8, <1>9, <1>10 DEF IndInv, Sound, TypeOK

LEMMA Keep == ASSUME IndInv, [Next]_vars PROVE IndInv'
<1>1. CASE UNCHANGED vars
  <2>1. TypeOK'
    BY <1>1 DEF IndInv, vars, disk, observed, TypeOK, DiskOK, RunOK, ObservedOK
  <2>2. RunningStays' /\ Streaming' /\ Verified' /\ FreshTally'
    BY <1>1 DEF IndInv, Sound, vars, disk, observed, RunningStays, Powered, Candidate, Streaming,
       Verified, Committing, Running, FreshTally
  <2>3. NoWayBack'
    BY <1>1 DEF IndInv, Sound, vars, disk, observed, NoWayBack, Powered, Running, Outranked,
       Candidate, Settled, Confirmed
  <2>4. TallyEarned'
    BY <1>1 DEF IndInv, Sound, vars, disk, observed, TallyEarned, Tried
  <2>5. Activated'
    BY <1>1 DEF IndInv, Sound, vars, disk, observed, Activated, Inactive, Chosen, Candidates, Candidate
  <2> QED BY <2>1, <2>2, <2>3, <2>4, <2>5 DEF IndInv, Sound
<1>2. CASE PowerOn BY <1>2, BootTypes, PowerOnKeeps DEF IndInv, Sound
<1>3. CASE NoteBootAttempt \/ ConfirmRunning BY <1>3, BootTypes, SettleKeeps DEF IndInv, Sound
<1>4. CASE PowerOff \/ Hang \/ BootUnlock \/ BootPinLocked \/ Lock \/ Unlock \/ Abort \/ Commit
  BY <1>4, BootTypes, IdleKeeps DEF IndInv, Sound
<1>5. CASE (\E r \in Releases : Begin(r))
             \/ (\E k \in Kinds : Chunk(k, Torn) \/ (ctx # None /\ Chunk(k, ctx.release)))
  BY <1>5, UpdateTypes, StreamKeeps DEF IndInv, Sound
<1>6. CASE CommitErasesLog BY <1>6, UpdateTypes, EraseKeeps DEF IndInv, Sound
<1>7. CASE CommitConfirmsRunning BY <1>7, UpdateTypes, ConfirmOldKeeps DEF IndInv, Sound
<1>8. CASE CommitWritesManifest BY <1>8, UpdateTypes, ActivateKeeps DEF IndInv, Sound
<1> QED BY <1>1, <1>2, <1>3, <1>4, <1>5, <1>6, <1>7, <1>8 DEF Next

(* What an update relies on holds in every reachable state: the running      *)
(* slot stays acceptable to the boot loader, a streaming context points at   *)
(* a slot without a manifest, and log and manifests never lead back.        *)
THEOREM Invariant == Spec => []IndInv
<1>1. Init => IndInv BY Start
<1>2. IndInv /\ [Next]_vars => IndInv' BY Keep
<1> QED BY <1>1, <1>2, PTL DEF Spec
-----------------------------------------------------------------------------
(* What follows from it.                                                   *)

(* Of two candidates, or of one, the boot loader starts exactly one.        *)
LEMMA ChoiceIsTotal ==
  ASSUME TypeOK, \E s \in Slots : Candidate(s)
  PROVE  AlwaysBootable
<1>1. ASSUME NEW s \in Slots, Candidate(s), ~Candidate(Other(s)) PROVE AlwaysBootable
  BY <1>1, TwoSlots DEF AlwaysBootable, Chosen, Choose, Candidates
<1>2. CASE Candidate("A") /\ Candidate("B")
  <2>1. Candidates = {"A", "B"} BY <1>2 DEF Candidates, Slots
  <2>2. Other("A") = "B" /\ Other("B") = "A" /\ "A" \in Slots /\ "B" \in Slots BY DEF Other, Slots
  <2> DEFINE va == manifest["A"].version
             vb == manifest["B"].version
  <2>3. va \in Nat /\ vb \in Nat BY <1>2, VersionsAssumption DEF Candidate, Manifests
  <2>4. CASE va = vb BY <2>1, <2>2, <2>4 DEF AlwaysBootable, Chosen, Choose
  <2>5. CASE va > vb BY <2>1, <2>2, <2>3, <2>5 DEF AlwaysBootable, Chosen, Choose, Newer
  <2>6. CASE va < vb BY <2>1, <2>2, <2>3, <2>6 DEF AlwaysBootable, Chosen, Choose, Newer
  <2> QED BY <2>3, <2>4, <2>5, <2>6
<1> QED BY <1>1, <1>2 DEF Slots, Other

(* The observers and the disk keep their types.                            *)
THEOREM TypesHold == Spec => []TypeOK
BY Invariant, PTL DEF IndInv

(* "some bootable slot is always left", for any number of releases, chunks,  *)
(* power cuts and flash faults.                                            *)
THEOREM AlwaysBoots == Spec => []AlwaysBootable
<1>1. IndInv => AlwaysBootable BY ChoiceIsTotal DEF IndInv, Sound, RunningStays
<1> QED BY <1>1, Invariant, PTL

(* A confirmed release is never left for an older one, though COMMIT erases  *)
(* the log that confirmed it: wherever the log is erased, no older release   *)
(* is left on the unit to go back to.                                      *)
THEOREM NeverBack == Spec => []NoSilentDowngrade
<1>1. IndInv => NoSilentDowngrade BY NeverBelowHigh DEF IndInv, Sound, NoSilentDowngrade
<1> QED BY <1>1, Invariant, PTL

(* A COMMIT that reports success decides the next boot.                     *)
THEOREM CommitTakesEffect == Spec => []UpdateEffective
<1>1. IndInv => UpdateEffective BY DEF IndInv, Sound, Activated, UpdateEffective
<1> QED BY <1>1, Invariant, PTL

(* The boot loader leaves a newer release only after three of its boots.    *)
THEOREM FallbackIsEarned == Spec => []FallbackEarned
<1>1. ASSUME IndInv, NEW s \in Slots, Candidate(s), Chosen(Other(s)), Newer(manifest, s)
      PROVE  boots[s] >= MaxUnconfirmedBoots
  <2>1. manifest[s] \in Manifests /\ manifest[s].try \in {"committed", "tried"}
        /\ manifest[s].version \in Nat /\ s \in Candidates /\ Other(Other(s)) = s
    BY <1>1, TwoSlots, VersionsAssumption DEF Candidate, Manifests, Candidates
  <2>2. manifest[Other(s)].version \in Nat
    BY <1>1, ChosenIsCandidate, VersionsAssumption DEF Candidate, Manifests
  <2>3. ~Newer(manifest, Other(s)) /\ manifest[Other(s)].version # manifest[s].version
    BY <1>1, <2>1, <2>2 DEF Newer
  <2>4. ~BootableAsNewer(log, s, manifest[s]) BY <1>1, <2>1, <2>3 DEF Chosen, Choose
  <2>5. ~(Tried(s) < MaxUnconfirmedBoots)
    BY <2>1, <2>4 DEF BootableAsNewer, Settled, Tried
  <2>6. Tried(s) \in Nat /\ boots[s] \in Nat
    BY <1>1, TallyIsNat DEF Tried, IndInv, TypeOK, ObservedOK
  <2>7. boots[s] < MaxUnconfirmedBoots => Tried(s) <= boots[s]
    BY <1>1, <2>1, <2>6 DEF IndInv, Sound, TallyEarned
  <2> QED BY <2>5, <2>6, <2>7 DEF MaxUnconfirmedBoots
<1>2. IndInv => FallbackEarned BY <1>1 DEF FallbackEarned
<1> QED BY <1>2, Invariant, PTL
-----------------------------------------------------------------------------
(* How often a release that hangs is started.  The log of a device with two  *)
(* releases on it began blank with the confirmation of the older one, and    *)
(* has grown since by attempts, faults and cuts alone.                      *)

Hanging == HangEarly \cup HangLate
Both == \A s \in Slots : manifest[s] \in Manifests
WrittenTo(l, n) == \A i \in LogIndex : i > n => l[i] = LogErased

(* Who gets past its own start does not hang, and only such are confirmed.   *)
Working ==
  /\ mode \in {"confirming", "ready"} \/ Committing => Running \notin Hanging
  /\ mode = "started" => Running \notin HangEarly
ConfirmedWork == \A i \in LogIndex : log[i].kind = "confirm" => log[i].version \notin Hanging

(* A COMMIT starts the log over.                                            *)
Renewed ==
  /\ mode = "confirmOld" => log = BlankLog
  /\ mode = "writeManifest" => Confirmed(log, cur, Running) /\ WrittenTo(log, 1)

(* Of two releases the older one is settled and works; the log of a newer    *)
(* one on trial is as short as its attempts allow.                          *)
OnTrial(s) == Newer(manifest, s) /\ ~Confirmed(log, s, manifest[s].version)
Rivals ==
  Both => \A s \in Slots :
    /\ manifest[s].version # manifest[Other(s)].version
    /\ ~Newer(manifest, s) => Settled(log, s, manifest[s]) /\ manifest[s].version \notin Hanging
    /\ Newer(manifest, s) => manifest[s].try = "tried"
    /\ OnTrial(s) => WrittenTo(log, 1 + Tried(s) + faults + cuts)

(* A newer release is started on attempts that are left.                    *)
OnBoot ==
  Candidate(Other(cur)) /\ ~Settled(log, cur, manifest[cur]) =>
    /\ mode = "booting" => Newer(manifest, cur) /\ Tried(cur) < MaxUnconfirmedBoots
    /\ mode = "started" =>
         /\ Newer(manifest, cur) /\ Tried(cur) <= MaxUnconfirmedBoots
         /\ hangs[cur] + 1 <= Tried(cur) + faults

(* Hangs are paid for with attempts in the log, or with faults.             *)
PaidFor ==
  \A s \in Slots : CountsItsBoot(s) =>
    /\ hangs[s] <= MaxUnconfirmedBoots + faults
    /\ hangs[s] <= Tried(s) + faults
    /\ hangs[s] > 0 => manifest[s].version \in HangLate

Probation == Working /\ ConfirmedWork /\ Renewed /\ Rivals /\ OnBoot /\ PaidFor

(* The log still takes three attempts after what cuts and faults have wasted *)
(* of it.                                                                  *)
RoomInLog == cuts + faults + MaxUnconfirmedBoots < LogCapacity
Tested == RoomInLog => Probation

(* The counters of what went wrong only rise.                               *)
LEMMA CountersRise ==
  ASSUME TypeOK, [Next]_vars
  PROVE  /\ cuts \in Nat /\ cuts' \in Nat /\ faults \in Nat /\ faults' \in Nat
         /\ cuts <= cuts' /\ faults <= faults'
<1>1. cuts \in Nat /\ faults \in Nat BY UpdateAssumption DEF TypeOK, ObservedOK
<1>2. \/ cuts' = cuts /\ faults' = faults
      \/ cuts' = cuts + 1 /\ faults' = faults
      \/ cuts' = cuts /\ faults' = faults + 1
  BY DEF Next, vars, PowerOn, PowerOff, NoteBootAttempt, Hang, BootUnlock, BootPinLocked,
     ConfirmRunning, Lock, Unlock, Begin, Chunk, Abort, Commit, CommitErasesLog,
     CommitConfirmsRunning, CommitWritesManifest, Settle, Succeeds, Fails, FailsDropping, IsCut
<1> QED BY <1>1, <1>2

(* An append costs no attempt and counts one at most; it is as long as one   *)
(* quad-word.                                                              *)
LEMMA AppendsGrow ==
  ASSUME DiskOK, NEW rec, Appends(rec)
  PROVE  /\ \A s, v : Attempts(log, s, v) <= Attempts(log', s, v)
                      /\ Attempts(log', s, v) <= Attempts(log, s, v) + 1
         /\ \A n \in Nat : WrittenTo(log, n) => WrittenTo(log', n + 1)
<1>1. log \in [LogIndex -> Cells] BY DEF DiskOK
<1>2. CASE log' = log
  <2>1. \A n \in Nat, i \in LogIndex : i > n + 1 => i > n BY LogAssumption DEF LogIndex
  <2> QED BY <1>2, <2>1, TallyIsNat DEF WrittenTo
<1>3. ASSUME NEW i \in LogIndex, NextFree(log, i), NEW x, log' = [log EXCEPT ![i] = x]
      PROVE  /\ \A s, v : Attempts(log, s, v) <= Attempts(log', s, v)
                          /\ Attempts(log', s, v) <= Attempts(log, s, v) + 1
             /\ \A n \in Nat : WrittenTo(log, n) => WrittenTo(log', n + 1)
  <2>1. log[i] = LogErased BY <1>3, LogAssumption DEF NextFree, LogIndex
  <2>2. \A s, v : Record("attempt", s, v) # LogErased BY DEF Record, LogErased
  <2>3. ASSUME NEW s, NEW v PROVE Attempts(log, s, v) <= Attempts(log', s, v)
    <3>1. \A j \in LogIndex : log[j] = Record("attempt", s, v) => log'[j] = Record("attempt", s, v)
      BY <1>1, <1>3, <2>1, <2>2
    <3> QED BY <3>1, TallyMonotone
  <2>4. ASSUME NEW s, NEW v PROVE Attempts(log', s, v) <= Attempts(log, s, v) + 1
    BY <1>1, <1>3, TallyGrowsByOne
  <2>5. ASSUME NEW n \in Nat, WrittenTo(log, n) PROVE WrittenTo(log', n + 1)
    <3>1. i <= n + 1
      <4>1. SUFFICES ASSUME i > n + 1 PROVE FALSE BY <1>3, LogAssumption DEF LogIndex
      <4>2. i - 1 \in LogIndex /\ i - 1 > n /\ i > 1 BY <4>1, LogAssumption DEF LogIndex
      <4> QED BY <1>3, <2>5, <4>2 DEF NextFree, WrittenTo
    <3>2. \A j \in LogIndex : j > n + 1 => j # i /\ j > n BY <3>1, LogAssumption DEF LogIndex
    <3> QED BY <1>1, <1>3, <2>5, <3>2 DEF WrittenTo
  <2> QED BY <2>3, <2>4, <2>5
<1> QED BY <1>2, <1>3 DEF Appends

(* An attempt that was written counts.                                      *)
LEMMA AttemptCounts ==
  ASSUME DiskOK, NEW s, NEW v, Wrote(Record("attempt", s, v))
  PROVE  Attempts(log', s, v) = Attempts(log, s, v) + 1
<1>1. PICK i \in LogIndex : NextFree(log, i) /\ log' = [log EXCEPT ![i] = Record("attempt", s, v)]
  BY DEF Wrote
<1>2. log[i] # Record("attempt", s, v) /\ log \in [LogIndex -> Cells]
  BY <1>1, LogAssumption DEF NextFree, LogIndex, LogErased, Record, DiskOK
<1> DEFINE A == {j \in LogIndex : log[j] = Record("attempt", s, v)}
           B == {j \in LogIndex : log'[j] = Record("attempt", s, v)}
<1>3. B = A \cup {i} /\ i \notin A BY <1>1, <1>2
<1>4. IsFiniteSet(A)
  <2>1. IsFiniteSet(LogIndex) BY LogAssumption, FS_Interval DEF LogIndex
  <2> QED BY <2>1, FS_Subset
<1>5. Cardinality(A \cup {i}) = IF i \in A THEN Cardinality(A) ELSE Cardinality(A) + 1
  BY <1>4, FS_AddElement
<1> HIDE DEF A, B
<1>6. Cardinality(B) = Cardinality(A) + 1 BY <1>3, <1>5
<1> QED BY <1>6 DEF Attempts, A, B

(* A bound on the written part of the log only gets looser.                 *)
LEMMA WrittenLooser ==
  ASSUME NEW l, NEW m \in Nat, NEW n \in Nat, m <= n, WrittenTo(l, m)
  PROVE  WrittenTo(l, n)
<1>1. \A i \in LogIndex : i > n => i > m BY LogAssumption DEF LogIndex
<1> QED BY <1>1 DEF WrittenTo

(* Of two releases one is newer, and only the newer one can be unsettled.    *)
LEMMA UnsettledIsNewer ==
  ASSUME TypeOK, Rivals, Both, NEW s \in Slots, ~Settled(log, s, manifest[s])
  PROVE  /\ Newer(manifest, s) /\ ~Newer(manifest, Other(s)) /\ OnTrial(s)
         /\ manifest[s].try = "tried" /\ ~OnTrial(Other(s))
<1>1. Newer(manifest, s) BY DEF Rivals
<1>2. Other(s) \in Slots /\ Other(Other(s)) = s BY TwoSlots
<1>3. manifest[s].version \in Nat /\ manifest[Other(s)].version \in Nat
  BY <1>2, VersionsAssumption DEF Both, Manifests
<1>4. ~Newer(manifest, Other(s)) BY <1>1, <1>2, <1>3 DEF Newer
<1>5. OnTrial(s) BY <1>1 DEF OnTrial, Settled
<1> QED BY <1>1, <1>4, <1>5 DEF Rivals, OnTrial
-----------------------------------------------------------------------------
(* The steps that leave the log alone.                                      *)

(* What stays true of the log and the manifests.                            *)
LEMMA SameLog ==
  ASSUME IndInv, Probation, [Next]_vars, UNCHANGED log,
         \A s \in Slots : manifest'[s] \in Manifests => manifest'[s] = manifest[s]
  PROVE  ConfirmedWork' /\ Rivals'
<1>1. ConfirmedWork' BY DEF Probation, ConfirmedWork
<1>2. /\ cuts \in Nat /\ cuts' \in Nat /\ faults \in Nat /\ faults' \in Nat
      /\ cuts <= cuts' /\ faults <= faults'
  BY CountersRise DEF IndInv
<1>3. SUFFICES ASSUME Both' PROVE Rivals' BY <1>1 DEF Rivals
<1>4. \A s \in Slots : manifest'[s] = manifest[s] BY <1>3 DEF Both
<1>5. Both BY <1>3, <1>4 DEF Both
<1>6. ASSUME NEW s \in Slots
      PROVE  /\ manifest'[s].version # manifest'[Other(s)].version
             /\ ~Newer(manifest', s) =>
                  Settled(log', s, manifest'[s]) /\ manifest'[s].version \notin Hanging
             /\ Newer(manifest', s) => manifest'[s].try = "tried"
             /\ OnTrial(s)' => WrittenTo(log', 1 + Tried(s)' + faults' + cuts')
  <2>1. manifest'[s] = manifest[s] /\ manifest'[Other(s)] = manifest[Other(s)]
    BY <1>4, TwoSlots
  <2>2. Newer(manifest', s) = Newer(manifest, s) BY <2>1 DEF Newer
  <2>3. ASSUME OnTrial(s)' PROVE WrittenTo(log', 1 + Tried(s)' + faults' + cuts')
    <3>1. OnTrial(s) BY <2>1, <2>2, <2>3 DEF OnTrial
    <3>2. WrittenTo(log, 1 + Tried(s) + faults + cuts) BY <1>5, <3>1 DEF Probation, Rivals
    <3>3. Tried(s)' = Tried(s) /\ Tried(s) \in Nat BY <2>1, TallyIsNat DEF Tried
    <3>4. WrittenTo(log, 1 + Tried(s) + faults' + cuts') BY <1>2, <3>2, <3>3, WrittenLooser
    <3> QED BY <3>3, <3>4
  <2>4. ~Newer(manifest, s) => Settled(log, s, manifest[s]) /\ manifest[s].version \notin Hanging
    BY <1>5 DEF Probation, Rivals
  <2> QED BY <1>5, <2>1, <2>2, <2>3, <2>4 DEF Probation, Rivals
<1> QED BY <1>6 DEF Rivals

(* What stays paid for.                                                     *)
LEMMA StaysPaid ==
  ASSUME IndInv, Probation, [Next]_vars,
         NEW s \in Slots, manifest'[s] = manifest[s], hangs'[s] = hangs[s], CountsItsBoot(s),
         Attempts(log, s, manifest[s].version) <= Attempts(log', s, manifest[s].version)
  PROVE  /\ hangs'[s] <= MaxUnconfirmedBoots + faults'
         /\ hangs'[s] <= Tried(s)' + faults'
         /\ hangs'[s] > 0 => manifest'[s].version \in HangLate
<1>1. faults \in Nat /\ faults' \in Nat /\ faults <= faults' BY CountersRise DEF IndInv
<1>2. Tried(s) \in Nat /\ Tried(s)' \in Nat /\ Tried(s) <= Tried(s)'
  BY TallyIsNat DEF Tried
<1>3. hangs[s] \in Nat BY CapsAreNat DEF IndInv, TypeOK, ObservedOK
<1>4. /\ hangs[s] <= MaxUnconfirmedBoots + faults
      /\ hangs[s] <= Tried(s) + faults
      /\ hangs[s] > 0 => manifest[s].version \in HangLate
  BY DEF Probation, PaidFor
<1>5. hangs[s] <= MaxUnconfirmedBoots + faults' BY <1>1, <1>3, <1>4 DEF MaxUnconfirmedBoots
<1>6. hangs[s] <= Tried(s)' + faults' BY <1>1, <1>2, <1>3, <1>4
<1> QED BY <1>4, <1>5, <1>6

LEMMA SameBooks ==
  ASSUME IndInv, Probation, [Next]_vars, UNCHANGED <<log, hangs>>,
         \A s \in Slots : manifest'[s] \in Manifests => manifest'[s] = manifest[s]
  PROVE  PaidFor'
<1>1. ASSUME NEW s \in Slots, CountsItsBoot(s)'
      PROVE  /\ hangs'[s] <= MaxUnconfirmedBoots + faults'
             /\ hangs'[s] <= Tried(s)' + faults'
             /\ hangs'[s] > 0 => manifest'[s].version \in HangLate
  <2>1. manifest'[s] = manifest[s] BY <1>1 DEF CountsItsBoot
  <2>2. CountsItsBoot(s) BY <1>1, <2>1 DEF CountsItsBoot
  <2>3. Attempts(log, s, manifest[s].version) <= Attempts(log', s, manifest[s].version)
    BY TallyIsNat
  <2> QED BY <2>1, <2>2, <2>3, StaysPaid
<1> QED BY <1>1 DEF PaidFor

(* The boot loader starts an unsettled release beside another only when it   *)
(* is the newer one and has attempts left.                                  *)
LEMMA PowerOnTests ==
  ASSUME IndInv, Probation, PowerOn
  PROVE  Probation'
<1>1. UNCHANGED <<log, manifest, image, hangs>> BY DEF PowerOn, disk
<1>2. [Next]_vars BY DEF Next
<1>3. ConfirmedWork' /\ Rivals' /\ PaidFor' BY <1>1, <1>2, SameLog, SameBooks
<1>4. mode' \in {"booting", "halted"} BY DEF PowerOn
<1>5. Working' /\ Renewed' BY <1>4 DEF Working, Committing, Renewed
<1>6. OnBoot'
  <2>1. SUFFICES ASSUME mode' = "booting", Candidate(Other(cur))', ~Settled(log, cur', manifest[cur'])
                 PROVE  Newer(manifest, cur') /\ Tried(cur)' < MaxUnconfirmedBoots
    BY <1>1, <1>4 DEF OnBoot
  <2>2. cur' \in Slots /\ Chosen(cur') BY <2>1 DEF PowerOn
  <2>3. Candidate(cur') /\ Candidate(Other(cur')) BY <1>1, <2>1, <2>2, ChosenIsCandidate DEF Candidate
  <2>4. Other(cur') \in Slots /\ Other(Other(cur')) = cur' BY <2>2, TwoSlots
  <2>5. Both
    <3>1. \A s \in Slots : s = cur' \/ s = Other(cur') BY <2>2 DEF Slots, Other
    <3> QED BY <2>3, <3>1 DEF Both, Candidate
  <2>6. Newer(manifest, cur') BY <2>1, <2>2, <2>5, UnsettledIsNewer DEF IndInv, Probation
  <2>7. manifest[cur'].version # manifest[Other(cur')].version
    BY <2>2, <2>5 DEF Probation, Rivals
  <2>8. BootableAsNewer(log, cur', manifest[cur'])
    BY <2>2, <2>3, <2>4, <2>6, <2>7 DEF Chosen, Choose, Candidates
  <2> QED BY <1>1, <2>1, <2>6, <2>8 DEF BootableAsNewer, Tried
<1> QED BY <1>3, <1>5, <1>6 DEF Probation

(* Whoever reaches the PIN prompt does not hang.                            *)
LEMMA IdleTests ==
  ASSUME IndInv, Probation,
         \/ PowerOff \/ BootUnlock \/ BootPinLocked \/ Lock \/ Unlock \/ Abort \/ Commit
  PROVE  Probation'
<1>1. UNCHANGED <<log, manifest, hangs, cur>>
  BY DEF PowerOff, BootUnlock, BootPinLocked, Lock, Unlock, Abort, Commit, disk, observed
<1>2. [Next]_vars BY DEF Next
<1>3. ConfirmedWork' /\ Rivals' /\ PaidFor' BY <1>1, <1>2, SameLog, SameBooks
<1>4. /\ mode' \in {"off", "confirming", "stuck", "ready", "eraseLog"}
      /\ mode' = "confirming" => mode = "started" /\ Running \notin HangLate
      /\ mode' \in {"ready", "eraseLog"} => mode = "ready"
  BY DEF PowerOff, BootUnlock, BootPinLocked, Lock, Unlock, Abort, Commit
<1>5. Working'
  BY <1>1, <1>4 DEF Working, Probation, Committing, Running, Hanging
<1>6. Renewed' /\ OnBoot' BY <1>4 DEF Renewed, OnBoot
<1> QED BY <1>3, <1>5, <1>6 DEF Probation

(* A hang was paid for with the attempt that its boot has logged.            *)
LEMMA HangTests ==
  ASSUME IndInv, Probation, Hang
  PROVE  Probation'
<1>1. UNCHANGED <<log, manifest, image, cur, faults>> BY DEF Hang, disk
<1>2. [Next]_vars BY DEF Next
<1>3. ConfirmedWork' /\ Rivals' BY <1>1, <1>2, SameLog
<1>4. Working' /\ Renewed' /\ OnBoot' BY DEF Hang, Working, Committing, Renewed, OnBoot
<1>5. cur \in Slots /\ Other(cur) \in Slots /\ Candidate(cur) /\ hangs \in [Slots -> 0..HangLimit]
  BY TwoSlots DEF Hang, IndInv, Sound, RunningStays, Powered, TypeOK, RunOK, ObservedOK
<1>6. ASSUME NEW s \in Slots, CountsItsBoot(s), hangs'[s] = hangs[s]
      PROVE  /\ hangs'[s] <= MaxUnconfirmedBoots + faults'
             /\ hangs'[s] <= Tried(s)' + faults'
             /\ hangs'[s] > 0 => manifest'[s].version \in HangLate
  <2>1. Attempts(log, s, manifest[s].version) <= Attempts(log', s, manifest[s].version)
    BY <1>1, TallyIsNat
  <2> QED BY <1>1, <1>2, <1>6, <2>1, StaysPaid
<1>7. ASSUME CountsItsBoot(cur), hangs'[cur] # hangs[cur]
      PROVE  /\ hangs'[cur] <= MaxUnconfirmedBoots + faults
             /\ hangs'[cur] <= Tried(cur) + faults
             /\ hangs'[cur] > 0 => manifest[cur].version \in HangLate
  <2>1. Candidate(Other(cur)) /\ hangs'[cur] = Cap(hangs[cur] + 1, HangLimit)
    BY <1>5, <1>7 DEF Hang
  <2>2. mode = "started" /\ Running \in HangLate
    BY <1>7 DEF Hang, HangingAt, CountsItsBoot, Running
  <2>3. Both
    <3>1. \A s \in Slots : s = cur \/ s = Other(cur) BY <1>5 DEF Slots, Other
    <3> QED BY <1>5, <2>1, <3>1 DEF Both, Candidate
  <2>4. Newer(manifest, cur) /\ manifest[cur].try = "tried"
    BY <1>5, <2>2, <2>3 DEF Probation, Rivals, Hanging, Running
  <2>5. ~Settled(log, cur, manifest[cur])
    BY <2>2, <2>4 DEF Settled, Confirmed, Probation, ConfirmedWork, Record, Hanging, Running
  <2>6. Tried(cur) <= MaxUnconfirmedBoots /\ hangs[cur] + 1 <= Tried(cur) + faults
    BY <2>1, <2>2, <2>5 DEF Probation, OnBoot
  <2>7. Tried(cur) \in Nat /\ faults \in Nat /\ hangs[cur] \in Nat /\ HangLimit \in Nat
    BY <1>5, CapsAreNat, TallyIsNat, UpdateAssumption DEF Tried, IndInv, TypeOK, ObservedOK
  <2>8. hangs'[cur] <= hangs[cur] + 1 /\ hangs'[cur] \in Nat BY <2>1, <2>7 DEF Cap
  <2> QED BY <2>2, <2>6, <2>7, <2>8 DEF MaxUnconfirmedBoots, Running
<1>8. \A s \in Slots : s # cur => hangs'[s] = hangs[s] BY <1>5 DEF Hang
<1>9. \A s \in Slots : Tried(s)' = Tried(s) /\ (CountsItsBoot(s)' <=> CountsItsBoot(s))
  BY <1>1 DEF Tried, CountsItsBoot
<1>10. PaidFor'
  <2>1. ASSUME NEW s \in Slots, CountsItsBoot(s)'
        PROVE  /\ hangs'[s] <= MaxUnconfirmedBoots + faults'
               /\ hangs'[s] <= Tried(s)' + faults'
               /\ hangs'[s] > 0 => manifest'[s].version \in HangLate
    <3>1. CountsItsBoot(s) BY <1>9, <2>1
    <3>2. CASE hangs'[s] = hangs[s] BY <1>6, <3>1, <3>2
    <3>3. CASE hangs'[s] # hangs[s]
      <4>1. s = cur BY <1>8, <3>3
      <4> QED BY <1>1, <1>7, <1>9, <3>1, <3>3, <4>1
    <3> QED BY <3>2, <3>3
  <2> QED BY <2>1 DEF PaidFor
<1> QED BY <1>3, <1>4, <1>10 DEF Probation

(* BEGIN and CHUNK take the other slot's manifest or leave it.               *)
LEMMA StreamTests ==
  ASSUME IndInv, Probation,
         \/ \E r \in Releases : Begin(r)
         \/ \E k \in Kinds : Chunk(k, Torn) \/ (ctx # None /\ Chunk(k, ctx.release))
  PROVE  Probation'
<1>1. mode = "ready" /\ UNCHANGED <<log, cur, hangs>> /\ mode' \in {"ready", "off"}
  BY DEF Begin, Chunk, observed, Fails, IsCut
<1>2. [Next]_vars BY DEF Next
<1>3. cur \in Slots /\ Other(cur) # cur /\ Other(cur) \in Slots
      /\ manifest \in [Slots -> Manifests \cup {Erased, Torn}]
  BY TwoSlots DEF IndInv, TypeOK, RunOK, DiskOK
<1>4. manifest' = manifest
      \/ (\E x \in {Erased, Torn, manifest[Other(cur)]} : manifest' = [manifest EXCEPT ![Other(cur)] = x])
  BY DEF Begin, Chunk, ErasedWhole, ErasedInPart, EraseAt, Inactive, Kinds
<1>5. \A s \in Slots : manifest'[s] \in Manifests => manifest'[s] = manifest[s]
  BY <1>3, <1>4, Blanks
<1>6. manifest'[cur] = manifest[cur] BY <1>3, <1>4
<1>7. ConfirmedWork' /\ Rivals' /\ PaidFor' BY <1>1, <1>2, <1>5, SameLog, SameBooks
<1>8. Working' BY <1>1, <1>6 DEF Probation, Working, Committing, Running
<1>9. Renewed' /\ OnBoot' BY <1>1 DEF Renewed, OnBoot
<1> QED BY <1>7, <1>8, <1>9 DEF Probation
-----------------------------------------------------------------------------
(* Boot accounting.                                                         *)

(* What `settle` leaves: the log as it was, when nothing is on trial or no   *)
(* quad-word is left, or the record, or what a fault or a cut left of it.     *)
Skips(next) ==
  /\ ~NeedsSettling \/ Full(log)
  /\ log' = log /\ mode' = next /\ UNCHANGED <<cuts, faults>>
Writes(kind, next) ==
  /\ NeedsSettling /\ Appends(RunningRecord(kind))
  /\ \/ Wrote(RunningRecord(kind)) /\ mode' = next /\ UNCHANGED <<cuts, faults>>
     \/ mode' = next /\ faults' = faults + 1 /\ cuts' = cuts
     \/ mode' = "off" /\ cuts' = cuts + 1 /\ faults' = faults
LEMMA SettleEnds ==
  ASSUME NEW kind, NEW next, Settle(kind, next)
  PROVE  Skips(next) \/ Writes(kind, next)
BY DEF Settle, Skips, Writes, Wrote, HalfWrote, Appends, Succeeds, Fails, IsCut

(* A record more on a release that is on trial.                             *)
LEMMA SettleTests ==
  ASSUME IndInv, Probation, RoomInLog, NoteBootAttempt \/ ConfirmRunning
  PROVE  Probation'
<1>1. PICK k \in {"attempt", "confirm"}, next \in {"started", "ready"} :
        /\ Settle(k, next) /\ UNCHANGED <<manifest, image, cur, hangs, boots>>
        /\ k = "attempt" => mode = "booting" /\ next = "started" /\ Running \notin HangEarly
        /\ k = "confirm" => mode = "confirming" /\ next = "ready"
  BY DEF NoteBootAttempt, ConfirmRunning
<1>2. [Next]_vars BY DEF Next
<1>3. Powered /\ Candidate(cur) /\ manifest[cur] \in Manifests /\ cur \in Slots /\ Other(cur) \in Slots
  BY <1>1, TwoSlots DEF Powered, IndInv, Sound, RunningStays, Candidate, TypeOK, RunOK
<1>4. /\ cuts \in Nat /\ cuts' \in Nat /\ faults \in Nat /\ faults' \in Nat
      /\ cuts <= cuts' /\ faults <= faults'
  BY <1>2, CountersRise DEF IndInv
<1> DEFINE rec == RunningRecord(k)
<1>5. rec \in Records /\ DiskOK
  BY <1>3 DEF RunningRecord, Record, Records, Manifests, IndInv, TypeOK
<1>6. Skips(next) \/ Writes(k, next) BY <1>1, SettleEnds
<1>7. Appends(rec) \/ log' = log BY <1>6 DEF Skips, Writes
<1>8. \A s, v : Attempts(log, s, v) <= Attempts(log', s, v)
                /\ Attempts(log', s, v) <= Attempts(log, s, v) + 1
  BY <1>5, <1>7, AppendsGrow, TallyIsNat
<1>9. \A r \in Records : (\E i \in LogIndex : log[i] = r) => \E i \in LogIndex : log'[i] = r
  BY <1>5, <1>7, AppendsKeep
<1>10. mode' \in {next, "off"} BY <1>6 DEF Skips, Writes
<1>11. k = "confirm" => Running \notin Hanging BY <1>1 DEF Probation, Working
<1>12. Working'
  BY <1>1, <1>10, <1>11 DEF Working, Committing, Running
<1>13. Renewed' BY <1>10 DEF Renewed
<1>14. ConfirmedWork'
  <2>1. \A i \in LogIndex : log'[i] \in {log[i], rec, LogTorn} BY <1>5, <1>7, AppendsKeep
  <2>2. rec.kind = "confirm" => rec.version \notin Hanging
    BY <1>11 DEF RunningRecord, Record, Running
  <2>3. LogTorn.kind # "confirm" BY DEF LogTorn
  <2> QED BY <2>1, <2>2, <2>3 DEF Probation, ConfirmedWork
<1>15. PaidFor'
  <2>1. ASSUME NEW s \in Slots, CountsItsBoot(s)'
        PROVE  /\ hangs'[s] <= MaxUnconfirmedBoots + faults'
               /\ hangs'[s] <= Tried(s)' + faults'
               /\ hangs'[s] > 0 => manifest'[s].version \in HangLate
    <3>1. CountsItsBoot(s) BY <1>1, <2>1 DEF CountsItsBoot
    <3> QED BY <1>1, <1>2, <1>8, <3>1, StaysPaid
  <2> QED BY <2>1 DEF PaidFor
<1>16. \A s \in Slots : Tried(s) \in Nat /\ Attempts(log', s, manifest[s].version) \in Nat
                        /\ Tried(s)' = Attempts(log', s, manifest[s].version)
  BY <1>1, TallyIsNat DEF Tried
<1>17. ASSUME NEW s \in Slots, Settled(log, s, manifest[s]), manifest[s] \in Manifests
       PROVE  Settled(log', s, manifest[s])
  <2>1. Record("confirm", s, manifest[s].version) \in Records BY <1>17 DEF Record, Records, Manifests
  <2> QED BY <1>9, <1>17, <2>1 DEF Settled, Confirmed
(* On trial is the running release, if its log changes.                     *)
<1>18. ASSUME NEW s \in Slots, Both, OnTrial(s), ~Confirmed(log', s, manifest[s].version)
       PROVE  WrittenTo(log', 1 + Attempts(log', s, manifest[s].version) + faults' + cuts')
  <2> DEFINE n == 1 + Tried(s) + faults + cuts
             m == 1 + Attempts(log', s, manifest[s].version) + faults' + cuts'
  <2>1. WrittenTo(log, n) BY <1>18 DEF Probation, Rivals
  <2>2. Tried(s) <= Attempts(log', s, manifest[s].version) BY <1>8 DEF Tried
  <2>3. n \in Nat /\ m \in Nat /\ n <= m BY <1>4, <1>16, <2>2
  <2>4. CASE Skips(next)
    <3>1. WrittenTo(log', n) BY <2>1, <2>4 DEF Skips
    <3> HIDE DEF n, m
    <3> QED BY <2>3, <3>1, WrittenLooser DEF m
  <2>5. CASE Writes(k, next)
    <3>1. WrittenTo(log', n + 1)
      <4>1. Appends(rec) BY <2>5 DEF Writes
      <4> HIDE DEF n
      <4> QED BY <1>5, <2>1, <2>3, <4>1, AppendsGrow
    <3>2. n + 1 <= m
      <4>1. CASE faults' = faults + 1 /\ cuts' = cuts BY <1>4, <1>16, <2>2, <4>1
      <4>2. CASE cuts' = cuts + 1 /\ faults' = faults BY <1>4, <1>16, <2>2, <4>2
      <4>3. CASE Wrote(rec) /\ UNCHANGED <<cuts, faults>>
        <5>1. s = cur
          <6>1. ~Settled(log, cur, manifest[cur]) BY <1>3, <2>5 DEF Writes, NeedsSettling, Settled
          <6>2. ~OnTrial(Other(cur))
            BY <1>3, <1>18, <6>1, UnsettledIsNewer DEF IndInv, Probation
          <6>3. s = cur \/ s = Other(cur) BY <1>3 DEF Slots, Other
          <6> QED BY <1>18, <6>2, <6>3
        <5>2. k = "attempt"
          <6>1. SUFFICES ASSUME k = "confirm" PROVE FALSE OBVIOUS
          <6>2. \E i \in LogIndex : log'[i] = rec
            BY <1>5, <4>3 DEF Wrote, DiskOK
          <6> QED BY <1>18, <5>1, <6>1, <6>2 DEF Confirmed, RunningRecord
        <5>3. Attempts(log', s, manifest[s].version) = Tried(s) + 1
          BY <1>5, <4>3, <5>1, <5>2, AttemptCounts DEF RunningRecord, Tried
        <5> QED BY <1>4, <1>16, <4>3, <5>3
      <4> QED BY <2>5, <4>1, <4>2, <4>3 DEF Writes
    <3> HIDE DEF n, m
    <3> QED BY <2>3, <3>1, <3>2, WrittenLooser DEF m
  <2> QED BY <1>6, <2>4, <2>5
<1>19. Rivals'
  <2>1. SUFFICES ASSUME Both PROVE Rivals' BY <1>1 DEF Rivals, Both
  <2>2. ASSUME NEW s \in Slots
        PROVE  /\ manifest'[s].version # manifest'[Other(s)].version
               /\ ~Newer(manifest', s) =>
                    Settled(log', s, manifest'[s]) /\ manifest'[s].version \notin Hanging
               /\ Newer(manifest', s) => manifest'[s].try = "tried"
               /\ OnTrial(s)' => WrittenTo(log', 1 + Tried(s)' + faults' + cuts')
    <3>1. manifest' = manifest /\ manifest[s] \in Manifests BY <1>1, <2>1 DEF Both
    <3>2. ASSUME OnTrial(s)' PROVE WrittenTo(log', 1 + Tried(s)' + faults' + cuts')
      <4>1. ~Confirmed(log', s, manifest[s].version) /\ Newer(manifest, s)
        BY <3>1, <3>2 DEF OnTrial
      <4>2. ~Settled(log, s, manifest[s])
        BY <1>17, <2>1, <3>1, <4>1 DEF Settled, Probation, Rivals
      <4>3. OnTrial(s) BY <4>1, <4>2 DEF OnTrial, Settled
      <4> QED BY <1>16, <1>18, <2>1, <4>1, <4>3
    <3>3. ~Newer(manifest, s) => Settled(log', s, manifest[s])
      BY <1>17, <2>1, <3>1 DEF Probation, Rivals
    <3> QED BY <2>1, <3>1, <3>2, <3>3 DEF Probation, Rivals
  <2> QED BY <2>2 DEF Rivals
<1>20. OnBoot'
  <2>1. SUFFICES ASSUME mode' = "started", Candidate(Other(cur)), ~Settled(log', cur, manifest[cur])
                 PROVE  /\ Newer(manifest, cur) /\ Tried(cur)' <= MaxUnconfirmedBoots
                        /\ hangs[cur] + 1 <= Tried(cur)' + faults'
    <3>1. mode' # "booting" BY <1>10
    <3>2. Candidate(Other(cur))' <=> Candidate(Other(cur)) BY <1>1 DEF Candidate
    <3>3. Newer(manifest, cur)' <=> Newer(manifest, cur) BY <1>1
    <3> QED BY <1>1, <3>1, <3>2, <3>3 DEF OnBoot
  <2>2. k = "attempt" /\ mode = "booting" /\ Running \notin HangEarly BY <1>1, <1>10, <2>1
  <2>3. ~Settled(log, cur, manifest[cur]) BY <1>3, <1>17, <2>1
  <2>4. Newer(manifest, cur) /\ Tried(cur) < MaxUnconfirmedBoots
    BY <2>1, <2>2, <2>3 DEF Probation, OnBoot
  <2>5. Both
    <3>1. \A s \in Slots : s = cur \/ s = Other(cur) BY <1>3 DEF Slots, Other
    <3> QED BY <1>3, <2>1, <3>1 DEF Both, Candidate
  <2>6. OnTrial(cur) /\ manifest[cur].try = "tried"
    BY <1>3, <2>3, <2>5, UnsettledIsNewer DEF IndInv, Probation
  <2>7. Writes(k, next)
    <3>1. NeedsSettling BY <2>6 DEF NeedsSettling, OnTrial
    <3>2. WrittenTo(log, 1 + Tried(cur) + faults + cuts) BY <1>3, <2>5, <2>6 DEF Probation, Rivals
    <3>3. 1 + Tried(cur) + faults + cuts < LogCapacity /\ LogCapacity \in LogIndex
      BY <1>3, <1>4, <1>16, <2>4, LogAssumption DEF RoomInLog, MaxUnconfirmedBoots, LogIndex
    <3>4. ~Full(log) BY <3>2, <3>3 DEF WrittenTo, Full
    <3> QED BY <1>6, <3>1, <3>4 DEF Skips
  <2>8. hangs[cur] \in Nat /\ hangs[cur] <= Tried(cur) + faults
    <3>1. CountsItsBoot(cur) BY <1>3, <2>2 DEF CountsItsBoot, Running
    <3> QED BY <1>3, <3>1, CapsAreNat DEF Probation, PaidFor, IndInv, TypeOK, ObservedOK
  <2> DEFINE now == Attempts(log', cur, manifest[cur].version)
  <2>9. /\ Tried(cur)' = now /\ now \in Nat /\ Tried(cur) \in Nat
        /\ Tried(cur) <= now /\ now <= Tried(cur) + 1
    BY <1>1, <1>3, <1>8, TallyIsNat DEF Tried
  <2>10. (Wrote(rec) /\ now = Tried(cur) + 1 /\ faults' = faults) \/ faults' = faults + 1
    <3>1. Wrote(rec) => now = Tried(cur) + 1
      BY <1>5, <2>2, AttemptCounts DEF RunningRecord, Tried
    <3> QED BY <2>1, <2>7, <3>1 DEF Writes
  <2> HIDE DEF now
  <2>11. now <= MaxUnconfirmedBoots /\ hangs[cur] + 1 <= now + faults'
    BY <1>4, <2>4, <2>8, <2>9, <2>10 DEF MaxUnconfirmedBoots
  <2> QED BY <2>4, <2>9, <2>11
<1> QED BY <1>12, <1>13, <1>14, <1>15, <1>19, <1>20 DEF Probation
-----------------------------------------------------------------------------
(* COMMIT.  With the other slot's manifest gone and the running release one  *)
(* that works, the log may be started over.                                 *)
LEMMA CommitTests ==
  ASSUME IndInv, Probation, CommitErasesLog \/ CommitConfirmsRunning
  PROVE  Probation'
<1>1. /\ UNCHANGED <<manifest, image, cur, hangs>> /\ Committing
      /\ mode' \in {"ready", "off", "confirmOld", "writeManifest"}
  BY DEF CommitErasesLog, CommitConfirmsRunning, Committing, Succeeds, FailsDropping, IsCut, observed
<1>2. cur \in Slots /\ Running \notin Hanging /\ Candidate(cur) /\ manifest[cur] \in Manifests
  BY <1>1 DEF IndInv, Sound, RunningStays, Powered, Committing, Candidate, TypeOK, RunOK,
     Probation, Working
<1>3. manifest[Other(cur)] \notin Manifests /\ Other(cur) \in Slots
      /\ \A s \in Slots : s = cur \/ s = Other(cur)
  BY <1>1, <1>2, TwoSlots DEF IndInv, Sound, Verified, Streaming, Slots, Other
<1>4. Rivals' BY <1>1, <1>3 DEF Rivals, Both
<1>5. Working' BY <1>1, <1>2 DEF Working, Running
<1>6. OnBoot' BY <1>1 DEF OnBoot
<1>7. PaidFor'
  <2>1. hangs[cur] = 0
    <3>1. CountsItsBoot(cur) /\ manifest[cur].version \notin HangLate
      BY <1>2 DEF CountsItsBoot, Running, Hanging
    <3>2. hangs[cur] \in Nat BY <1>2, CapsAreNat DEF IndInv, TypeOK, ObservedOK
    <3> QED BY <1>2, <3>1, <3>2 DEF Probation, PaidFor
  <2>2. faults' \in Nat
    <3>1. [Next]_vars BY DEF Next
    <3> QED BY <3>1, CountersRise DEF IndInv
  <2>3. ASSUME NEW s \in Slots, CountsItsBoot(s)'
        PROVE  /\ hangs'[s] <= MaxUnconfirmedBoots + faults'
               /\ hangs'[s] <= Tried(s)' + faults'
               /\ hangs'[s] > 0 => manifest'[s].version \in HangLate
    <3>1. s = cur BY <1>1, <1>3, <2>3 DEF CountsItsBoot
    <3>2. hangs'[s] = 0 BY <1>1, <2>1, <3>1
    <3>3. Tried(s)' \in Nat BY TallyIsNat DEF Tried
    <3>4. PICK t \in Nat, f \in Nat : t = Tried(s)' /\ f = faults' BY <2>2, <3>3
    <3>5. 0 <= MaxUnconfirmedBoots + f /\ 0 <= t + f BY DEF MaxUnconfirmedBoots
    <3> QED BY <3>2, <3>4, <3>5
  <2> QED BY <2>3 DEF PaidFor
<1>8. ConfirmedWork' /\ Renewed'
  <2>1. CASE CommitErasesLog
    <3>1. \A i \in LogIndex : log'[i] \in {log[i], LogErased, LogTorn}
      BY <2>1 DEF CommitErasesLog, FreshLog, BlankLog
    <3>2. ConfirmedWork' BY <3>1 DEF Probation, ConfirmedWork, LogErased, LogTorn
    <3>3. mode' # "writeManifest" /\ (mode' = "confirmOld" => log' = BlankLog)
      BY <2>1 DEF CommitErasesLog, FreshLog, Succeeds, FailsDropping, IsCut
    <3> QED BY <3>2, <3>3 DEF Renewed
  <2>2. CASE CommitConfirmsRunning
    <3> DEFINE rec == RunningRecord("confirm")
    <3>1. rec \in Records /\ DiskOK
      BY <1>2 DEF RunningRecord, Record, Records, Manifests, IndInv, TypeOK
    <3>2. Appends(rec) /\ (mode' = "writeManifest" => Wrote(rec)) /\ mode' # "confirmOld"
      BY <2>2 DEF CommitConfirmsRunning, Wrote, HalfWrote, Appends, Succeeds, FailsDropping, IsCut
    <3>3. \A i \in LogIndex : log'[i] \in {log[i], rec, LogTorn} BY <3>1, <3>2, AppendsKeep
    <3>4. rec.version \notin Hanging /\ LogTorn.kind # "confirm"
      BY <1>2 DEF RunningRecord, Record, Running, LogTorn
    <3>5. ConfirmedWork' BY <3>3, <3>4 DEF Probation, ConfirmedWork
    <3>6. ASSUME Wrote(rec) PROVE Confirmed(log', cur, Running) /\ WrittenTo(log', 1)
      <4>1. log = BlankLog BY <2>2 DEF CommitConfirmsRunning, Probation, Renewed
      <4>2. PICK i \in LogIndex : NextFree(log, i) /\ log' = [log EXCEPT ![i] = rec]
        BY <3>6 DEF Wrote
      <4>3. i = 1 BY <4>1, <4>2, LogAssumption DEF NextFree, BlankLog, LogIndex
      <4> QED BY <4>1, <4>2, <4>3 DEF Confirmed, RunningRecord, Running, WrittenTo, BlankLog, LogIndex
    <3>7. Running' = Running BY <1>1 DEF Running
    <3> QED BY <1>1, <3>2, <3>5, <3>6, <3>7 DEF Renewed
  <2> QED BY <2>1, <2>2
<1> QED BY <1>4, <1>5, <1>6, <1>7, <1>8 DEF Probation

(* The manifest puts a newer release beside a settled one that works.        *)
LEMMA ActivateTests ==
  ASSUME IndInv, Probation, CommitWritesManifest
  PROVE  Probation'
<1>1. UNCHANGED <<log, image, cur>> /\ Committing /\ mode' \in {"resetting", "ready", "off"}
  BY DEF CommitWritesManifest, Committing, FailsDropping, IsCut
<1>2. cur \in Slots /\ Running \notin Hanging /\ Candidate(cur) /\ manifest[cur] \in Manifests
  BY <1>1 DEF IndInv, Sound, RunningStays, Powered, Committing, Candidate, TypeOK, RunOK,
     Probation, Working
<1>3. /\ Other(cur) \in Slots /\ Other(cur) # cur /\ Other(Other(cur)) = cur
      /\ \A s \in Slots : s = cur \/ s = Other(cur)
  BY <1>2, TwoSlots DEF Slots, Other
<1>4. ctx.slot = Other(cur) /\ ctx.release.version > Running /\ ctx.release \in Releases
  BY <1>1, Blanks DEF IndInv, Sound, Verified, Streaming, TypeOK, RunOK, Contexts
<1>5. /\ manifest'[Other(cur)] \in {Erased, Torn, NewManifest}
      /\ manifest'[cur] = manifest[cur]
      /\ hangs'[Other(cur)] = 0 /\ hangs'[cur] = hangs[cur]
  BY <1>2, <1>3, <1>4 DEF CommitWritesManifest, IndInv, TypeOK, DiskOK, ObservedOK
<1>6. [Next]_vars BY DEF Next
<1>7. faults' \in Nat /\ cuts' \in Nat BY <1>6, CountersRise DEF IndInv
<1>8. ConfirmedWork' BY <1>1 DEF Probation, ConfirmedWork
<1>9. Working' /\ Renewed' /\ OnBoot'
  BY <1>1, <1>2, <1>5 DEF Working, Committing, Running, Renewed, OnBoot
<1>10. Rivals'
  <2>1. SUFFICES ASSUME Both' PROVE Rivals' BY DEF Rivals
  <2>2. manifest'[Other(cur)] = NewManifest BY <1>3, <1>5, <2>1, Blanks DEF Both
  <2>3. /\ manifest[cur].version \in Nat /\ NewManifest.version \in Nat
        /\ NewManifest.version > manifest[cur].version /\ NewManifest.try = "tried"
    BY <1>2, <1>4, VersionsAssumption DEF NewManifest, Releases, Manifests, Running
  <2>4. Newer(manifest', Other(cur)) /\ ~Newer(manifest', cur)
    BY <1>3, <1>5, <2>2, <2>3 DEF Newer
  <2>5. Confirmed(log, cur, manifest[cur].version) /\ WrittenTo(log, 1)
    BY DEF CommitWritesManifest, Probation, Renewed, Running
  <2>6. Settled(log, cur, manifest[cur]) /\ manifest[cur].version \notin Hanging
    BY <1>2, <2>5 DEF Settled, Running
  <2>7. WrittenTo(log', 1 + Tried(Other(cur))' + faults' + cuts')
    <3>1. Tried(Other(cur))' \in Nat BY TallyIsNat DEF Tried
    <3>2. 1 \in Nat /\ 1 + Tried(Other(cur))' + faults' + cuts' \in Nat
          /\ 1 <= 1 + Tried(Other(cur))' + faults' + cuts'
      BY <1>7, <3>1
    <3> QED BY <1>1, <2>5, <3>2, WrittenLooser
  <2>8. ASSUME NEW s \in Slots
        PROVE  /\ manifest'[s].version # manifest'[Other(s)].version
               /\ ~Newer(manifest', s) =>
                    Settled(log', s, manifest'[s]) /\ manifest'[s].version \notin Hanging
               /\ Newer(manifest', s) => manifest'[s].try = "tried"
               /\ OnTrial(s)' => WrittenTo(log', 1 + Tried(s)' + faults' + cuts')
    <3>1. CASE s = cur
      <4>1. ~OnTrial(s)' BY <1>1, <1>3, <2>4, <3>1 DEF OnTrial
      <4> QED BY <1>1, <1>3, <1>5, <2>2, <2>3, <2>4, <2>6, <3>1, <4>1
    <3>2. CASE s = Other(cur)
      <4>1. Tried(s)' = Tried(Other(cur))' BY <1>1, <3>2
      <4>2. WrittenTo(log', 1 + Tried(s)' + faults' + cuts') BY <2>7, <4>1
      <4> QED BY <1>1, <1>3, <1>5, <2>2, <2>3, <2>4, <3>2, <4>2
    <3> QED BY <1>3, <3>1, <3>2
  <2> QED BY <2>8 DEF Rivals
<1>11. PaidFor'
  <2>1. ASSUME NEW s \in Slots, CountsItsBoot(s)'
        PROVE  /\ hangs'[s] <= MaxUnconfirmedBoots + faults'
               /\ hangs'[s] <= Tried(s)' + faults'
               /\ hangs'[s] > 0 => manifest'[s].version \in HangLate
    <3>1. CASE s = cur
      <4>1. CountsItsBoot(s) BY <1>5, <2>1, <3>1 DEF CountsItsBoot
      <4>2. Attempts(log, s, manifest[s].version) <= Attempts(log', s, manifest[s].version)
        BY <1>1, TallyIsNat
      <4> QED BY <1>5, <1>6, <3>1, <4>1, <4>2, StaysPaid
    <3>2. CASE s = Other(cur)
      <4>1. Tried(s)' \in Nat BY TallyIsNat DEF Tried
      <4> QED BY <1>5, <1>7, <3>2, <4>1 DEF MaxUnconfirmedBoots
    <3> QED BY <1>3, <3>1, <3>2
  <2> QED BY <2>1 DEF PaidFor
<1> QED BY <1>8, <1>9, <1>10, <1>11 DEF Probation
-----------------------------------------------------------------------------
LEMMA StartTested == ASSUME Init PROVE Probation
<1>1. manifest["B"] \notin Manifests /\ "B" \in Slots BY Blanks DEF Init, Slots
<1>2. Rivals BY <1>1 DEF Rivals, Both
<1>3. Working /\ Renewed /\ OnBoot BY DEF Init, Working, Committing, Renewed, OnBoot
<1>4. ConfirmedWork BY DEF Init, ConfirmedWork, BlankLog, LogErased
<1>5. PaidFor
  <2>1. \A s \in Slots : Tried(s) \in Nat /\ hangs[s] = 0 BY TallyIsNat DEF Tried, Init
  <2>2. faults = 0 BY DEF Init
  <2> QED BY <2>1, <2>2 DEF PaidFor, MaxUnconfirmedBoots
<1> QED BY <1>2, <1>3, <1>4, <1>5 DEF Probation

LEMMA KeepTested == ASSUME IndInv, Tested, [Next]_vars PROVE Tested'
<1>1. SUFFICES ASSUME RoomInLog' PROVE Probation' BY DEF Tested
<1>2. RoomInLog
  BY <1>1, CountersRise, LogAssumption DEF IndInv, RoomInLog, MaxUnconfirmedBoots
<1>3. Probation BY <1>2 DEF Tested
<1>4. CASE UNCHANGED vars
  <2>1. UNCHANGED <<log, manifest, image, cur, mode, hangs, faults>> BY <1>4 DEF vars, disk, observed
  <2>2. ConfirmedWork' /\ Rivals' /\ PaidFor' BY <1>3, <2>1, SameLog, SameBooks
  <2>3. Working' /\ Renewed'
    BY <1>3, <2>1 DEF Probation, Working, Committing, Running, Renewed
  <2>4. OnBoot' BY <1>3, <2>1 DEF Probation, OnBoot, Candidate, Tried
  <2> QED BY <2>2, <2>3, <2>4 DEF Probation
<1>5. CASE PowerOn BY <1>3, <1>5, PowerOnTests
<1>6. CASE NoteBootAttempt \/ ConfirmRunning BY <1>2, <1>3, <1>6, SettleTests
<1>7. CASE Hang BY <1>3, <1>7, HangTests
<1>8. CASE PowerOff \/ BootUnlock \/ BootPinLocked \/ Lock \/ Unlock \/ Abort \/ Commit
  BY <1>3, <1>8, IdleTests
<1>9. CASE (\E r \in Releases : Begin(r))
             \/ (\E k \in Kinds : Chunk(k, Torn) \/ (ctx # None /\ Chunk(k, ctx.release)))
  BY <1>3, <1>9, StreamTests
<1>10. CASE CommitErasesLog \/ CommitConfirmsRunning BY <1>3, <1>10, CommitTests
<1>11. CASE CommitWritesManifest BY <1>3, <1>11, ActivateTests
<1> QED BY <1>4, <1>5, <1>6, <1>7, <1>8, <1>9, <1>10, <1>11 DEF Next

(* "An unconfirmed new release gets three boots, then the FSBL falls back to *)
(* the previous slot": while fewer cuts and faults than the log has room     *)
(* for have hit the flash, a release that counts its boots hangs three times *)
(* at most, plus once for each fault.                                       *)
THEOREM ProbationIsShort == Spec => [](RoomInLog => ProbationBound)
<1>1. Init => Tested BY StartTested DEF Tested
<1>2. IndInv /\ Tested /\ [Next]_vars => Tested' BY KeepTested
<1>3. Tested => (RoomInLog => ProbationBound)
  BY DEF Tested, Probation, PaidFor, ProbationBound
<1> QED BY <1>1, <1>2, <1>3, Invariant, PTL DEF Spec
=============================================================================
