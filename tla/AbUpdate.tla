------------------------------ MODULE AbUpdate ------------------------------
(***************************************************************************)
(* Dev-unit A/B firmware updates: the four update commands (BEGIN, CHUNK,   *)
(* COMMIT, ABORT), the boot loader's choice, and the secure world that      *)
(* counts its own boots and confirms itself once the wallet unlocks         *)
(* (nsc/cmd_fw_*.rs, fw_update/, fsbl/src/).  Flash survives a power cut;   *)
(* the streaming context and the session do not.  Every flash operation may *)
(* succeed, fail, or be cut half way.                                       *)
(***************************************************************************)
EXTENDS BootLog

CONSTANTS
  Factory,    \* version flashed into slot A at the factory
  Chunks,     \* chunks per image
  HangEarly,  \* versions whose secure world hangs before it counts its boot
  HangLate,   \* versions that hang after it, before the PIN prompt
  MaxCuts,    \* power cuts inside a flash operation
  MaxFaults   \* flash operations that report failure

ASSUME UpdateAssumption ==
  /\ Factory \in Versions
  /\ Chunks \in Nat \ {0} /\ MaxCuts \in Nat /\ MaxFaults \in Nat
  /\ HangEarly \cap HangLate = {}

VARIABLES
  log,        \* boot log, page 6
  manifest,   \* manifest page of each slot
  image,      \* what each chunk of each image of each slot holds
  ctx,        \* FW_UPDATE: the streaming context BEGIN seeds
  mode,       \* where the boot or the command in progress stands
  cur,        \* the running slot (VTOR)
  unlocked,   \* pin_verified
  hangs,      \* observer: hangs of a slot's release since its manifest was written
  boots,      \* observer: boots of it since then, saturating
  high,       \* observer: highest version a record ever confirmed
  cuts, faults

disk == <<log, manifest, image>>
observed == <<hangs, boots, high>>
vars == <<disk, ctx, mode, cur, unlocked, observed, cuts, faults>>

Kinds == {"secure", "nonsecure"}
Releases == [version : Versions, linked : Slots]
Manifests == [version : Versions, linked : Slots, try : {"committed", "tried"}]
Erased == [blank |-> TRUE]
Torn == [blank |-> FALSE]   \* bytes that hash to no release, whole manifest or record
None == [none |-> TRUE]
Filled(x) == [k \in Kinds |-> [i \in 1..Chunks |-> x]]
Release(m) == [version |-> m.version, linked |-> m.linked]

(* A slot the boot loader would accept: its manifest is whole and signed,   *)
(* every byte of both images hashes to it, and both vector tables lie in    *)
(* this slot.                                                              *)
Candidate(s) ==
  /\ manifest[s] \in Manifests
  /\ image[s] = Filled(Release(manifest[s]))
  /\ manifest[s].linked = s
Candidates == {s \in Slots : Candidate(s)}
Chosen(s) == Choose(log, manifest, Candidates, s)

Cap(n, limit) == IF n < limit THEN n ELSE limit
HangLimit == MaxUnconfirmedBoots + MaxCuts + MaxFaults + 1

Init ==
  /\ log = BlankLog
  /\ manifest = [s \in Slots |-> IF s = "A"
       THEN [version |-> Factory, linked |-> "A", try |-> "committed"] ELSE Erased]
  /\ image = [s \in Slots |-> IF s = "A"
       THEN Filled([version |-> Factory, linked |-> "A"]) ELSE Filled(Erased)]
  /\ ctx = None /\ mode = "off" /\ cur = "A" /\ unlocked = FALSE
  /\ hangs = [s \in Slots |-> 0] /\ boots = [s \in Slots |-> 0] /\ high = Factory
  /\ cuts = 0 /\ faults = 0

-----------------------------------------------------------------------------
(* How a flash operation ends: the code goes on to `ok`, takes its error    *)
(* path `err`, or the power goes.                                          *)
Succeeds(ok) == mode' = ok /\ UNCHANGED <<ctx, unlocked, cuts, faults>>
Fails(err) ==
  /\ faults < MaxFaults /\ faults' = faults + 1
  /\ mode' = err /\ ctx' = ctx /\ UNCHANGED <<unlocked, cuts>>
FailsDropping(err) ==
  /\ faults < MaxFaults /\ faults' = faults + 1
  /\ mode' = err /\ ctx' = None /\ UNCHANGED <<unlocked, cuts>>
IsCut ==
  /\ cuts < MaxCuts /\ cuts' = cuts + 1
  /\ mode' = "off" /\ ctx' = None /\ unlocked' = FALSE /\ UNCHANGED faults

(* `append`: one quad-word at the frontier.  Whatever it holds afterwards,  *)
(* `Wrote` says the record is there; an unfinished program may have left    *)
(* nothing, half a quad-word, or all of it.                                *)
Seen(rec) == IF rec.kind = "confirm" /\ rec.version > high THEN rec.version ELSE high
Wrote(rec) ==
  /\ \E i \in LogIndex : NextFree(log, i) /\ log' = [log EXCEPT ![i] = rec]
  /\ high' = Seen(rec)
HalfWrote(rec) ==
  \/ \E i \in LogIndex : NextFree(log, i) /\ log' = [log EXCEPT ![i] = LogTorn] /\ high' = high
  \/ log' = log /\ high' = high
  \/ Wrote(rec)

OthersRecord(kind) == Record(kind, Other(cur), manifest[cur].version)  \* mutant: wrong slot
RunningRecord(kind) == Record(kind, cur, manifest[cur].version)
NeedsSettling ==
  manifest[cur].try = "tried" /\ ~Confirmed(log, cur, manifest[cur].version)

(* `settle`: log the record if the running release is on probation; a       *)
(* failure is logged and otherwise ignored.                                *)
Settle(kind, next) ==
  \/ ~NeedsSettling /\ Succeeds(next) /\ UNCHANGED <<log, high>>
  \/ NeedsSettling /\ Full(log) /\ Succeeds(next) /\ UNCHANGED <<log, high>>
  \/ NeedsSettling /\ Wrote(RunningRecord(kind)) /\ Succeeds(next)
  \/ NeedsSettling /\ HalfWrote(RunningRecord(kind)) /\ Fails(next)
  \/ NeedsSettling /\ HalfWrote(RunningRecord(kind)) /\ IsCut

-----------------------------------------------------------------------------
(* Boot.                                                                   *)
Running == manifest[cur].version

PowerOn ==   \* FSBL: pick a slot and branch to it; it writes nothing
  /\ mode = "off"
  /\ IF \E s \in Slots : Chosen(s)
     THEN \E s \in Slots :
            /\ Chosen(s)
            /\ cur' = s /\ mode' = "booting"
            /\ boots' = [boots EXCEPT ![s] = Cap(@ + 1, MaxUnconfirmedBoots)]
     ELSE mode' = "halted" /\ UNCHANGED <<cur, boots>>
  /\ UNCHANGED <<disk, ctx, unlocked, hangs, high, cuts, faults>>

HangingAt(point) ==
  IF point = "booting" THEN HangEarly ELSE IF point = "started" THEN HangLate ELSE {}
Hang ==
  /\ mode \in {"booting", "started"} /\ Running \in HangingAt(mode)
  /\ mode' = "hung"
  /\ hangs' = [hangs EXCEPT ![cur] = IF Candidate(Other(cur)) THEN Cap(@ + 1, HangLimit) ELSE @]
  /\ UNCHANGED <<disk, ctx, cur, unlocked, boots, high, cuts, faults>>

NoteBootAttempt ==
  /\ mode = "booting" /\ Running \notin HangEarly
  /\ Settle("attempt", "started")
  /\ UNCHANGED <<manifest, image, cur, hangs, boots>>

BootUnlock ==   \* the PIN prompt of `boot_pin_unlock` ends with the wallet open
  /\ mode = "started" /\ Running \notin HangLate
  /\ mode' = "confirming" /\ unlocked' = TRUE
  /\ UNCHANGED <<disk, ctx, cur, observed, cuts, faults>>

BootPinLocked ==   \* ... or with the attempts used up: NS starts on a locked wallet
  /\ mode = "started" /\ Running \notin HangLate
  /\ mode' = "stuck"
  /\ UNCHANGED <<disk, ctx, cur, unlocked, observed, cuts, faults>>

ConfirmRunning ==
  /\ mode = "confirming"
  /\ Settle("confirm", "ready")
  /\ UNCHANGED <<manifest, image, cur, hangs, boots>>

PowerOff ==   \* the user pulls the plug, or a fault resets the device
  /\ mode \in {"started", "hung", "stuck", "ready", "resetting"}
  /\ mode' = "off" /\ ctx' = None /\ unlocked' = FALSE
  /\ UNCHANGED <<disk, cur, observed, cuts, faults>>

Lock ==   \* CMD_LOCK and the idle wipe: `zeroize_sensitive_state` drops the context
  /\ mode = "ready" /\ unlocked
  /\ unlocked' = FALSE /\ ctx' = None
  /\ UNCHANGED <<disk, mode, cur, observed, cuts, faults>>

Unlock ==   \* a later unlock (command or PendSV) confirms nothing
  /\ mode = "ready" /\ ~unlocked
  /\ unlocked' = TRUE
  /\ UNCHANGED <<disk, ctx, mode, cur, observed, cuts, faults>>

-----------------------------------------------------------------------------
(* The update commands, all behind the PIN.                                *)
RunningSlot == cur                                         \* mutant: swapped slots
Inactive == Other(cur)

(* `erase_slot`: non-secure pages, secure pages, then the manifest; the     *)
(* first page that fails ends it, at `at`, with `left` on it.              *)
EraseAt(at, left) ==
  /\ image' = [image EXCEPT ![Inactive] = [k \in Kinds |->
       IF k = at THEN left
       ELSE IF k = "nonsecure" \/ at = "manifest" THEN [i \in 1..Chunks |-> Erased]
       ELSE image[Inactive][k]]]
  /\ manifest' = IF at # "manifest" THEN manifest
                 ELSE [manifest EXCEPT ![Inactive] = left]
ErasedWhole ==
  /\ image' = [image EXCEPT ![Inactive] = Filled(Erased)]
  /\ manifest' = [manifest EXCEPT ![Inactive] = Erased]
ErasedInPart ==
  \/ \E k \in Kinds : \E cell \in {Erased, Torn} : EraseAt(k, [i \in 1..Chunks |-> cell])
  \/ \E k \in Kinds : EraseAt(k, image[Inactive][k])
  \/ \E page \in {Erased, Torn, manifest[Inactive]} : EraseAt("manifest", page)

Begin(r) ==   \* a manifest that verifies, is newer, and was confirmed on the display
  /\ mode = "ready" /\ unlocked
  /\ r.version > Running
  /\ \/ /\ ErasedWhole
        /\ mode' = mode
        /\ ctx' = [slot |-> Inactive, release |-> r, got |-> [k \in Kinds |-> 0]]
        /\ UNCHANGED <<unlocked, cuts, faults>>
     \/ ErasedInPart /\ Fails("ready")   \* an earlier context stays
     \/ ErasedInPart /\ IsCut
  /\ UNCHANGED <<log, cur, observed>>

Frontier(k) == ctx.got[k] + 1
Programs(k, y) == image' = [image EXCEPT ![ctx.slot][k][Frontier(k)] = y]
Chunk(k, x) ==   \* the next bytes of an image: of this release, or whatever the host sends
  /\ mode = "ready" /\ unlocked /\ ctx # None
  /\ ctx.got[k] < Chunks
  /\ \/ /\ image[ctx.slot][k][Frontier(k)] = Erased
        /\ Programs(k, x) /\ ctx' = [ctx EXCEPT !.got[k] = Frontier(k)]
        /\ UNCHANGED <<mode, unlocked, cuts, faults>>
     \/ /\ image' = image \/ Programs(k, Torn)
        /\ Fails("ready") \/ IsCut
  /\ UNCHANGED <<log, manifest, cur, observed>>

Abort ==
  /\ mode = "ready" /\ unlocked
  /\ ctx' = None
  /\ UNCHANGED <<disk, mode, cur, unlocked, observed, cuts, faults>>

ImagesMatch == image[ctx.slot] = Filled(ctx.release)   \* verify_images

Commit ==   \* COMMIT up to its first flash operation
  /\ mode = "ready" /\ unlocked /\ ctx # None
  /\ IF ImagesMatch /\ ctx.slot # cur /\ ctx.release.linked = ctx.slot
        /\ ctx.release.version > Running
     THEN mode' = "eraseLog" /\ ctx' = ctx
     ELSE mode' = mode /\ ctx' = None
  /\ UNCHANGED <<disk, cur, unlocked, observed, cuts, faults>>

OldLog == log                                              \* mutant: missing erase
FreshLog == BlankLog
CommitErasesLog ==
  /\ mode = "eraseLog"
  /\ \/ log' = FreshLog /\ Succeeds("confirmOld")
     \/ \E kept \in SUBSET LogIndex : \E x \in {LogErased, LogTorn} :
          /\ log' = [i \in LogIndex |-> IF i \in kept THEN log[i] ELSE x]
          /\ FailsDropping("ready") \/ IsCut
  /\ UNCHANGED <<manifest, image, cur, observed>>

CommitConfirmsRunning ==
  /\ mode = "confirmOld"
  /\ \/ Wrote(RunningRecord("confirm")) /\ Succeeds("writeManifest")
     \/ /\ Full(log) /\ UNCHANGED <<log, high, unlocked, cuts, faults>>
        /\ mode' = "ready" /\ ctx' = None
     \/ HalfWrote(RunningRecord("confirm")) /\ (FailsDropping("ready") \/ IsCut)
  /\ UNCHANGED <<manifest, image, cur, hangs, boots>>

NewManifest == [version |-> ctx.release.version, linked |-> ctx.release.linked, try |-> "tried"]
CommitWritesManifest ==
  /\ mode = "writeManifest"
  /\ \/ /\ manifest' = [manifest EXCEPT ![ctx.slot] = NewManifest]
        /\ mode' = "resetting" /\ ctx' = None /\ unlocked' = FALSE
        /\ UNCHANGED <<cuts, faults>>
     \/ /\ \E m \in {Erased, Torn, NewManifest} : manifest' = [manifest EXCEPT ![ctx.slot] = m]
        /\ FailsDropping("ready") \/ IsCut
  /\ hangs' = [hangs EXCEPT ![ctx.slot] = 0]
  /\ boots' = [boots EXCEPT ![ctx.slot] = 0]
  /\ UNCHANGED <<log, image, cur, high>>

Next ==
  \/ PowerOn \/ PowerOff \/ NoteBootAttempt \/ Hang
  \/ BootUnlock \/ BootPinLocked \/ ConfirmRunning \/ Lock \/ Unlock
  \/ \E r \in Releases : Begin(r)
  \/ \E k \in Kinds : Chunk(k, Torn) \/ (ctx # None /\ Chunk(k, ctx.release))
  \/ Abort \/ Commit \/ CommitErasesLog \/ CommitConfirmsRunning \/ CommitWritesManifest

Spec == Init /\ [][Next]_vars

(* The power comes back, the code runs, and whoever holds a device that     *)
(* shows nothing turns it off and on again.                                *)
FairSpec ==
  /\ Spec
  /\ WF_vars(PowerOn) /\ WF_vars(NoteBootAttempt) /\ WF_vars(Hang)
  /\ WF_vars(ConfirmRunning) /\ WF_vars(mode = "hung" /\ PowerOff)
=============================================================================
