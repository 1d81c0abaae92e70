------------------------ MODULE AbUpdateProperties -------------------------
(***************************************************************************)
(* What an update must never do to the unit it updates.                    *)
(***************************************************************************)
EXTENDS AbUpdate

Modes == {"off", "halted", "booting", "started", "hung", "stuck", "confirming", "ready",
          "eraseLog", "confirmOld", "writeManifest", "resetting"}
Contexts == [slot : Slots, release : Releases, got : [Kinds -> 0..Chunks]]

DiskOK ==
  /\ log \in [LogIndex -> Cells]
  /\ manifest \in [Slots -> Manifests \cup {Erased, Torn}]
  /\ image \in [Slots -> [Kinds -> [1..Chunks -> Releases \cup {Erased, Torn}]]]
RunOK == ctx \in Contexts \cup {None} /\ mode \in Modes /\ cur \in Slots /\ unlocked \in BOOLEAN
ObservedOK ==
  /\ hangs \in [Slots -> 0..HangLimit] /\ boots \in [Slots -> 0..MaxUnconfirmedBoots]
  /\ high \in Versions /\ cuts \in 0..MaxCuts /\ faults \in 0..MaxFaults
TypeOK == DiskOK /\ RunOK /\ ObservedOK

(* "some bootable slot is always left": wherever an erase, a chunk or a     *)
(* commit is cut or fails, the boot loader finds a slot to start, and it    *)
(* finds exactly one.                                                      *)
AlwaysBootable ==
  \E s \in Slots : Chosen(s) /\ ~Chosen(Other(s))

(* A release that a successful unlock has confirmed is never left for an    *)
(* older one, although the log that says so is erased by the next COMMIT    *)
(* and no OTP floor backs it.                                              *)
NoSilentDowngrade ==
  \A s \in Slots : Chosen(s) => manifest[s].version >= high

(* A COMMIT that reports success has activated the release: the next boot   *)
(* is the new slot, even if the same version in the same slot failed its    *)
(* probation before.                                                       *)
UpdateEffective ==
  mode = "resetting" => Chosen(Inactive)

(* The boot loader passes over a newer candidate only after it has started  *)
(* it three times since it was installed: no torn, stale or foreign record  *)
(* of the log costs a release one of its three boots.                      *)
FallbackEarned ==
  \A s \in Slots : Candidate(s) /\ Chosen(Other(s)) /\ Newer(manifest, s) =>
    boots[s] >= MaxUnconfirmedBoots

(* "An unconfirmed new release gets three boots, then the FSBL falls back   *)
(* to the previous slot": while there is a slot to fall back to, a release  *)
(* hangs three times at most, plus once for each record that a flash fault  *)
(* swallowed, provided it gets as far as counting its boot.                *)
CountsItsBoot(s) == manifest[s] \in Manifests /\ manifest[s].version \notin HangEarly
ProbationBound ==
  \A s \in Slots : CountsItsBoot(s) => hangs[s] <= MaxUnconfirmedBoots + faults

(* A device that hangs in a new release comes back to a release that        *)
(* reaches its PIN prompt.                                                 *)
Recovers ==
  mode = "hung" /\ Running \notin HangEarly ~> mode = "started" /\ Running \notin HangLate
=============================================================================
