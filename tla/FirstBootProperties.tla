------------------------- MODULE FirstBootProperties -------------------------
(***************************************************************************)
(* What the first boot promises, over FirstBoot.                           *)
(***************************************************************************)
EXTENDS FirstBoot

TypeOK ==
  /\ locked \in BOOLEAN /\ otp \in BOOLEAN
  /\ page126 \in Nat /\ journal \in Seq(Words) /\ Len(journal) <= PageQws
  /\ tamp \in Nat /\ scp03 \in Nat /\ admin \in Nat /\ e140 \in Nat
  /\ salt \in Nat /\ shield \in Nat /\ drawn \in Nat
  /\ cuts \in 0..MaxCuts /\ faults \in 0..MaxFaults

(* A credential a chip has taken can be derived again after any cut: its    *)
(* root is on page 126 and the journal keeps it from being erased, its salt *)
(* is the one the journal yields (#712, and the D1 comments of the two      *)
(* rotations).                                                              *)
Recoverable ==
  /\ scp03 # Transport => Done(Bhk) /\ scp03 = page126
  /\ admin # Transport => Done(Bhk) /\ scp03 = page126 /\ admin \in {None, page126}
  /\ e140 # Transport => e140 = StoredSalt

(* A unit past its first boot is locked, no transport credential is left on *)
(* either chip, and what the next lines of main derive (the loaded BHK,     *)
(* secret_keys::current_pbs) is what the chips hold.                        *)
ReadyIsFinal ==
  pc = "ready" =>
    /\ locked /\ Done(All)
    /\ tamp \notin {None, Transport, Half}
    /\ scp03 = tamp /\ admin = tamp /\ e140 = StoredSalt /\ e140 # Transport

(* Every step of the device settles one thing of the ceremony, or nothing:  *)
(* the flash state that survives a cut never loses what a chip already      *)
(* depends on, and nothing is drawn or rotated twice.                       *)
Promise == INSTANCE FirstBootCeremony
             WITH root <- IF Done(Bhk) THEN page126 ELSE None, salt <- StoredSalt,
                  platform <- scp03, binding <- e140, finished <- Done(All)
ImplementsCeremony == Promise!Spec

(* A locked unit whose faults and cuts end is finished, if page 127 has the *)
(* room they took (first_boot::state::tests::                              *)
(* power_cut_at_every_boundary_converges).                                 *)
Finishes == locked ~> pc = "ready"
=============================================================================
