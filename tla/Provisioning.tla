----------------------------- MODULE Provisioning -----------------------------
(***************************************************************************)
(* Setting a wallet up: what main.rs does once the first-boot wizard has    *)
(* the words and the PIN, DualSecureElement::provision, and the rollback    *)
(* crypto::provision_from_mnemonic makes when a step of it reports an       *)
(* error.  One persistent write per step.                                  *)
(***************************************************************************)
EXTENDS FactoryReset

SetupFrame == UNCHANGED <<attempts, wipeFlag, session, cuts>>

(* factory_reset_admin, then panic.                                         *)
Rollback == StartWipe("halted")

(* The user finishes the wizard; page 123 is erased before anything else.   *)
(* Bound: no more than MaxWallets salts are minted.                         *)
FinishWizard ==
  /\ pc = "wizard" /\ minted < MaxWallets
  /\ \/ Clean /\ page123' = Page123Erased /\ pc' = "retire"
     \/ Fault("flash") /\ pc' = "halted" /\ UNCHANGED page123
  /\ UNCHANGED <<salt, chips, call, wiping, observed>> /\ SetupFrame

(* A salt already on flash is never provisioned under: it is destroyed in   *)
(* place first.                                                            *)
RetireSalt ==
  /\ pc = "retire"
  /\ \/ Clean /\ salt' = None /\ guesses' = 0 /\ pc' = "mint" /\ UNCHANGED wiping
     \/ /\ ~SaltAbsent /\ Fault("flash") /\ Rollback
        /\ salt' \in {salt, None} /\ guesses' = IF salt' = None THEN 0 ELSE guesses
  /\ UNCHANGED <<page123, chips, call, minted, live>> /\ SetupFrame

(* The record is persisted before any chip is written.                      *)
MintSalt ==
  /\ pc = "mint"
  /\ \/ /\ Clean /\ pc' = "writeKey" /\ UNCHANGED wiping
        /\ minted' = minted + 1 /\ salt' = minted'
     \/ /\ Fault("setup") \/ Fault("flash")       \* the draw, or the record
        /\ Rollback /\ UNCHANGED <<salt, minted>>
  /\ UNCHANGED <<page123, chips, call, live, guesses>> /\ SetupFrame

(* A write to the OPTIGA whose answer is lost may have happened.  E120 is   *)
(* not among the writes: once its metadata is installed it is skipped, so   *)
(* a count left by an earlier wallet stays.                                 *)
WriteOptiga(at, next, new) ==
  /\ pc = at
  /\ \/ Clean /\ optiga' = new /\ pc' = next /\ UNCHANGED wiping
     \/ Fault("setup") /\ optiga' \in {optiga, new} /\ Rollback
  /\ UNCHANGED <<salt, page123, se050, call, observed>> /\ SetupFrame

WriteKey   == WriteOptiga("writeKey", "writeShareO", [optiga EXCEPT !.key = salt])
WriteShareO == WriteOptiga("writeShareO", "writeMark", [optiga EXCEPT !.share = salt])
WriteMark  == WriteOptiga("writeMark", "sweep", [optiga EXCEPT !.mark = TRUE])

(* The admin UserID is created if absent, then used to delete what an       *)
(* earlier wallet left.                                                     *)
Swept == [user  |-> IF UserIdDeletable THEN None ELSE se050.user,
          tries |-> IF UserIdDeletable THEN 0 ELSE se050.tries,
          share |-> None,
          admin |-> TRUE]

SweepStale ==
  /\ pc = "sweep"
  /\ \/ /\ Clean /\ se050' = Swept
        /\ IF Swept.user = None THEN pc' = "writeUser" /\ UNCHANGED wiping ELSE Rollback
     \/ /\ Fault("setup") /\ Rollback
        /\ se050' \in {se050, [se050 EXCEPT !.admin = TRUE],
                       [se050 EXCEPT !.admin = TRUE, !.share = None], Swept}
  /\ UNCHANGED <<salt, page123, optiga, call, observed>> /\ SetupFrame

WriteSe050(at, next, new) ==
  /\ pc = at
  /\ \/ Clean /\ se050' = new /\ pc' = next /\ UNCHANGED wiping
     \/ Fault("setup") /\ se050' \in {se050, new} /\ Rollback
  /\ UNCHANGED <<salt, page123, optiga, call, minted, guesses>> /\ SetupFrame

WriteUserId ==
  /\ WriteSe050("writeUser", "writeShareE", [se050 EXCEPT !.user = salt, !.tries = 0])
  /\ UNCHANGED live
WriteShareE ==
  /\ WriteSe050("writeShareE", "ready", [se050 EXCEPT !.share = salt])
  /\ live' = IF pc' = "ready" THEN salt ELSE live

(* The user has read the last page; the device unlocks itself with the PIN  *)
(* it was just given, past the gate: no attempt is charged.                 *)
AutoUnlock ==
  /\ pc = "ready" /\ pc' = "optiga"
  /\ entry' = "setup" /\ pin' = "right" /\ verdict' = "none"
  /\ Clean
  /\ UNCHANGED <<salt, page123, chips, wiping, observed>> /\ SetupFrame

SetupStep ==
  \/ FinishWizard \/ RetireSalt \/ MintSalt
  \/ WriteKey \/ WriteShareO \/ WriteMark
  \/ SweepStale \/ WriteUserId \/ WriteShareE \/ AutoUnlock
=============================================================================
