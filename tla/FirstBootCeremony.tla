-------------------------- MODULE FirstBootCeremony --------------------------
(***************************************************************************)
(* What the first boot promises: five things that are settled once each, in *)
(* this order and for good.  The root key is written down; the platform     *)
(* keyset follows it, then the admin credential; the salt is written down;  *)
(* the binding secret follows it; the unit is finished.  A cut, a reset or  *)
(* a failure settles nothing and unsettles nothing.                         *)
(***************************************************************************)
EXTENDS Naturals

VARIABLES
  root,      \* the BHK that can be derived again after any cut, or None
  salt,      \* likewise, the salt of the binding secret
  platform, admin, binding,   \* what the chips' credentials derive from
  finished

vars == <<root, salt, platform, admin, binding, finished>>

None == 0
Transport == 1

Init ==
  /\ root = None /\ salt = None /\ ~finished
  /\ platform = Transport /\ admin = Transport /\ binding = Transport

SettleRoot ==
  /\ root = None /\ root' \in Nat \ {None, Transport}
  /\ UNCHANGED <<salt, platform, admin, binding, finished>>
SettlePlatform ==
  /\ platform = Transport /\ root # None /\ platform' = root
  /\ UNCHANGED <<root, salt, admin, binding, finished>>
DropAdmin ==
  /\ admin = Transport /\ platform = root /\ admin' = None
  /\ UNCHANGED <<root, salt, platform, binding, finished>>
SettleAdmin ==
  /\ admin = None /\ platform = root /\ admin' = root
  /\ UNCHANGED <<root, salt, platform, binding, finished>>
SettleSalt ==
  /\ salt = None /\ root # None /\ admin = root /\ salt' \in Nat \ {None, Transport}
  /\ UNCHANGED <<root, platform, admin, binding, finished>>
SettleBinding ==
  /\ binding = Transport /\ salt # None /\ binding' = salt
  /\ UNCHANGED <<root, salt, platform, admin, finished>>
Finish ==
  /\ ~finished /\ salt # None /\ binding = salt /\ finished'
  /\ UNCHANGED <<root, salt, platform, admin, binding>>

Next ==
  \/ SettleRoot \/ SettlePlatform \/ DropAdmin \/ SettleAdmin
  \/ SettleSalt \/ SettleBinding \/ Finish

Spec == Init /\ [][Next]_vars
=============================================================================
