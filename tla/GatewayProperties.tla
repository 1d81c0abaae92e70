-------------------------- MODULE GatewayProperties -------------------------
(***************************************************************************)
(* What the gate, the guard and the timer promise each other.               *)
(***************************************************************************)
EXTENDS Gateway

Points == Prompts \cup Working \cup {"none", "entered", "prompt", "guarded", "leaving"}
Call0 == [cmd : Commands \cup {"none", "reprompt"}, pc : Points, same : BOOLEAN]

CallsOK == calls \in [Contexts -> Call0] /\ gate \in Contexts \cup {"free"}
CoreOK == depth \in 0..1 /\ irq \in BOOLEAN /\ pended \in BOOLEAN /\ booting \in BOOLEAN
SessionOK ==
  /\ unlocked \in BOOLEAN /\ forced \in {"disarmed", "armed", "spent"}
  /\ signs \in 0..SessionCap /\ fwctx \in BOOLEAN /\ graced \in BOOLEAN
ClockOK == idle \in 0..IdleCap /\ deferred \in 0..Defer /\ quiet \in 0..SessionBound + 1
WatchedOK == warned \in Nat /\ byPin \in BOOLEAN /\ released \in Nat
TypeOK == CallsOK /\ CoreOK /\ SessionOK /\ ClockOK /\ WatchedOK

(* "At most one gateway call is in flight at a time", whichever context     *)
(* made it, and HANDLER_DEPTH says truly whether it is past its guard.      *)
(* PendSV opens its dialog over a call it preempted, and goes on without a  *)
(* token when that call holds it; the call has then read nothing of the     *)
(* session yet, or is done with it.                                         *)
InFlight == {c \in Callers : ~Resting(c)}
HandlerBusy == \E c \in InFlight : calls[c].pc # "leaving" /\ Guards(c)
OneHandler ==
  /\ \A c, d \in InFlight : c = d
  /\ depth = IF HandlerBusy THEN 1 ELSE 0
  /\ ~Resting("pendsv") => ~HandlerBusy

(* A call that has passed its PIN check finds the same session until it     *)
(* returns: neither the idle wipe, nor CMD_LOCK, nor another unlock comes   *)
(* between, whoever preempts it and for however long.                       *)
SessionStable ==
  \A c \in Callers : calls[c].pc \in Working => unlocked /\ calls[c].same

(* A PIN prompt, and the timer reset that comes with it, only ever happens  *)
(* on a locked device.                                                     *)
PromptWhenLocked ==
  \A c \in Contexts : calls[c].pc \in {"pin", "verify"} => ~unlocked

(* "Only a button press extends an unlocked session", the listed exceptions *)
(* apart: without a press a session ends, by a wipe or a reset, within a    *)
(* bound, although handlers may be parked half way and the host may spend   *)
(* every exception there is: a BEGIN that the user confirmed, its COMMIT    *)
(* and the one grace of GET_INIT_CODE each run a session to its limit once. *)
SessionEnds ==
  unlocked => quiet <= SessionBound

(* An expired session is only ever extended by a call whose user confirmed  *)
(* it, or by the COMMIT of an update whose user did.                        *)
Earned ==
  \E c \in Callers : \/ calls[c].pc = "signing"
                     \/ calls[c].pc = "work" /\ Is(c, "begin")
                     \/ calls[c].pc = "commit" /\ fwctx
ExpiredNotRevived ==
  [][unlocked /\ Expired /\ unlocked' /\ idle' <= Timeout =>
       Earned \/ \E c \in Contexts : calls[c].pc = "fresh"]_vars

(* One forced warning at most per session, only in a session that a PIN     *)
(* opened, and no forced signature but under a spent attempt of the session *)
(* that showed the warning.                                                *)
ForcedOnce ==
  /\ warned <= 1 /\ (warned > 0 => byPin)
  /\ \A c \in Callers :
       Is(c, "forced") /\ calls[c].pc \in {"warning", "final", "rate", "signing"} =>
         forced = "spent" /\ warned = 1

(* No session releases more signatures than it was charged for, nor more    *)
(* than the cap.                                                           *)
RateCap ==
  released <= signs /\ signs <= SessionCap
=============================================================================
