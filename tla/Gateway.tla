------------------------------ MODULE Gateway ------------------------------
(***************************************************************************)
(* Three contexts share one core and one unlocked session: the thread that  *)
(* runs the non-secure world, a non-secure exception handler that preempts  *)
(* it (and may never return), and the secure PendSV handler that asks for   *)
(* the PIN again after an idle wipe.  The first two call the gateway.  The  *)
(* secure SysTick preempts all three: it ages the session, wipes it, and    *)
(* resets the core when a busy handler has held the wipe off for too long.  *)
(*                                                                         *)
(* A call is [cmd, pc, same]; `pc` names what it does next, and `same` is   *)
(* an observer: the session its PIN check saw is still the one there.       *)
(***************************************************************************)
EXTENDS Integers, FiniteSets

CONSTANTS
  Timeout,     \* TIMEOUT_TICKS
  Grace,       \* INIT_CODE_GRACE_TICKS
  Defer,       \* WIPE_DEFER_LIMIT_TICKS
  DeferUi,     \* WIPE_DEFER_UI_LIMIT_TICKS
  SessionCap   \* MAX_SIGNS_PER_SESSION

ASSUME GatewayAssumption ==
  /\ Timeout \in Nat /\ Grace \in Nat /\ SessionCap \in Nat
  /\ Defer \in Nat \ {0} /\ DeferUi \in Nat \ {0} /\ DeferUi <= Defer

VARIABLES
  calls,      \* the call each context is in the middle of
  gate,       \* GATEWAY_GATE, and who holds its token
  depth,      \* HANDLER_DEPTH
  irq,        \* the non-secure exception is active
  pended,     \* PENDSVSET
  booting,    \* the boot PIN prompt, before the non-secure world starts
  unlocked,   \* pin_verified
  forced,     \* the forced-attempt word
  signs,      \* SIGNS_THIS_SESSION
  fwctx,      \* FW_UPDATE holds a context
  idle,       \* ticks since LAST_ACTIVITY
  graced,     \* INIT_CODE_GRACE_USED
  deferred,   \* WIPE_DEFER_TICKS
  warned,     \* observer: forced warnings shown in this session
  byPin,      \* observer: the session was opened with a PIN
  released,   \* observer: signatures released in this session
  quiet       \* observer: ticks of this session since the last button press

session == <<unlocked, forced, signs, fwctx, graced>>
watched == <<warned, byPin, released>>
clock == <<idle, deferred, quiet>>
core == <<irq, pended, booting>>
vars == <<calls, gate, depth, core, session, watched, clock>>

Contexts == {"thread", "irq", "pendsv"}
Callers == {"thread", "irq"}
NoCall == [cmd |-> "none", pc |-> "none", same |-> FALSE]
Dialogs == {"dialog", "warning", "final"}
Prompts == {"pin", "verify", "arm", "fresh"}
Working == Dialogs \cup {"preflight", "charge", "grace", "commit", "rate", "work", "signing"}

IdleCap == Timeout + Defer + 1
SessionBound == 3 * (Timeout + Defer - 1) + Grace   \* cap of the observer `quiet`
Least(m, n) == IF m < n THEN m ELSE n

Init ==
  /\ calls = [c \in Contexts |-> NoCall] /\ gate = "free" /\ depth = 0
  /\ irq = FALSE /\ pended = FALSE /\ booting = TRUE
  /\ unlocked = FALSE /\ forced = "disarmed" /\ signs = 0 /\ fwctx = FALSE
  /\ graced = FALSE /\ idle = 0 /\ deferred = 0
  /\ warned = 0 /\ byPin = FALSE /\ released = 0 /\ quiet = 0

-----------------------------------------------------------------------------
(* Who runs: the exception preempts everything, PendSV preempts the thread  *)
(* before its next instruction.                                            *)
Resting(c) == calls[c].pc = "none"
Runs(c) ==
  /\ ~booting
  /\ CASE c = "irq" -> irq
       [] c = "pendsv" -> ~irq
       [] c = "thread" -> ~irq /\ ~pended /\ Resting("pendsv")

At(c, pc) == Runs(c) /\ calls[c].pc = pc
Is(c, cmd) == calls[c].cmd = cmd
To(c, pc) == calls' = [calls EXCEPT ![c].pc = pc]

(* mark_unlocked                                                           *)
Open(phase, pin) ==
  /\ unlocked' = TRUE /\ forced' = phase /\ signs' = 0
  /\ warned' = 0 /\ byPin' = pin /\ released' = 0 /\ quiet' = 0
  /\ UNCHANGED <<fwctx, graced>>

(* zeroize_sensitive_state, called by c or by SysTick: every other call     *)
(* that saw this session has lost it.                                      *)
Wipe ==
  /\ unlocked' = FALSE /\ forced' = "disarmed" /\ signs' = 0
  /\ fwctx' = FALSE /\ graced' = FALSE
  /\ warned' = 0 /\ byPin' = FALSE /\ released' = 0 /\ quiet' = 0
Orphaned(next) == calls' = [c \in Contexts |-> [next[c] EXCEPT !.same = FALSE]]

SysReset ==
  /\ calls' = [c \in Contexts |-> NoCall] /\ gate' = "free" /\ depth' = 0
  /\ irq' = FALSE /\ pended' = FALSE /\ booting' = TRUE
  /\ Wipe /\ idle' = 0 /\ deferred' = 0

(* The handler returns: its HandlerGuard goes first, then the token.        *)
Left(c) == [calls EXCEPT ![c].pc = "leaving"]
Guards(c) == calls[c].cmd \notin {"lock", "reprompt"} /\ calls[c].pc \notin {"entered", "prompt"}
Unguard(c) == depth' = IF Guards(c) THEN depth - 1 ELSE depth
Return(c) == calls' = Left(c) /\ Unguard(c)
WipeAndReturn(c) == Wipe /\ Orphaned(Left(c)) /\ Unguard(c)

Active == idle' = 0 /\ UNCHANGED deferred       \* reset_activity
Still == UNCHANGED <<idle, deferred>>
Expired == idle > Timeout                       \* is_idle

Own == UNCHANGED <<gate, core>>
Session == UNCHANGED <<session, watched>>

-----------------------------------------------------------------------------
(* The boundary.                                                           *)

GateOff == TRUE                                            \* mutant: no gate
GateFree == gate = "free"

Call(c, cmd) ==
  /\ Runs(c) /\ Resting(c) /\ GateFree
  /\ gate' = c
  /\ calls' = [calls EXCEPT ![c] = [cmd |-> cmd, pc |-> "entered", same |-> FALSE]]
  /\ UNCHANGED <<depth, core, session, watched, clock>>

DropAny(c) == "free"                                       \* mutant: frees what it does not hold
Dropped(c) == IF gate = c THEN "free" ELSE gate
Leave(c) ==
  /\ At(c, "leaving")
  /\ calls' = [calls EXCEPT ![c] = NoCall] /\ gate' = Dropped(c)
  /\ UNCHANGED <<depth, core, session, watched, clock>>

IrqEnter ==
  /\ ~booting /\ ~irq /\ irq' = TRUE
  /\ UNCHANGED <<calls, gate, depth, pended, booting, session, watched, clock>>
IrqReturn ==
  /\ irq /\ Resting("irq") /\ irq' = FALSE
  /\ UNCHANGED <<calls, gate, depth, pended, booting, session, watched, clock>>

Boot ==   \* boot_pin_unlock or the first-boot wizard opens the wallet, or neither
  /\ booting /\ booting' = FALSE
  /\ \/ Open("armed", TRUE)
     \/ Open("disarmed", FALSE)
     \/ UNCHANGED <<session, watched, quiet>>
  /\ Active /\ UNCHANGED <<calls, gate, depth, irq, pended>>

-----------------------------------------------------------------------------
(* Commands without a guard, and the first steps of those that have one.    *)

LockRun(c) ==
  /\ At(c, "entered") /\ Is(c, "lock")
  /\ WipeAndReturn(c) /\ Still /\ Own

UnlockAsked(c) ==   \* CMD_REQUEST_UNLOCK is idempotent
  /\ At(c, "entered") /\ Is(c, "unlock")
  /\ To(c, IF unlocked THEN "leaving" ELSE "prompt")
  /\ UNCHANGED <<depth, session, watched, clock>> /\ Own

UnlockPrompts(c) ==
  /\ At(c, "prompt")
  /\ depth' = depth + 1 /\ To(c, "pin")
  /\ Active /\ UNCHANGED <<session, watched, quiet>> /\ Own

FirstStage(cmd) ==
  CASE cmd \in {"sign", "begin"} -> "dialog"
    [] cmd = "forced" -> "preflight"
    [] cmd = "initCode" -> "grace"
    [] cmd = "commit" -> "commit"

Guarded == depth + 1
GuardUp(c) ==
  /\ At(c, "entered") /\ calls[c].cmd \in {"sign", "begin", "forced", "initCode", "commit"}
  /\ depth' = Guarded /\ To(c, "guarded")
  /\ UNCHANGED <<session, watched, clock>> /\ Own

PinCheck(c) ==
  /\ At(c, "guarded")
  /\ IF unlocked
     THEN /\ calls' = [calls EXCEPT ![c].pc = FirstStage(calls[c].cmd), ![c].same = TRUE]
          /\ UNCHANGED depth
     ELSE Return(c)
  /\ UNCHANGED <<session, watched, clock>> /\ Own

-----------------------------------------------------------------------------
(* Dialogs.  A button press is the only activity; the wait gives up when    *)
(* the session has expired.                                                *)

Consented(c) ==
  CASE calls[c].pc = "warning" -> "final"
    [] Is(c, "begin") -> "work"
    [] OTHER -> "rate"

Pressed == idle' = 0 /\ quiet' = 0 /\ UNCHANGED deferred

Press(c) ==
  /\ Runs(c) /\ calls[c].pc \in Dialogs /\ ~Expired
  /\ Pressed
  /\ \/ UNCHANGED <<calls, depth>>                             \* another page
     \/ Return(c)                                              \* cancelled
     \/ To(c, Consented(c)) /\ UNCHANGED depth                \* confirmed
  /\ Session /\ Own

DialogExpires(c) ==
  /\ Runs(c) /\ calls[c].pc \in Dialogs /\ Expired
  /\ WipeAndReturn(c) /\ Still /\ Own

DeadlineExpires(c) ==   \* ForcedDeadline
  /\ Runs(c) /\ calls[c].pc \in {"warning", "final"}
  /\ Return(c) /\ Session /\ UNCHANGED clock /\ Own

-----------------------------------------------------------------------------
(* Signing.                                                                *)

UnderCap == signs < SessionCap

ArmedOrSpent == forced # "disarmed"                        \* mutant: admits a spent attempt
Armed == forced = "armed"
ForcedPreflight(c) ==   \* phase, keygen, forced_rate_preflight
  /\ At(c, "preflight")
  /\ IF Armed /\ UnderCap THEN To(c, "charge") /\ UNCHANGED depth ELSE Return(c)
  /\ UNCHANGED <<session, watched, clock>> /\ Own

ForcedCharge(c) ==   \* Armed -> Spent, then the warning
  /\ At(c, "charge")
  /\ IF Armed
     THEN /\ forced' = "spent" /\ warned' = warned + 1
          /\ To(c, "warning") /\ UNCHANGED depth
     ELSE Return(c) /\ UNCHANGED <<forced, warned>>
  /\ UNCHANGED <<unlocked, signs, fwctx, graced, byPin, released, clock>> /\ Own

NoRate(c) == TRUE                                          \* mutant: no session cap
RateOk(c) == UnderCap /\ (Is(c, "forced") => forced = "spent")

PreSign(c) ==
  /\ At(c, "rate")
  /\ \/ /\ RateOk(c) /\ signs' = signs + 1
        /\ To(c, "signing")
        /\ UNCHANGED <<depth, unlocked, forced, fwctx, graced, watched, quiet>>
     \/ /\ ~RateOk(c)
        /\ IF Is(c, "forced") THEN WipeAndReturn(c)
                              ELSE Return(c) /\ UNCHANGED <<session, watched, quiet>>
  /\ Still /\ Own

Release(c) ==
  /\ At(c, "signing") /\ Return(c)
  /\ released' = released + 1
  /\ Active /\ UNCHANGED <<session, warned, byPin, quiet>> /\ Own

(* A flash, key or verification failure; the forced flow also ends its      *)
(* session.                                                                *)
Fail(c) ==
  /\ \/ At(c, "signing")
     \/ At(c, "work") /\ ~Is(c, "commit")
  /\ IF Is(c, "forced") THEN WipeAndReturn(c)
                        ELSE Return(c) /\ UNCHANGED <<session, watched, quiet>>
  /\ Still /\ Own

-----------------------------------------------------------------------------
(* GET_INIT_CODE and the firmware update.                                   *)

GraceAlways == ~graced                                     \* mutant: revives an expired session
GraceDue == ~Expired /\ ~graced
GrantGrace(c) ==
  /\ At(c, "grace") /\ To(c, "work")
  /\ IF GraceDue
     THEN graced' = TRUE /\ idle' = IF idle < Grace THEN 0 ELSE idle - Grace
     ELSE UNCHANGED <<graced, idle>>
  /\ UNCHANGED <<depth, unlocked, forced, signs, fwctx, watched, deferred, quiet>> /\ Own

InitCodeDone(c) ==
  /\ At(c, "work") /\ Is(c, "initCode")
  /\ Return(c) /\ Session /\ UNCHANGED clock /\ Own

BeginDone(c) ==
  /\ At(c, "work") /\ Is(c, "begin")
  /\ Return(c) /\ fwctx' = TRUE
  /\ Active /\ UNCHANGED <<unlocked, forced, signs, graced, watched, quiet>> /\ Own

AlwaysFinalizes == TRUE                                    \* mutant: resets with no context
Finalizes == fwctx
CommitStarts(c) ==
  /\ At(c, "commit")
  /\ IF Finalizes THEN To(c, "work") /\ UNCHANGED depth /\ Active
                  ELSE Return(c) /\ Still
  /\ UNCHANGED <<session, watched, quiet>> /\ Own

CommitFails(c) ==
  /\ At(c, "work") /\ Is(c, "commit")
  /\ Return(c) /\ fwctx' = FALSE
  /\ UNCHANGED <<unlocked, forced, signs, graced, watched, clock>> /\ Own

CommitDone(c) ==
  /\ At(c, "work") /\ Is(c, "commit")
  /\ SysReset

-----------------------------------------------------------------------------
(* Asking for the PIN: CMD_REQUEST_UNLOCK and PendSV.                       *)

PendSV ==   \* takes the token if it is free, and goes on without it if not
  /\ ~booting /\ ~irq /\ pended /\ Resting("pendsv")
  /\ pended' = FALSE
  /\ gate' = IF gate = "free" THEN "pendsv" ELSE gate
  /\ calls' = [calls EXCEPT !["pendsv"] = [cmd |-> "reprompt", pc |-> "entered", same |-> FALSE]]
  /\ UNCHANGED <<depth, irq, booting, session, watched, clock>>

StillLocked == ~unlocked
PendSVAsks ==
  /\ At("pendsv", "entered")
  /\ IF StillLocked THEN To("pendsv", "pin") /\ Active ELSE To("pendsv", "leaving") /\ Still
  /\ UNCHANGED <<depth, session, watched, quiet>> /\ Own

(* The prompt of PendSV comes back until a PIN ends it.                     *)
GivesUp(c) == IF c = "pendsv" THEN To(c, "pin") /\ UNCHANGED depth ELSE Return(c)

PinPress(c) ==
  /\ At(c, "pin") /\ ~Expired /\ Pressed
  /\ \/ UNCHANGED <<calls, depth>> \/ GivesUp(c) \/ (To(c, "verify") /\ UNCHANGED depth)
  /\ Session /\ Own

PinExpires(c) ==
  /\ At(c, "pin") /\ Expired
  /\ IF c = "pendsv" THEN /\ Active /\ UNCHANGED <<calls, depth, session, watched, quiet>>
                     ELSE WipeAndReturn(c) /\ Still
  /\ Own

PinRejected(c) ==
  /\ At(c, "verify")
  /\ Return(c) \/ GivesUp(c)
  /\ IF c = "pendsv" /\ calls'[c].pc = "pin" THEN Active ELSE Still
  /\ UNCHANGED <<session, watched, quiet>> /\ Own

PinAccepted(c) ==   \* mark_unlocked, with interrupts off
  /\ At(c, "verify") /\ To(c, "arm") /\ Open("disarmed", TRUE)
  /\ UNCHANGED depth /\ Still /\ Own

ArmAttempt(c) ==   \* arm_forced_attempt_after_pin
  /\ At(c, "arm") /\ To(c, "fresh") /\ forced' = "armed"
  /\ UNCHANGED <<depth, unlocked, signs, fwctx, graced, watched, clock>> /\ Own

UnlockDone(c) ==
  /\ At(c, "fresh") /\ Return(c) /\ Active
  /\ UNCHANGED <<session, watched, quiet>> /\ Own

-----------------------------------------------------------------------------
(* SysTick.                                                                *)

UiWaits == \E c \in Contexts : calls[c].pc \in Dialogs
DeferLimit == IF UiWaits THEN DeferUi ELSE Defer

NoDefer == FALSE                                           \* mutant: unbounded deferral
DeferOver == deferred + 1 >= DeferLimit
WipeUnder == TRUE                                          \* mutant: ignores HANDLER_DEPTH
NobodyBusy == depth = 0

Tick ==
  LET age == Least(idle + 1, IdleCap)
      due == age > Timeout /\ unlocked
      aged == /\ idle' = age
              /\ quiet' = IF unlocked THEN Least(quiet + 1, SessionBound + 1) ELSE 0
  IN  \/ /\ ~due /\ aged /\ deferred' = 0
         /\ UNCHANGED <<calls, gate, depth, core, session, watched>>
      \/ /\ due /\ NobodyBusy
         /\ Wipe /\ Orphaned(calls) /\ idle' = age /\ deferred' = 0
         /\ pended' = TRUE /\ UNCHANGED <<gate, depth, irq, booting>>
      \/ /\ due /\ ~NobodyBusy /\ ~DeferOver
         /\ aged /\ deferred' = deferred + 1
         /\ UNCHANGED <<calls, gate, depth, core, session, watched>>
      \/ due /\ ~NobodyBusy /\ DeferOver /\ SysReset

-----------------------------------------------------------------------------
Step(c) ==
  \/ LockRun(c) \/ UnlockAsked(c) \/ UnlockPrompts(c) \/ GuardUp(c) \/ PinCheck(c)
  \/ DialogExpires(c) \/ DeadlineExpires(c)
  \/ ForcedPreflight(c) \/ ForcedCharge(c) \/ PreSign(c) \/ Release(c) \/ Fail(c)
  \/ GrantGrace(c) \/ InitCodeDone(c) \/ BeginDone(c)
  \/ CommitStarts(c) \/ CommitFails(c) \/ CommitDone(c)
AskPin(c) ==
  \/ PinExpires(c) \/ PinRejected(c) \/ PinAccepted(c)
  \/ ArmAttempt(c) \/ UnlockDone(c) \/ Leave(c)

Commands == {"lock", "unlock", "sign", "forced", "initCode", "begin", "commit"}

Next ==
  \/ \E c \in Callers : \/ \E cmd \in Commands : Call(c, cmd)
                         \/ Step(c) \/ Press(c)
  \/ \E c \in Contexts : AskPin(c) \/ PinPress(c)
  \/ PendSV \/ PendSVAsks \/ IrqEnter \/ IrqReturn \/ Boot \/ Tick

Spec == Init /\ [][Next]_vars
=============================================================================
