---------------------------- MODULE GatewayProofs ---------------------------
(***************************************************************************)
(* The inductive invariant of Gateway, and the safety properties it gives   *)
(* for every timeout, limit and cap.                                        *)
(***************************************************************************)
EXTENDS GatewayProperties, TLAPS

Guarded1 == {"sign", "forced", "initCode", "begin", "commit"}

(* Which points each command goes through.                                 *)
Shape(c) ==
  /\ calls[c].cmd = "none" => calls[c].pc = "none"
  /\ calls[c].cmd = "lock" => calls[c].pc \in {"none", "entered", "leaving"}
  /\ calls[c].cmd = "unlock" => calls[c].pc \in Prompts \cup {"none", "entered", "prompt", "leaving"}
  /\ calls[c].cmd = "reprompt" => calls[c].pc \in Prompts \cup {"none", "entered", "leaving"}
  /\ calls[c].cmd \in Guarded1 => calls[c].pc \in Working \cup {"none", "entered", "guarded", "leaving"}
  /\ calls[c].cmd = "forced" => calls[c].pc # "dialog"
  /\ calls[c].pc = "commit" => calls[c].cmd = "commit"
  /\ calls[c].pc = "grace" => calls[c].cmd = "initCode"
  /\ calls[c].pc # "none" => (calls[c].cmd = "reprompt" <=> c = "pendsv")

(* Who holds the token, and who can be in flight at the same time.          *)
Tokens ==
  /\ \A c \in Callers : gate = c <=> calls[c].pc # "none"
  /\ gate = "pendsv" => calls["pendsv"].pc # "none"
  /\ calls["pendsv"].pc # "none" => gate # "free" /\ gate # "irq"
  /\ calls["irq"].pc # "none" => irq
  /\ booting => gate = "free" /\ calls["pendsv"].pc = "none" /\ ~unlocked

Busy(c) == calls[c].pc \notin {"none", "entered", "prompt", "leaving"}

(* The idle wipe and the prompt that follows it find no handler at work.    *)
Depth ==
  /\ depth = IF \E c \in Callers : Busy(c) THEN 1 ELSE 0
  /\ pended \/ calls["pendsv"].pc # "none" =>
       ~Busy("thread") /\ calls["thread"].pc # "prompt"

(* What the point of a call says of the session.                           *)
SessionAt(c) ==
  /\ c \in Callers /\ calls[c].pc \in Working => unlocked /\ calls[c].same
  /\ calls[c].pc \in {"prompt", "pin", "verify"} => ~unlocked
  /\ calls[c].pc \in {"arm", "fresh"} => warned = 0 /\ (unlocked => byPin)
  /\ calls[c].cmd = "forced" /\ calls[c].pc \in {"warning", "final", "rate", "signing"} =>
       forced = "spent"
  /\ calls[c].pc = "signing" => released < signs
Attempt ==
  /\ warned = IF forced = "spent" THEN 1 ELSE 0
  /\ forced # "disarmed" /\ unlocked => byPin
  /\ forced = "spent" => byPin
  /\ released <= signs /\ signs <= SessionCap

IndInv ==
  /\ TypeOK /\ Tokens /\ Depth /\ Attempt
  /\ \A c \in Contexts : Shape(c) /\ SessionAt(c)

-----------------------------------------------------------------------------
(* What a wipe, an unlock and a reset leave behind.                        *)

(* The caps of the two clocks are numbers.                                 *)
LEMMA CapsType == SessionBound \in Nat /\ IdleCap \in Nat
<1>1. Timeout + Defer - 1 \in Nat BY GatewayAssumption
<1>2. \A n \in Nat : 3 * n + Grace \in Nat BY GatewayAssumption
<1> QED BY <1>1, <1>2, GatewayAssumption DEF SessionBound, IdleCap

(* A call that has passed its PIN check is still a call.                    *)
LEMMA StagedType ==
  ASSUME calls \in [Contexts -> Call0], NEW c \in Contexts, NEW stage \in Points
  PROVE  [calls EXCEPT ![c].pc = stage, ![c].same = TRUE] \in [Contexts -> Call0]
BY DEF Call0

(* Where a command with a guard begins.                                    *)
LEMMA StageOfCommand ==
  ASSUME NEW cmd \in Guarded1
  PROVE  /\ FirstStage(cmd) \in {"dialog", "preflight", "grace", "commit"}
         /\ cmd = "forced" => FirstStage(cmd) # "dialog"
         /\ FirstStage(cmd) = "commit" => cmd = "commit"
         /\ FirstStage(cmd) = "grace" => cmd = "initCode"
BY DEF FirstStage, Guarded1

(* mark_unlocked keeps the session in its type.                            *)
LEMMA OpenType ==
  ASSUME TypeOK, NEW phase \in {"disarmed", "armed"}, NEW pin \in BOOLEAN, Open(phase, pin)
  PROVE  SessionOK' /\ WatchedOK' /\ quiet' \in 0..SessionBound + 1
<1>1. SessionOK' BY GatewayAssumption DEF TypeOK, SessionOK, Open
<1>2. WatchedOK' BY DEF TypeOK, WatchedOK, Open
<1> QED BY <1>1, <1>2, CapsType DEF Open

(* So does zeroize_sensitive_state.                                        *)
LEMMA WipeType ==
  ASSUME TypeOK, Wipe
  PROVE  SessionOK' /\ WatchedOK' /\ quiet' \in 0..SessionBound + 1
<1>1. (unlocked \in BOOLEAN /\ fwctx \in BOOLEAN /\ graced \in BOOLEAN)' BY Zenon DEF Wipe
<1>2. (forced \in {"disarmed", "armed", "spent"} /\ signs \in 0..SessionCap)'
  BY GatewayAssumption DEF Wipe
<1>3. WatchedOK' BY DEF WatchedOK, Wipe
<1> QED BY <1>1, <1>2, <1>3, CapsType DEF Wipe, SessionOK

(* A core reset ends every call and the session.                           *)
LEMMA ResetKeeps ==
  ASSUME IndInv, SysReset
  PROVE  IndInv'
<1> USE GatewayAssumption DEF SysReset
<1>1. TypeOK'
  <2>1. CallsOK' BY DEF CallsOK, NoCall, Call0, Points, Contexts
  <2>2. (irq \in BOOLEAN /\ pended \in BOOLEAN /\ booting \in BOOLEAN)' BY Zenon
  <2>3. SessionOK' /\ WatchedOK' /\ quiet' \in 0..SessionBound + 1 BY WipeType DEF IndInv
  <2> QED BY <2>1, <2>2, <2>3, CapsType DEF TypeOK, CoreOK, ClockOK
<1>2. (Tokens /\ Depth)' BY DEF Tokens, Depth, Busy, NoCall, Contexts, Callers, Wipe
<1>3. Attempt' BY DEF Attempt, Wipe
<1>4. (\A c \in Contexts : Shape(c) /\ SessionAt(c))'
  BY DEF Shape, SessionAt, NoCall, Guarded1, Working, Dialogs, Prompts
<1> QED BY <1>1, <1>2, <1>3, <1>4 DEF IndInv

(* Its calls are calls.                                                    *)
LEMMA OrphanedType ==
  ASSUME TypeOK, NEW c \in Contexts, Orphaned(Left(c))
  PROVE  calls' \in [Contexts -> Call0]
<1>1. Left(c) \in [Contexts -> Call0] BY DEF Left, TypeOK, CallsOK, Call0, Points
<1>2. \A d \in Contexts : [Left(c)[d] EXCEPT !.same = FALSE] \in Call0 BY <1>1 DEF Call0
<1> QED BY <1>2 DEF Orphaned

(* A handler that ends the session and returns, past its guard or without   *)
(* one.                                                                    *)
LEMMA WipedKeeps ==
  ASSUME IndInv, NEW c \in Contexts, Runs(c), WipeAndReturn(c), Still, Own,
         c = "pendsv" => calls[c].pc # "none",
         c # "pendsv" => Busy(c) \/ (calls[c].pc = "entered" /\ calls[c].cmd = "lock")
  PROVE  IndInv'
<1> USE GatewayAssumption DEF IndInv, WipeAndReturn, Orphaned, Left, Contexts, Callers
<1>1. TypeOK'
  <2>1. calls' \in [Contexts -> Call0]
    <3> HIDE DEF Orphaned, Left, Contexts
    <3> QED BY OrphanedType
  <2>2. CallsOK' BY <2>1 DEF TypeOK, CallsOK, Own
  <2>3. depth' \in 0..1
    BY DEF TypeOK, CoreOK, Depth, Unguard, Guards, Busy, Shape
  <2>4. CoreOK' BY <2>3 DEF TypeOK, CoreOK, Own, core
  <2>5. SessionOK' /\ WatchedOK' /\ ClockOK' BY WipeType DEF TypeOK, Still, ClockOK
  <2> QED BY <2>2, <2>4, <2>5 DEF TypeOK
<1>2. Tokens'
  <2>1. calls[c].pc # "none" /\ ~booting BY DEF Busy, Runs
  <2>2. calls'[c].pc = "leaving" /\ \A d \in Contexts : d # c => calls'[d].pc = calls[d].pc
    BY DEF TypeOK, CallsOK, Call0
  <2> QED BY <2>1, <2>2 DEF Tokens, Own, core
<1>3. Depth'
  BY DEF TypeOK, CallsOK, Call0, Tokens, Depth, Busy, Own, core, Unguard, Guards, Shape, Runs
<1>4. Attempt' BY DEF Attempt, Wipe
<1>5. (\A d \in Contexts : Shape(d))'
  BY DEF TypeOK, CallsOK, Call0, Shape, Guarded1, Working, Busy
<1>6. (\A d \in Contexts : SessionAt(d))'
  <2>1. \A d \in Contexts \ {c} : ~Busy(d) \/ d = "pendsv"
    BY DEF Tokens, Busy, Depth
  <2> QED BY <2>1 DEF TypeOK, CallsOK, Call0, Shape, SessionAt, Wipe, Working, Dialogs, Prompts,
       Tokens, Busy
<1> QED BY <1>1, <1>2, <1>3, <1>4, <1>5, <1>6
-----------------------------------------------------------------------------
(* Every step keeps the invariant, one lemma for each section of Gateway.   *)

(* The boundary: calls, returns, exceptions, PendSV and the end of boot.    *)
LEMMA BoundaryKeeps ==
  ASSUME IndInv, 
         \/ \E c \in Callers, cmd \in Commands : Call(c, cmd)
         \/ \E c \in Contexts : Leave(c)
         \/ IrqEnter \/ IrqReturn \/ PendSV \/ Boot
  PROVE  IndInv'
<1> USE GatewayAssumption, CapsType DEF IndInv, Runs, Resting, At, Is, To, Own, core, session,
       watched, clock, Contexts, Callers, Prompts, Dialogs, Working, Guarded1, Busy, Commands,
       TypeOK, CallsOK, CoreOK, SessionOK, ClockOK, WatchedOK, Call0, Points, Tokens, Depth, Attempt,
       Shape, SessionAt
<1>1. ASSUME NEW c \in Callers, NEW cmd \in Commands, Call(c, cmd) PROVE IndInv'
  <2>1. TypeOK' BY <1>1 DEF Call, GateFree
  <2>2. (Tokens /\ Depth /\ Attempt)' BY <1>1 DEF Call, GateFree
  <2>3. (\A d \in Contexts : Shape(d) /\ SessionAt(d))' BY <1>1 DEF Call, GateFree
  <2> QED BY <2>1, <2>2, <2>3
<1>2. ASSUME NEW c \in Contexts, Leave(c) PROVE IndInv'
  <2>1. TypeOK' BY <1>2 DEF Leave, Dropped, NoCall
  <2>2. Tokens'
    <3>1. CASE c = "thread" BY <1>2, <3>1 DEF Leave, Dropped, NoCall
    <3>2. CASE c = "irq" BY <1>2, <3>2 DEF Leave, Dropped, NoCall
    <3>3. CASE c = "pendsv" BY <1>2, <3>3 DEF Leave, Dropped, NoCall
    <3> QED BY <3>1, <3>2, <3>3
  <2>3. (Depth /\ Attempt)' BY <1>2 DEF Leave, NoCall
  <2>4. (\A d \in Contexts : Shape(d) /\ SessionAt(d))' BY <1>2 DEF Leave, NoCall
  <2> QED BY <2>1, <2>2, <2>3, <2>4
<1>3. ASSUME IrqEnter PROVE IndInv'
  BY <1>3 DEF IrqEnter
<1>4. ASSUME IrqReturn PROVE IndInv'
  <2>1. TypeOK' BY <1>4 DEF IrqReturn
  <2>2. (Tokens /\ Depth /\ Attempt)' BY <1>4 DEF IrqReturn
  <2>3. (\A d \in Contexts : Shape(d) /\ SessionAt(d))' BY <1>4 DEF IrqReturn
  <2> QED BY <2>1, <2>2, <2>3
<1>5. ASSUME PendSV PROVE IndInv'
  <2>1. TypeOK' BY <1>5 DEF PendSV
  <2>2. (Tokens /\ Depth /\ Attempt)' BY <1>5 DEF PendSV
  <2>3. (\A d \in Contexts : Shape(d) /\ SessionAt(d))' BY <1>5 DEF PendSV
  <2> QED BY <2>1, <2>2, <2>3
<1>6. ASSUME Boot PROVE IndInv'
  <2>1. SessionOK' /\ WatchedOK' /\ quiet' \in 0..SessionBound + 1
    BY <1>6, OpenType DEF Boot
  <2>2. (CallsOK /\ ClockOK)' BY <1>6, <2>1 DEF Boot, Active
  <2>3. CoreOK' BY <1>6, Zenon DEF Boot
  <2>4. (Tokens /\ Depth /\ Attempt)' BY <1>6 DEF Boot, Open
  <2>5. (\A d \in Contexts : Shape(d) /\ SessionAt(d))' BY <1>6 DEF Boot, Open
  <2> QED BY <2>1, <2>2, <2>3, <2>4, <2>5
<1> HIDE DEF IndInv
<1> QED BY <1>1, <1>2, <1>3, <1>4, <1>5, <1>6

(* The steps that end the session of a call and return.                     *)
LEMMA WipingKeeps ==
  ASSUME IndInv, NEW c \in Callers, WipeAndReturn(c),
         LockRun(c) \/ DialogExpires(c) \/ PreSign(c) \/ Fail(c) \/ PinExpires(c)
  PROVE  IndInv'
<1>1. c \in Contexts /\ c # "pendsv" BY DEF Callers, Contexts
<1>2. Runs(c) /\ Still /\ Own
  BY <1>1 DEF LockRun, DialogExpires, PreSign, Fail, PinExpires, At
<1>3. Busy(c) \/ (calls[c].pc = "entered" /\ calls[c].cmd = "lock")
  <2>1. CASE DialogExpires(c) BY <2>1 DEF DialogExpires, Dialogs, Busy
  <2>2. CASE PreSign(c) \/ Fail(c) \/ PinExpires(c)
    BY <2>2 DEF PreSign, Fail, PinExpires, At, Busy
  <2>3. CASE LockRun(c) BY <2>3 DEF LockRun, At, Is
  <2> QED BY <2>1, <2>2, <2>3
<1> QED BY <1>1, <1>2, <1>3, WipedKeeps

(* The first steps of a command: its guard and its PIN check.               *)
LEMMA EntryKeeps ==
  ASSUME IndInv, NEW c \in Callers,
         UnlockAsked(c) \/ UnlockPrompts(c) \/ GuardUp(c) \/ PinCheck(c)
  PROVE  IndInv'
<1> USE GatewayAssumption, CapsType DEF IndInv, Runs, Resting, At, Is, To, Own, core, session,
       watched, clock, Contexts, Callers, Prompts, Dialogs, Working, Guarded1, Busy, Commands,
       TypeOK, CallsOK, CoreOK, SessionOK, ClockOK, WatchedOK, Call0, Points, Tokens, Depth, Attempt,
       Shape, SessionAt
<1>1. ASSUME UnlockAsked(c) PROVE IndInv'
  <2>1. TypeOK' BY <1>1 DEF UnlockAsked
  <2>2. /\ calls[c].pc = "entered" /\ calls'[c].pc \in {"leaving", "prompt"}
        /\ \A d \in Contexts : d # c => calls'[d] = calls[d]
        /\ \A d \in Contexts : calls'[d].cmd = calls[d].cmd
        /\ UNCHANGED <<depth, unlocked, forced, signs, warned, byPin, released>> /\ Own
    BY <1>1 DEF UnlockAsked
  <2>3. Tokens' BY <2>2
  <2>4. Depth'
    <3>1. \A d \in Callers : Busy(d)' <=> Busy(d) BY <2>2
    <3>2. c = "thread" => ~pended /\ calls["pendsv"].pc = "none" BY <1>1 DEF UnlockAsked
    <3> QED BY <2>2, <3>1, <3>2
  <2>5. Attempt' BY <2>2
  <2>6. (\A d \in Contexts : Shape(d) /\ SessionAt(d))' BY <1>1 DEF UnlockAsked
  <2> QED BY <2>1, <2>3, <2>4, <2>5, <2>6
<1>2. ASSUME UnlockPrompts(c) PROVE IndInv'
  <2>1. TypeOK' BY <1>2 DEF UnlockPrompts, Active
  <2>2. (Tokens /\ Depth /\ Attempt)' BY <1>2 DEF UnlockPrompts, Active
  <2>3. (\A d \in Contexts : Shape(d) /\ SessionAt(d))' BY <1>2 DEF UnlockPrompts, Active
  <2> QED BY <2>1, <2>2, <2>3
<1>3. ASSUME GuardUp(c) PROVE IndInv'
  <2>1. \A d \in Callers : ~Busy(d) BY <1>3 DEF GuardUp, Tokens
  <2>2. TypeOK' BY <1>3, <2>1 DEF GuardUp, Guarded
  <2>3. Depth'
    <3>1. c = "thread" => Resting("pendsv") /\ ~pended BY <1>3 DEF GuardUp
    <3>2. Busy(c)' /\ depth' = 1 BY <1>3, <2>1 DEF GuardUp, Guarded
    <3> QED BY <1>3, <3>1, <3>2 DEF GuardUp
  <2>4. (Tokens /\ Attempt)' BY <1>3 DEF GuardUp
  <2>5. (\A d \in Contexts : Shape(d) /\ SessionAt(d))' BY <1>3 DEF GuardUp
  <2> QED BY <2>2, <2>3, <2>4, <2>5
<1>4. CASE PinCheck(c) /\ unlocked
  <2>1. calls[c].pc = "guarded" /\ Runs(c) /\ calls[c].cmd \in Guarded1 BY <1>4 DEF PinCheck
  <2>2. PICK stage \in {"dialog", "preflight", "grace", "commit"} :
          /\ calls' = [calls EXCEPT ![c].pc = stage, ![c].same = TRUE]
          /\ calls[c].cmd = "forced" => stage # "dialog"
          /\ stage = "commit" => calls[c].cmd = "commit"
          /\ stage = "grace" => calls[c].cmd = "initCode"
    <3>1. calls' = [calls EXCEPT ![c].pc = FirstStage(calls[c].cmd), ![c].same = TRUE]
      BY <1>4, Zenon DEF PinCheck
    <3> QED BY <2>1, <3>1, StageOfCommand
  <2>3. UNCHANGED <<depth, session, watched, clock>> /\ Own BY <1>4 DEF PinCheck
  <2>4. CallsOK'
    <3>1. stage \in Points OBVIOUS
    <3>2. calls \in [Contexts -> Call0] /\ c \in Contexts OBVIOUS
    <3> HIDE DEF Contexts, Call0, Points
    <3>3. calls' \in [Contexts -> Call0] BY <2>2, <3>1, <3>2, StagedType
    <3> QED BY <2>3, <3>3
  <2>5. (CoreOK /\ SessionOK /\ ClockOK /\ WatchedOK)' BY <2>3
  <2>6. /\ calls'[c].pc = stage /\ calls'[c].cmd = calls[c].cmd /\ calls'[c].same
        /\ \A d \in Contexts \ {c} : calls'[d] = calls[d]
    BY <2>2
  <2>7. (Tokens /\ Depth /\ Attempt)' BY <2>1, <2>3, <2>6
  <2>8. Shape(c)' BY <2>1, <2>2, <2>6
  <2>9. SessionAt(c)' BY <1>4, <2>1, <2>3, <2>6
  <2>10. \A d \in Contexts \ {c} : Shape(d)' /\ SessionAt(d)' BY <2>3, <2>6
  <2>11. TypeOK' BY <2>4, <2>5
  <2> HIDE DEF TypeOK, Tokens, Depth, Attempt, Shape, SessionAt, Contexts
  <2>12. (\A d \in Contexts : Shape(d) /\ SessionAt(d))' BY <2>8, <2>9, <2>10
  <2> QED BY <2>7, <2>11, <2>12
<1>5. ASSUME PinCheck(c), ~unlocked PROVE IndInv'
  <2>1. TypeOK' BY <1>5 DEF PinCheck, Return, Left, Unguard, Guards
  <2>2. (Tokens /\ Depth /\ Attempt)' BY <1>5 DEF PinCheck, Return, Left, Unguard, Guards
  <2>3. (\A d \in Contexts : Shape(d) /\ SessionAt(d))' BY <1>5 DEF PinCheck, Return, Left, Unguard, Guards
  <2> QED BY <2>1, <2>2, <2>3
<1> QED BY <1>1, <1>2, <1>3, <1>4, <1>5

(* Dialogs.                                                                *)
LEMMA DialogKeeps ==
  ASSUME IndInv, NEW c \in Callers,
         Press(c) \/ DeadlineExpires(c)
  PROVE  IndInv'
<1> USE GatewayAssumption, CapsType DEF IndInv, Runs, Resting, At, Is, To, Own, core, session,
       watched, clock, Contexts, Callers, Prompts, Dialogs, Working, Session, Guarded1, Busy, Commands,
       TypeOK, CallsOK, CoreOK, SessionOK, ClockOK, WatchedOK, Call0, Points, Tokens, Depth, Attempt,
       Shape, SessionAt
<1>1. ASSUME Press(c) PROVE IndInv'
  <2>1. TypeOK' BY <1>1 DEF Press, Pressed, Consented, Return, Left, Unguard, Guards
  <2>2. (Tokens /\ Depth /\ Attempt)' BY <1>1 DEF Press, Pressed, Consented, Return, Left, Unguard, Guards
  <2>3. (\A d \in Contexts : Shape(d) /\ SessionAt(d))' BY <1>1 DEF Press, Pressed, Consented, Return, Left, Unguard, Guards
  <2> QED BY <2>1, <2>2, <2>3
<1>2. ASSUME DeadlineExpires(c) PROVE IndInv'
  <2>1. TypeOK' BY <1>2 DEF DeadlineExpires, Session, Return, Left, Unguard, Guards
  <2>2. (Tokens /\ Depth /\ Attempt)' BY <1>2 DEF DeadlineExpires, Session, Return, Left, Unguard, Guards
  <2>3. (\A d \in Contexts : Shape(d) /\ SessionAt(d))' BY <1>2 DEF DeadlineExpires, Session, Return, Left, Unguard, Guards
  <2> QED BY <2>1, <2>2, <2>3
<1> QED BY <1>1, <1>2

(* Signing.                                                                *)
LEMMA SigningKeeps ==
  ASSUME IndInv, NEW c \in Callers,
         \/ ForcedPreflight(c) \/ ForcedCharge(c) \/ Release(c)
         \/ (PreSign(c) \/ Fail(c)) /\ ~WipeAndReturn(c)
  PROVE  IndInv'
<1> USE GatewayAssumption, CapsType DEF IndInv, Runs, Resting, At, Is, To, Own, core, session,
       watched, clock, Contexts, Callers, Prompts, Dialogs, Working, Guarded1, Busy, Commands,
       TypeOK, CallsOK, CoreOK, SessionOK, ClockOK, WatchedOK, Call0, Points, Tokens, Depth, Attempt,
       Shape, SessionAt
<1>1. ASSUME ForcedPreflight(c) PROVE IndInv'
  <2>1. TypeOK' BY <1>1 DEF ForcedPreflight, Return, Left, Unguard, Guards
  <2>2. (Tokens /\ Depth /\ Attempt)' BY <1>1 DEF ForcedPreflight, Return, Left, Unguard, Guards
  <2>3. (\A d \in Contexts : Shape(d) /\ SessionAt(d))' BY <1>1 DEF ForcedPreflight, Return, Left, Unguard, Guards
  <2> QED BY <2>1, <2>2, <2>3
<1>2. ASSUME ForcedCharge(c) PROVE IndInv'
  <2>1. TypeOK' BY <1>2 DEF ForcedCharge, Armed, Return, Left, Unguard, Guards
  <2>2. (Tokens /\ Depth /\ Attempt)' BY <1>2 DEF ForcedCharge, Armed, Return, Left, Unguard, Guards
  <2>3. (\A d \in Contexts : Shape(d) /\ SessionAt(d))' BY <1>2 DEF ForcedCharge, Armed, Return, Left, Unguard, Guards
  <2> QED BY <2>1, <2>2, <2>3
<1>3. ASSUME PreSign(c), ~WipeAndReturn(c) PROVE IndInv'
  <2>1. TypeOK' BY <1>3 DEF PreSign, RateOk, UnderCap, Still, Return, Left, Unguard, Guards
  <2>2. (Tokens /\ Depth /\ Attempt)' BY <1>3 DEF PreSign, RateOk, UnderCap, Still, Return, Left, Unguard, Guards
  <2>3. (\A d \in Contexts : Shape(d) /\ SessionAt(d))' BY <1>3 DEF PreSign, RateOk, UnderCap, Still, Return, Left, Unguard, Guards
  <2> QED BY <2>1, <2>2, <2>3
<1>4. ASSUME Release(c) PROVE IndInv'
  <2>1. TypeOK' BY <1>4 DEF Release, Active, Return, Left, Unguard, Guards
  <2>2. (Tokens /\ Depth /\ Attempt)' BY <1>4 DEF Release, Active, Return, Left, Unguard, Guards
  <2>3. (\A d \in Contexts : Shape(d) /\ SessionAt(d))' BY <1>4 DEF Release, Active, Return, Left, Unguard, Guards
  <2> QED BY <2>1, <2>2, <2>3
<1>5. ASSUME Fail(c), ~WipeAndReturn(c) PROVE IndInv'
  <2>1. Runs(c) /\ calls[c].pc \in {"work", "signing"} /\ Return(c)
        /\ UNCHANGED <<session, watched, quiet>> /\ Still /\ Own
    BY <1>5 DEF Fail
  <2>2. TypeOK' BY <2>1 DEF Still, Return, Left, Unguard, Guards
  <2>3. (Tokens /\ Depth /\ Attempt)' BY <2>1 DEF Return, Left, Unguard, Guards
  <2>4. (\A d \in Contexts : Shape(d) /\ SessionAt(d))' BY <2>1 DEF Return, Left, Unguard, Guards
  <2> QED BY <2>2, <2>3, <2>4
<1> QED BY <1>1, <1>2, <1>3, <1>4, <1>5

(* GET_INIT_CODE and the firmware update.                                   *)
LEMMA UpdateKeeps ==
  ASSUME IndInv, NEW c \in Callers,
         \/ GrantGrace(c) \/ InitCodeDone(c) \/ BeginDone(c)
         \/ CommitStarts(c) \/ CommitFails(c) \/ CommitDone(c)
  PROVE  IndInv'
<1> USE GatewayAssumption, CapsType DEF IndInv, Runs, Resting, At, Is, To, Own, core, session,
       watched, clock, Contexts, Callers, Prompts, Dialogs, Working, Guarded1, Busy, Commands,
       TypeOK, CallsOK, CoreOK, SessionOK, ClockOK, WatchedOK, Call0, Points, Tokens, Depth, Attempt,
       Shape, SessionAt
<1>1. ASSUME GrantGrace(c) PROVE IndInv'
  <2>1. (CallsOK /\ CoreOK)' BY <1>1 DEF GrantGrace
  <2>2. SessionOK' BY <1>1 DEF GrantGrace
  <2>3. (ClockOK /\ WatchedOK)' BY <1>1 DEF GrantGrace
  <2>4. Tokens' BY <1>1 DEF GrantGrace
  <2>5. Depth' BY <1>1 DEF GrantGrace
  <2>6. Attempt' BY <1>1 DEF GrantGrace
  <2>7. (\A d \in Contexts : Shape(d) /\ SessionAt(d))' BY <1>1 DEF GrantGrace
  <2> QED BY <2>1, <2>2, <2>3, <2>4, <2>5, <2>6, <2>7
<1>2. ASSUME InitCodeDone(c) PROVE IndInv'
  <2>1. TypeOK' BY <1>2 DEF InitCodeDone, Session, Return, Left, Unguard, Guards
  <2>2. (Tokens /\ Depth /\ Attempt)' BY <1>2 DEF InitCodeDone, Session, Return, Left, Unguard, Guards
  <2>3. (\A d \in Contexts : Shape(d) /\ SessionAt(d))' BY <1>2 DEF InitCodeDone, Session, Return, Left, Unguard, Guards
  <2> QED BY <2>1, <2>2, <2>3
<1>3. ASSUME BeginDone(c) PROVE IndInv'
  <2>1. TypeOK' BY <1>3 DEF BeginDone, Active, Return, Left, Unguard, Guards
  <2>2. (Tokens /\ Depth /\ Attempt)' BY <1>3 DEF BeginDone, Active, Return, Left, Unguard, Guards
  <2>3. (\A d \in Contexts : Shape(d) /\ SessionAt(d))' BY <1>3 DEF BeginDone, Active, Return, Left, Unguard, Guards
  <2> QED BY <2>1, <2>2, <2>3
<1>4. ASSUME CommitStarts(c) PROVE IndInv'
  <2>1. TypeOK' BY <1>4 DEF CommitStarts, Active, Still, Return, Left, Unguard, Guards
  <2>2. (Tokens /\ Depth /\ Attempt)' BY <1>4 DEF CommitStarts, Active, Still, Return, Left, Unguard, Guards
  <2>3. (\A d \in Contexts : Shape(d) /\ SessionAt(d))' BY <1>4 DEF CommitStarts, Active, Still, Return, Left, Unguard, Guards
  <2> QED BY <2>1, <2>2, <2>3
<1>5. ASSUME CommitFails(c) PROVE IndInv'
  <2>1. (CallsOK /\ CoreOK)' BY <1>5 DEF CommitFails, Return, Left, Unguard, Guards
  <2>2. SessionOK' BY <1>5, Zenon DEF CommitFails, Return, Left, Unguard, Guards
  <2>3. (ClockOK /\ WatchedOK)' BY <1>5 DEF CommitFails, Return, Left, Unguard, Guards
  <2>4. Tokens' BY <1>5 DEF CommitFails, Return, Left, Unguard, Guards
  <2>5. Depth' BY <1>5 DEF CommitFails, Return, Left, Unguard, Guards
  <2>6. Attempt' BY <1>5 DEF CommitFails, Return, Left, Unguard, Guards
  <2>7. (\A d \in Contexts : Shape(d) /\ SessionAt(d))' BY <1>5 DEF CommitFails, Return, Left, Unguard, Guards
  <2> QED BY <2>1, <2>2, <2>3, <2>4, <2>5, <2>6, <2>7
<1>6. ASSUME CommitDone(c) PROVE IndInv' BY <1>6, ResetKeeps DEF CommitDone
<1> QED BY <1>1, <1>2, <1>3, <1>4, <1>5, <1>6

(* The PIN prompts of CMD_REQUEST_UNLOCK and of PendSV.                     *)
LEMMA PromptKeeps ==
  ASSUME IndInv, NEW c \in Contexts,
         \/ PinPress(c) \/ (c = "pendsv" /\ PinExpires(c)) \/ PinRejected(c) \/ PinAccepted(c)
         \/ ArmAttempt(c) \/ UnlockDone(c) \/ (c = "pendsv" /\ PendSVAsks)
  PROVE  IndInv'
<1> USE GatewayAssumption, CapsType DEF IndInv, Runs, Resting, At, Is, To, Own, core, session,
       watched, clock, Contexts, Callers, Prompts, Dialogs, Working, Guarded1, Busy, Commands,
       TypeOK, CallsOK, CoreOK, SessionOK, ClockOK, WatchedOK, Call0, Points, Tokens, Depth, Attempt,
       Shape, SessionAt
<1>1. ASSUME PinPress(c) PROVE IndInv'
  <2>1. (CallsOK /\ CoreOK)' BY <1>1 DEF PinPress, Pressed, GivesUp, Session, Return, Left, Unguard, Guards
  <2>2. SessionOK' BY <1>1 DEF PinPress, Pressed, GivesUp, Session, Return, Left, Unguard, Guards
  <2>3. (ClockOK /\ WatchedOK)' BY <1>1 DEF PinPress, Pressed, GivesUp, Session, Return, Left, Unguard, Guards
  <2>4. Tokens' BY <1>1 DEF PinPress, Pressed, GivesUp, Session, Return, Left, Unguard, Guards
  <2>5. Depth' BY <1>1 DEF PinPress, Pressed, GivesUp, Session, Return, Left, Unguard, Guards
  <2>6. Attempt' BY <1>1 DEF PinPress, Pressed, GivesUp, Session, Return, Left, Unguard, Guards
  <2>7. (\A d \in Contexts : Shape(d) /\ SessionAt(d))' BY <1>1 DEF PinPress, Pressed, GivesUp, Session, Return, Left, Unguard, Guards
  <2> QED BY <2>1, <2>2, <2>3, <2>4, <2>5, <2>6, <2>7
<1>2. ASSUME c = "pendsv", PinExpires(c) PROVE IndInv'
  <2>1. Active /\ UNCHANGED <<calls, depth, session, watched, quiet>> /\ Own
    BY <1>2 DEF PinExpires
  <2>2. TypeOK' BY <2>1 DEF Active
  <2>3. (Tokens /\ Depth /\ Attempt)' BY <2>1 DEF Active
  <2>4. (\A d \in Contexts : Shape(d) /\ SessionAt(d))' BY <2>1 DEF Active
  <2> QED BY <2>2, <2>3, <2>4
<1>3. ASSUME PinRejected(c) PROVE IndInv'
  <2>1. (CallsOK /\ CoreOK)' BY <1>3 DEF PinRejected, GivesUp, Active, Still, Return, Left, Unguard, Guards
  <2>2. SessionOK' BY <1>3 DEF PinRejected, GivesUp, Active, Still, Return, Left, Unguard, Guards
  <2>3. (ClockOK /\ WatchedOK)' BY <1>3 DEF PinRejected, GivesUp, Active, Still, Return, Left, Unguard, Guards
  <2>4. Tokens' BY <1>3 DEF PinRejected, GivesUp, Active, Still, Return, Left, Unguard, Guards
  <2>5. Depth' BY <1>3 DEF PinRejected, GivesUp, Active, Still, Return, Left, Unguard, Guards
  <2>6. Attempt' BY <1>3 DEF PinRejected, GivesUp, Active, Still, Return, Left, Unguard, Guards
  <2>7. (\A d \in Contexts : Shape(d) /\ SessionAt(d))' BY <1>3 DEF PinRejected, GivesUp, Active, Still, Return, Left, Unguard, Guards
  <2> QED BY <2>1, <2>2, <2>3, <2>4, <2>5, <2>6, <2>7
<1>4. ASSUME PinAccepted(c) PROVE IndInv'
  <2>1. SessionOK' /\ WatchedOK' /\ quiet' \in 0..SessionBound + 1
    BY <1>4, OpenType DEF PinAccepted
  <2>2. TypeOK' BY <1>4, <2>1 DEF PinAccepted, Still
  <2>3. (Tokens /\ Depth /\ Attempt)' BY <1>4 DEF PinAccepted, Open
  <2>4. (\A d \in Contexts : Shape(d) /\ SessionAt(d))' BY <1>4 DEF PinAccepted, Open
  <2> QED BY <2>2, <2>3, <2>4
<1>5. ASSUME ArmAttempt(c) PROVE IndInv'
  <2>1. TypeOK' BY <1>5 DEF ArmAttempt
  <2>2. (Tokens /\ Depth /\ Attempt)' BY <1>5 DEF ArmAttempt
  <2>3. (\A d \in Contexts : Shape(d) /\ SessionAt(d))' BY <1>5 DEF ArmAttempt
  <2> QED BY <2>1, <2>2, <2>3
<1>6. ASSUME UnlockDone(c) PROVE IndInv'
  <2>1. TypeOK' BY <1>6 DEF UnlockDone, Active, Return, Left, Unguard, Guards
  <2>2. (Tokens /\ Depth /\ Attempt)' BY <1>6 DEF UnlockDone, Active, Return, Left, Unguard, Guards
  <2>3. (\A d \in Contexts : Shape(d) /\ SessionAt(d))' BY <1>6 DEF UnlockDone, Active, Return, Left, Unguard, Guards
  <2> QED BY <2>1, <2>2, <2>3
<1>7. ASSUME PendSVAsks PROVE IndInv'
  <2>1. TypeOK' BY <1>7 DEF PendSVAsks, StillLocked, Active, Still
  <2>2. (Tokens /\ Depth /\ Attempt)' BY <1>7 DEF PendSVAsks, StillLocked, Active, Still
  <2>3. (\A d \in Contexts : Shape(d) /\ SessionAt(d))' BY <1>7 DEF PendSVAsks, StillLocked, Active, Still
  <2> QED BY <2>1, <2>2, <2>3
<1> QED BY <1>1, <1>2, <1>3, <1>4, <1>5, <1>6, <1>7


(* SysTick: it ages the session, wipes it under nobody, or resets.          *)
LEMMA TickKeeps ==
  ASSUME IndInv, Tick
  PROVE  IndInv'
<1> USE GatewayAssumption, CapsType
<1> DEFINE age == Least(idle + 1, IdleCap)
<1>1. age \in 0..IdleCap BY DEF Least, IndInv, TypeOK, ClockOK
<1>2. (IF unlocked THEN Least(quiet + 1, SessionBound + 1) ELSE 0) \in 0..SessionBound + 1
  BY DEF Least, IndInv, TypeOK, ClockOK
<1>3. CASE SysReset BY <1>3, ResetKeeps
<1>4. CASE Wipe /\ NobodyBusy /\ Orphaned(calls) /\ idle' = age /\ deferred' = 0
        /\ pended' = TRUE /\ UNCHANGED <<gate, depth, irq, booting>> /\ unlocked
  <2> USE <1>4 DEF IndInv, Contexts, Callers
  <2>1. \A c \in Callers : ~Busy(c) BY DEF NobodyBusy, Depth
  <2>2. calls' = [c \in Contexts |-> [calls[c] EXCEPT !.same = FALSE]] BY DEF Orphaned
  <2>3. TypeOK'
    <3>1. CallsOK' BY <2>2 DEF TypeOK, CallsOK, Call0
    <3>2. CoreOK' BY DEF TypeOK, CoreOK
    <3>3. SessionOK' /\ WatchedOK' /\ ClockOK' BY <1>1, WipeType DEF TypeOK, ClockOK
    <3> QED BY <3>1, <3>2, <3>3 DEF TypeOK
  <2>4. \A c \in Contexts : calls'[c].pc = calls[c].pc /\ calls'[c].cmd = calls[c].cmd
    BY <2>2 DEF TypeOK, CallsOK, Call0
  <2>5. Tokens' BY <2>4 DEF Tokens
  <2>6. Depth' BY <2>1, <2>4 DEF Depth, Busy, SessionAt
  <2>7. Attempt' BY DEF Attempt, Wipe
  <2>8. (\A c \in Contexts : Shape(c))' BY <2>4 DEF Shape
  <2>9. (\A c \in Contexts : SessionAt(c))'
    BY <2>1, <2>4 DEF SessionAt, Wipe, Busy, Working, Dialogs, Shape, Prompts
  <2> QED BY <2>3, <2>5, <2>6, <2>7, <2>8, <2>9
<1>5. CASE /\ idle' = age /\ quiet' = IF unlocked THEN Least(quiet + 1, SessionBound + 1) ELSE 0
           /\ deferred' \in 0..Defer /\ UNCHANGED <<calls, gate, depth, core, session, watched>>
  <2>1. TypeOK'
    BY <1>1, <1>2, <1>5 DEF IndInv, TypeOK, CallsOK, CoreOK, SessionOK, ClockOK, WatchedOK, core,
       session, watched
  <2>2. (Tokens /\ Depth /\ Attempt)'
    BY <1>5 DEF IndInv, Tokens, Depth, Attempt, Busy, core, session, watched
  <2>3. (\A c \in Contexts : Shape(c) /\ SessionAt(c))'
    BY <1>5 DEF IndInv, Shape, SessionAt, session, watched
  <2> QED BY <2>1, <2>2, <2>3 DEF IndInv
<1>6. ~DeferOver => deferred + 1 \in 0..Defer
  BY DEF DeferOver, IndInv, TypeOK, ClockOK, DeferLimit
<1>7. 0 \in 0..Defer OBVIOUS
<1>8. CASE ~(age > Timeout /\ unlocked) BY <1>5, <1>7, <1>8 DEF Tick
<1>9. CASE age > Timeout /\ unlocked /\ NobodyBusy BY <1>4, <1>9 DEF Tick
<1>10. CASE age > Timeout /\ unlocked /\ ~NobodyBusy /\ DeferOver BY <1>3, <1>10 DEF Tick
<1>11. CASE age > Timeout /\ unlocked /\ ~NobodyBusy /\ ~DeferOver
  BY <1>5, <1>6, <1>11 DEF Tick
<1> QED BY <1>8, <1>9, <1>10, <1>11
-----------------------------------------------------------------------------
(* The invariant, and what follows from it.                                *)

LEMMA InitHolds == Init => IndInv
<1> SUFFICES ASSUME Init PROVE IndInv OBVIOUS
<1> USE GatewayAssumption, CapsType DEF Init
<1>1. CallsOK BY DEF CallsOK, NoCall, Call0, Points, Contexts
<1>2. irq \in BOOLEAN /\ pended \in BOOLEAN /\ booting \in BOOLEAN /\ byPin \in BOOLEAN
  BY Zenon
<1>3. unlocked \in BOOLEAN /\ fwctx \in BOOLEAN /\ graced \in BOOLEAN BY Zenon
<1>4. CoreOK /\ SessionOK /\ ClockOK /\ WatchedOK
  BY <1>2, <1>3 DEF CoreOK, SessionOK, ClockOK, WatchedOK
<1>5. Tokens /\ Depth /\ Attempt
  BY DEF Tokens, Depth, Attempt, Busy, NoCall, Contexts, Callers
<1>6. \A c \in Contexts : Shape(c) /\ SessionAt(c)
  BY DEF Shape, SessionAt, NoCall, Guarded1, Working, Dialogs, Prompts
<1> QED BY <1>1, <1>4, <1>5, <1>6 DEF IndInv, TypeOK

LEMMA StutterKeeps == IndInv /\ UNCHANGED vars => IndInv'
BY DEF IndInv, TypeOK, CallsOK, CoreOK, SessionOK, ClockOK, WatchedOK, Tokens, Depth, Attempt,
   Busy, Shape, SessionAt, vars, session, watched, clock, core

LEMMA NextKeeps == IndInv /\ Next => IndInv'
<1> SUFFICES ASSUME IndInv, Next PROVE IndInv' OBVIOUS
<1>1. CASE \E c \in Callers, cmd \in Commands : Call(c, cmd) BY <1>1, BoundaryKeeps
<1>2. ASSUME NEW c \in Callers, Step(c) \/ Press(c) PROVE IndInv'
  <2>1. CASE WipeAndReturn(c) /\ (LockRun(c) \/ DialogExpires(c) \/ PreSign(c) \/ Fail(c))
    BY <2>1, WipingKeeps
  <2>2. CASE UnlockAsked(c) \/ UnlockPrompts(c) \/ GuardUp(c) \/ PinCheck(c)
    BY <2>2, EntryKeeps
  <2>3. CASE Press(c) \/ DeadlineExpires(c) BY <2>3, DialogKeeps
  <2>4. CASE \/ ForcedPreflight(c) \/ ForcedCharge(c) \/ Release(c)
             \/ (PreSign(c) \/ Fail(c)) /\ ~WipeAndReturn(c)
    BY <2>4, SigningKeeps
  <2>5. CASE GrantGrace(c) \/ InitCodeDone(c) \/ BeginDone(c)
             \/ CommitStarts(c) \/ CommitFails(c) \/ CommitDone(c)
    BY <2>5, UpdateKeeps
  <2>6. LockRun(c) \/ DialogExpires(c) => WipeAndReturn(c) BY DEF LockRun, DialogExpires
  <2> QED BY <1>2, <2>1, <2>2, <2>3, <2>4, <2>5, <2>6 DEF Step
<1>3. ASSUME NEW c \in Contexts, AskPin(c) \/ PinPress(c) PROVE IndInv'
  <2>1. CASE Leave(c) BY <2>1, BoundaryKeeps
  <2>2. CASE c # "pendsv" /\ PinExpires(c)
    <3>1. c \in Callers BY <2>2 DEF Contexts, Callers
    <3>2. WipeAndReturn(c) BY <2>2 DEF PinExpires
    <3> QED BY <2>2, <3>1, <3>2, WipingKeeps
  <2> QED BY <1>3, <2>1, <2>2, PromptKeeps DEF AskPin
<1>4. CASE PendSVAsks
  <2>1. "pendsv" \in Contexts BY DEF Contexts
  <2> QED BY <1>4, <2>1, PromptKeeps
<1>5. CASE PendSV \/ IrqEnter \/ IrqReturn \/ Boot BY <1>5, BoundaryKeeps
<1>6. CASE Tick BY <1>6, TickKeeps
<1> QED BY <1>1, <1>2, <1>3, <1>4, <1>5, <1>6 DEF Next

(* The invariant holds of every behaviour, whatever the limits.             *)
THEOREM Invariant == Spec => []IndInv
BY InitHolds, NextKeeps, StutterKeeps, PTL DEF Spec

(* The types of every variable, the handler depth among them.               *)
THEOREM TypesHold == Spec => []TypeOK
<1>1. IndInv => TypeOK BY DEF IndInv
<1> QED BY <1>1, Invariant, PTL

(* What Depth counts is what the properties call a busy handler.            *)
LEMMA BusyIsBusy ==
  ASSUME IndInv
  PROVE  HandlerBusy <=> \E c \in Callers : Busy(c)
<1>1. \A c \in Callers : (~Resting(c) /\ calls[c].pc # "leaving" /\ Guards(c)) <=> Busy(c)
  BY DEF IndInv, TypeOK, CallsOK, Call0, Commands, Points, Contexts, Callers, Shape, Resting, Busy, Guards
<1> QED BY <1>1 DEF HandlerBusy, InFlight

(* One gateway call at a time (GATEWAY_GATE), counted by HANDLER_DEPTH, and *)
(* none half done under PendSV's prompt.                                    *)
THEOREM OneHandlerAtATime == Spec => []OneHandler
<1>1. IndInv => OneHandler
  <2> SUFFICES ASSUME IndInv PROVE OneHandler OBVIOUS
  <2>1. \A c, d \in InFlight : c = d BY DEF IndInv, Tokens, InFlight, Resting
  <2>2. depth = IF HandlerBusy THEN 1 ELSE 0 BY BusyIsBusy DEF IndInv, Depth
  <2>3. ~Resting("pendsv") => ~HandlerBusy
    <3> SUFFICES ASSUME ~Resting("pendsv") PROVE ~HandlerBusy OBVIOUS
    <3>1. ~Busy("thread") BY DEF IndInv, Depth, Resting
    <3>2. ~Busy("irq") BY DEF IndInv, Tokens, Resting, Callers, Busy
    <3> QED BY <3>1, <3>2, BusyIsBusy DEF Callers
  <2> QED BY <2>1, <2>2, <2>3 DEF OneHandler
<1> QED BY <1>1, Invariant, PTL

(* A call works in the session its PIN check saw (HANDLER_DEPTH holds off   *)
(* the wipe, the token every other call).                                  *)
THEOREM SessionsStable == Spec => []SessionStable
<1>1. IndInv => SessionStable BY DEF IndInv, SessionStable, SessionAt, Contexts, Callers
<1> QED BY <1>1, Invariant, PTL

(* A PIN is only ever asked for on a locked device.                         *)
THEOREM PromptsWhenLocked == Spec => []PromptWhenLocked
<1>1. IndInv => PromptWhenLocked BY DEF IndInv, PromptWhenLocked, SessionAt
<1> QED BY <1>1, Invariant, PTL

(* One forced attempt for each PIN, never without its warning.              *)
THEOREM ForcedOnlyOnce == Spec => []ForcedOnce
<1>1. IndInv => ForcedOnce
  BY DEF IndInv, ForcedOnce, Attempt, SessionAt, Is, Contexts, Callers
<1> QED BY <1>1, Invariant, PTL

(* The session's cap on signatures holds, and every release was charged.    *)
THEOREM CapHolds == Spec => []RateCap
<1>1. IndInv => RateCap BY DEF IndInv, RateCap, Attempt
<1> QED BY <1>1, Invariant, PTL

(* An expired session only comes back for a consent given before it expired *)
(* (is_idle, grace, reset_activity).                                       *)
LEMMA NextKeepsExpiry ==
  ASSUME IndInv, Next, unlocked, Expired, unlocked', idle' <= Timeout
  PROVE  Earned \/ \E c \in Contexts : calls[c].pc = "fresh"
<1> USE GatewayAssumption DEF Expired, IndInv, TypeOK, ClockOK, Still, Active, Pressed, clock
<1>1. ASSUME NEW c \in Callers, NEW cmd \in Commands, Call(c, cmd) PROVE FALSE
  BY <1>1 DEF Call
<1>2. ASSUME NEW c \in Callers, Step(c) \/ Press(c) PROVE Earned
  <2>1. c \in Contexts BY DEF Callers, Contexts
  <2>2. CASE Release(c) BY <2>2 DEF Release, At, Earned
  <2>3. CASE BeginDone(c) BY <2>3 DEF BeginDone, At, Earned
  <2>4. CASE CommitStarts(c) BY <2>4 DEF CommitStarts, Finalizes, At, Earned
  <2>5. CASE UnlockPrompts(c) BY <2>1, <2>5 DEF UnlockPrompts, At, SessionAt
  <2>6. CASE GrantGrace(c) BY <2>6 DEF GrantGrace, GraceDue
  <2>7. CASE CommitDone(c) \/ LockRun(c) \/ DialogExpires(c)
    BY <2>7 DEF CommitDone, SysReset, LockRun, DialogExpires, WipeAndReturn, Wipe
  <2>8. CASE UnlockAsked(c) \/ GuardUp(c) \/ PinCheck(c) \/ DeadlineExpires(c)
    BY <2>8 DEF UnlockAsked, GuardUp, PinCheck, DeadlineExpires
  <2>9. CASE ForcedPreflight(c) \/ ForcedCharge(c) \/ PreSign(c) \/ Fail(c)
    BY <2>9 DEF ForcedPreflight, ForcedCharge, PreSign, Fail
  <2>10. CASE InitCodeDone(c) \/ CommitFails(c) \/ Press(c)
    BY <2>10 DEF InitCodeDone, CommitFails, Press
  <2> QED BY <1>2, <2>2, <2>3, <2>4, <2>5, <2>6, <2>7, <2>8, <2>9, <2>10 DEF Step
<1>3. ASSUME NEW c \in Contexts, AskPin(c) \/ PinPress(c) PROVE calls[c].pc = "fresh"
  <2>1. CASE UnlockDone(c) BY <2>1 DEF UnlockDone, At
  <2>2. CASE PinExpires(c) \/ PinRejected(c) \/ PinAccepted(c)
    BY <2>2 DEF PinExpires, PinRejected, PinAccepted, At, SessionAt
  <2>3. CASE ArmAttempt(c) \/ Leave(c) \/ PinPress(c)
    BY <2>3 DEF ArmAttempt, Leave, PinPress
  <2> QED BY <1>3, <2>1, <2>2, <2>3 DEF AskPin
<1>4. CASE PendSVAsks BY <1>4 DEF PendSVAsks, StillLocked
<1>5. CASE PendSV \/ IrqEnter \/ IrqReturn BY <1>5 DEF PendSV, IrqEnter, IrqReturn
<1>6. CASE Boot BY <1>6 DEF Boot, Tokens
<1>7. CASE Tick
  <2>1. Least(idle + 1, IdleCap) \in Nat /\ Least(idle + 1, IdleCap) > Timeout
    BY CapsType DEF Least, IdleCap
  <2>2. ~SysReset BY DEF SysReset, Wipe
  <2>3. idle' = Least(idle + 1, IdleCap) BY <1>7, <2>1, <2>2 DEF Tick
  <2> QED BY <2>1, <2>3
<1> QED BY <1>1, <1>2, <1>3, <1>4, <1>5, <1>6, <1>7 DEF Next

THEOREM ExpiredStaysExpired == Spec => ExpiredNotRevived
<1>1. IndInv /\ [Next]_vars =>
        [unlocked /\ Expired /\ unlocked' /\ idle' <= Timeout =>
           Earned \/ \E c \in Contexts : calls[c].pc = "fresh"]_vars
  BY NextKeepsExpiry
<1> QED BY <1>1, Invariant, PTL DEF Spec, ExpiredNotRevived
-----------------------------------------------------------------------------
(* How long a session can last.  A session that nobody confirms anything in *)
(* lapses after Timeout + Defer - 1 ticks.  What it has lasted since the    *)
(* last press is what has run since the timer was reset and what was        *)
(* allowed for the extensions that are no longer to come.                  *)

Does(c, pc, cmd) == calls[c].pc = pc /\ calls[c].cmd = cmd
Opening == \E c \in Contexts : calls[c].pc \in {"arm", "fresh"}

(* A call that ends with a reset of the timer; a COMMIT that can still come. *)
Extends(c) == calls[c].pc \in {"arm", "fresh", "rate", "signing"} \/ Does(c, "work", "begin")
Extending == \E c \in Contexts : Extends(c)
Renewable ==
  \/ \E c \in Contexts : Does(c, "work", "begin")
  \/ fwctx /\ \A c \in Contexts : ~Does(c, "work", "commit")

Lapse == Timeout + Defer - 1
Allowed ==
  (IF Extending THEN 0 ELSE Lapse) + (IF Renewable THEN 0 ELSE Lapse) + (IF graced THEN Grace ELSE 0)

(* A session opened by a PIN that took too long is due from the start.      *)
Clocked ==
  /\ deferred < Defer
  /\ unlocked => \/ idle <= Timeout + deferred /\ quiet - idle <= Allowed
                 \/ Opening /\ Expired /\ quiet <= deferred

(* The clocks are natural numbers.                                         *)
LEMMA ClocksType ==
  ASSUME TypeOK
  PROVE  idle \in Nat /\ deferred \in Nat /\ quiet \in Nat /\ Lapse \in Nat
BY CapsType, GatewayAssumption DEF TypeOK, ClockOK, Lapse

(* The allowance is between nothing and two lapses and the grace.          *)
LEMMA AllowedType == Allowed \in Nat /\ Allowed <= 2 * Lapse + Grace /\ Lapse \in Nat
BY GatewayAssumption DEF Lapse, Allowed

(* And so it is after any step.                                            *)
LEMMA AllowedNumber == Allowed \in Nat /\ Allowed' \in Nat
BY GatewayAssumption DEF Lapse, Allowed

(* While one call is busy no other is.                                     *)
LEMMA Alone ==
  ASSUME IndInv, NEW c \in Contexts, Busy(c), NEW d \in Contexts, d # c
  PROVE  ~Busy(d)
BY DEF IndInv, Tokens, Depth, Busy, Contexts, Callers

(* A step that only moves one call to a point it extends nothing from keeps *)
(* the allowance, unless a COMMIT gives up with its context still there.    *)
LEMMA AllowanceKept ==
  ASSUME NEW c \in Contexts, \A d \in Contexts \ {c} : calls'[d].pc = calls[d].pc /\ calls'[d].cmd = calls[d].cmd,
         ~Extends(c)', graced => graced', fwctx' => fwctx,
         Does(c, "work", "commit") /\ fwctx' => Does(c, "work", "commit")'
  PROVE  Allowed <= Allowed'
<1>1. Extending' => Extending
  BY DEF Extending, Extends, Does
<1>2. Renewable' => Renewable
  BY DEF Renewable, Extends, Does
<1> QED  BY <1>1, <1>2, AllowedType, GatewayAssumption DEF Allowed, Lapse

(* A step that touches no clock.                                           *)
LEMMA CalmClocked ==
  ASSUME IndInv, Clocked, UNCHANGED clock, unlocked' => unlocked,
         Allowed <= Allowed', Opening => Opening'
  PROVE  Clocked'
<1>1. Allowed \in Nat /\ Allowed' \in Nat
  BY AllowedNumber
<1>2. idle' = idle /\ deferred' = deferred /\ quiet' = quiet
  BY DEF clock
<1>3. idle \in Nat /\ deferred \in Nat /\ quiet \in Nat
  BY ClocksType DEF IndInv
<1>4. idle' \in Nat /\ deferred' \in Nat /\ quiet' \in Nat /\ deferred' < Defer
  BY <1>2, <1>3 DEF Clocked
<1>5. CASE unlocked /\ idle <= Timeout + deferred /\ quiet - idle <= Allowed
  <2>1. idle' <= Timeout + deferred' /\ quiet' - idle' <= Allowed'
    BY <1>1, <1>2, <1>3, <1>4, <1>5
  <2> QED  BY <1>4, <2>1 DEF Clocked
<1>6. CASE unlocked /\ Opening /\ Expired /\ quiet <= deferred
  <2>1. Opening' /\ Expired' /\ quiet' <= deferred'
    BY <1>2, <1>3, <1>4, <1>6 DEF Expired
  <2> QED  BY <1>4, <2>1 DEF Clocked
<1>7. CASE ~unlocked
  BY <1>4, <1>7 DEF Clocked
<1> QED  BY <1>5, <1>6, <1>7 DEF Clocked

(* A step that ends the session, or takes place without one.               *)
LEMMA LockedClocked ==
  ASSUME Clocked, ~unlocked', deferred' = deferred
  PROVE  Clocked'
BY DEF Clocked

(* A step that starts the session, or a press: its time counts from here.   *)
LEMMA StartClocked ==
  ASSUME IndInv, Clocked, quiet' = 0, deferred' = deferred, idle' \in Nat, idle' = 0 \/ Opening'
  PROVE  Clocked'
<1>1. PICK m \in Nat : Allowed' = m
  BY AllowedNumber
<1>2. deferred \in Nat
  BY ClocksType DEF IndInv
<1>3. deferred' \in Nat /\ deferred' < Defer
  BY <1>2 DEF Clocked
<1>4. quiet' - idle' <= m /\ quiet' <= deferred'
  <2>1. \A q, i \in Nat : q = 0 => q - i <= m
    OBVIOUS
  <2>2. quiet' \in Nat
    OBVIOUS
  <2>3. quiet' - idle' <= m
    BY <2>1, <2>2, Zenon
  <2>4. quiet' <= deferred'
    BY <1>3, <2>2
  <2> QED  BY <2>3, <2>4
<1>5. CASE idle' <= Timeout + deferred'
  <2>1. quiet' - idle' <= Allowed'
    BY <1>1, <1>4, Zenon
  <2> QED  BY <1>3, <1>5, <2>1 DEF Clocked
<1>6. CASE ~(idle' <= Timeout + deferred')
  <2>1. idle' # 0 /\ Expired'
    BY <1>3, <1>6, GatewayAssumption DEF Expired
  <2> QED  BY <1>3, <1>4, <2>1 DEF Clocked
<1> QED  BY <1>5, <1>6

(* A step that resets the timer without a press, and spends an allowance.   *)
LEMMA RenewedClocked ==
  ASSUME IndInv, Clocked, unlocked, idle' = 0, UNCHANGED <<deferred, quiet>>,
         Allowed + Lapse <= Allowed'
  PROVE  Clocked'
<1>1. Allowed \in Nat /\ Allowed' \in Nat
  BY AllowedNumber
<1>2. idle \in Nat /\ deferred \in Nat /\ quiet \in Nat
  BY ClocksType DEF IndInv
<1>3. quiet <= Lapse + Allowed
  BY <1>1, <1>2, GatewayAssumption DEF Clocked, Lapse
<1>4. Lapse \in Nat
  BY AllowedType
<1>5. idle' \in Nat /\ quiet' \in Nat /\ deferred' \in Nat
  BY <1>2
<1>6. quiet' - idle' <= Allowed' /\ idle' <= Timeout + deferred' /\ deferred' < Defer
  BY <1>1, <1>2, <1>3, <1>4, <1>5, GatewayAssumption DEF Clocked
<1> QED  BY <1>6 DEF Clocked

(* What a call that returns or goes on leaves of the others.                *)
LEMMA OthersKept ==
  ASSUME TypeOK, NEW c \in Contexts, NEW to,
         calls' = [calls EXCEPT ![c].pc = to]
  PROVE  /\ calls'[c].pc = to /\ calls'[c].cmd = calls[c].cmd
         /\ \A d \in Contexts \ {c} : calls'[d] = calls[d]
BY DEF TypeOK, CallsOK, Call0

(* A call that goes on to a point it extends nothing from.                  *)
LEMMA MovesOn ==
  ASSUME IndInv, Clocked, NEW c \in Contexts, NEW to,
         to \notin {"arm", "fresh", "rate", "signing", "work"},
         calls' = [calls EXCEPT ![c].pc = to], UNCHANGED clock, unlocked' => unlocked,
         calls[c].pc \notin {"arm", "fresh"}, graced => graced', fwctx' => fwctx,
         ~(Does(c, "work", "commit") /\ fwctx')
  PROVE  Clocked'
<1>1. /\ calls'[c].pc = to /\ calls'[c].cmd = calls[c].cmd
      /\ \A d \in Contexts \ {c} : calls'[d] = calls[d]
  BY OthersKept DEF IndInv
<1>2. Allowed <= Allowed'
  <2>1. ~Extends(c)'
    BY <1>1 DEF Extends, Does
  <2> QED  BY <1>1, <2>1, AllowanceKept
<1>3. Opening => Opening'
  BY <1>1 DEF Opening
<1> QED  BY <1>2, <1>3, CalmClocked

(* The only busy call returns, with a reset of the timer that was allowed   *)
(* for.                                                                    *)
LEMMA ExtensionClocked ==
  ASSUME IndInv, Clocked, unlocked, NEW c \in Contexts, Extends(c),
         calls' = [calls EXCEPT ![c].pc = "leaving"],
         idle' = 0, UNCHANGED <<deferred, quiet, graced>>,
         fwctx' => fwctx \/ Does(c, "work", "begin")
  PROVE  Clocked'
<1>1. /\ calls'[c].pc = "leaving" /\ calls'[c].cmd = calls[c].cmd
      /\ \A d \in Contexts \ {c} : calls'[d] = calls[d]
  BY OthersKept DEF IndInv
<1>2. Busy(c)
  BY DEF Extends, Does, Busy
<1>3. \A d \in Contexts \ {c} : ~Busy(d)
  BY <1>2, Alone
<1>4. Extending /\ ~Extending'
  BY <1>1, <1>3 DEF Extending, Extends, Does, Busy
<1>5. Renewable' => Renewable
  BY <1>1, <1>3 DEF Renewable, Extends, Does, Busy
<1>6. Allowed + Lapse <= Allowed'
  BY <1>4, <1>5, AllowedType, GatewayAssumption DEF Allowed, Lapse
<1> QED  BY <1>6, RenewedClocked

(* The steps of a call that reads no clock: refusals, checks, the gate, the *)
(* guard, and what ends without a press.                                   *)
LEMMA QuietClocked ==
  ASSUME IndInv, Clocked,
         \/ \E c \in Callers, cmd \in Commands : Call(c, cmd)
         \/ \E c \in Callers : \/ UnlockAsked(c) \/ GuardUp(c) \/ PinCheck(c) \/ DeadlineExpires(c)
                               \/ ForcedPreflight(c) \/ ForcedCharge(c)
                               \/ InitCodeDone(c) \/ CommitFails(c)
         \/ \E c \in Contexts : Leave(c) \/ ArmAttempt(c)
         \/ PendSV \/ IrqEnter \/ IrqReturn
  PROVE  Clocked'
<1> USE DEF Runs, Resting, At, Is, To, Return, Left, Own, core, session, Session, watched
<1>0. TypeOK /\ calls \in [Contexts -> Call0] /\ \A c \in Callers : c \in Contexts
  BY DEF IndInv, TypeOK, CallsOK, Callers, Contexts
<1>1. ASSUME NEW c \in Contexts, NEW x \in Call0, calls[c].pc \notin {"arm", "fresh", "work"},
             x.pc \notin {"arm", "fresh", "rate", "signing", "work"},
             calls' = [calls EXCEPT ![c] = x], UNCHANGED <<clock, unlocked, fwctx, graced>>
      PROVE  Clocked'
  <2>1. calls'[c] = x /\ \A d \in Contexts \ {c} : calls'[d] = calls[d]
    BY <1>0, <1>1
  <2>2. Allowed <= Allowed'
    <3>1. ~Extends(c)' /\ ~Does(c, "work", "commit")
      BY <1>1, <2>1 DEF Extends, Does
    <3> QED  BY <1>1, <2>1, <3>1, AllowanceKept
  <2>3. Opening => Opening'
    BY <1>1, <2>1 DEF Opening
  <2> QED  BY <1>1, <2>2, <2>3, CalmClocked
<1>2. ASSUME NEW c \in Callers, NEW cmd \in Commands, Call(c, cmd) PROVE Clocked'
  <2>1. [cmd |-> cmd, pc |-> "entered", same |-> FALSE] \in Call0
    BY DEF Call0, Points
  <2> QED  BY <1>0, <1>1, <1>2, <2>1 DEF Call
<1>3. ASSUME NEW c \in Contexts, Leave(c) PROVE Clocked'
  <2>1. NoCall \in Call0
    BY DEF NoCall, Call0, Points
  <2> QED  BY <1>1, <1>3, <2>1 DEF Leave, NoCall
<1>4. ASSUME PendSV PROVE Clocked'
  <2>1. [cmd |-> "reprompt", pc |-> "entered", same |-> FALSE] \in Call0 /\ "pendsv" \in Contexts
    BY DEF Call0, Points, Contexts
  <2> QED  BY <1>1, <1>4, <2>1 DEF PendSV
<1>5. ASSUME NEW c \in Callers, PinCheck(c) PROVE Clocked'
  <2>1. c \in Contexts
    BY <1>0
  <2>2. CASE unlocked
    <3> DEFINE x == [calls[c] EXCEPT !.pc = FirstStage(calls[c].cmd), !.same = TRUE]
    <3>1. FirstStage(calls[c].cmd) \in {"dialog", "preflight", "grace", "commit"}
      BY <1>5, <2>1 DEF PinCheck, FirstStage, IndInv, Shape, Guarded1, Callers, TypeOK, CallsOK, Call0, Commands, Prompts
    <3>2. x \in Call0 /\ x.pc = FirstStage(calls[c].cmd)
      BY <1>0, <2>1, <3>1 DEF Call0, Points, Working, Dialogs
    <3>3. calls' = [calls EXCEPT ![c] = x]
      BY <1>0, <1>5, <2>1, <2>2 DEF PinCheck
    <3> HIDE DEF x
    <3> QED  BY <1>1, <1>5, <2>1, <3>1, <3>2, <3>3 DEF PinCheck
  <2>3. CASE ~unlocked
    BY <1>0, <1>5, <2>1, <2>3, MovesOn DEF PinCheck, clock, Does
  <2> QED  BY <2>2, <2>3
<1>6. ASSUME NEW c \in Callers,
             UnlockAsked(c) \/ GuardUp(c) \/ DeadlineExpires(c) \/ ForcedPreflight(c) \/ ForcedCharge(c)
      PROVE  Clocked'
  <2>1. c \in Contexts /\ calls[c].pc \notin {"arm", "fresh", "work"}
    BY <1>0, <1>6 DEF UnlockAsked, GuardUp, DeadlineExpires, ForcedPreflight, ForcedCharge
  <2>2. \E to \in {"leaving", "prompt", "guarded", "charge", "warning"} :
          calls' = [calls EXCEPT ![c].pc = to]
    BY <1>6 DEF UnlockAsked, GuardUp, DeadlineExpires, ForcedPreflight, ForcedCharge
  <2>3. UNCHANGED <<clock, unlocked, fwctx, graced>>
    BY <1>6 DEF UnlockAsked, GuardUp, DeadlineExpires, ForcedPreflight, ForcedCharge
  <2> QED  BY <2>1, <2>2, <2>3, MovesOn DEF Does
<1>7. ASSUME NEW c \in Callers, InitCodeDone(c) \/ CommitFails(c) PROVE Clocked'
  <2>1. c \in Contexts /\ calls[c].pc = "work" /\ calls' = [calls EXCEPT ![c].pc = "leaving"]
    BY <1>0, <1>7 DEF InitCodeDone, CommitFails
  <2>2. UNCHANGED <<clock, unlocked, graced>>
    BY <1>7 DEF InitCodeDone, CommitFails
  <2>3. fwctx' => fwctx
    BY <1>7, Zenon DEF InitCodeDone, CommitFails
  <2>4. ~(Does(c, "work", "commit") /\ fwctx')
    BY <1>7 DEF InitCodeDone, CommitFails, Does
  <2> QED  BY <2>1, <2>2, <2>3, <2>4, MovesOn
<1>8. ASSUME NEW c \in Contexts, ArmAttempt(c) PROVE Clocked'
  <2>1. calls[c].pc = "arm" /\ calls' = [calls EXCEPT ![c].pc = "fresh"]
    BY <1>8 DEF ArmAttempt
  <2>2. /\ calls'[c].pc = "fresh" /\ calls'[c].cmd = calls[c].cmd
        /\ \A d \in Contexts \ {c} : calls'[d] = calls[d]
    BY <1>0, <2>1, OthersKept
  <2>3. Opening' /\ Extending /\ Extending' /\ (Renewable' => Renewable)
    BY <1>8, <2>1, <2>2 DEF Opening, Extending, Extends, Renewable, Does, ArmAttempt
  <2>4. Allowed <= Allowed'
    BY <1>8, <2>3, AllowedType, GatewayAssumption DEF Allowed, Lapse, ArmAttempt
  <2> QED  BY <1>8, <2>3, <2>4, CalmClocked DEF ArmAttempt
<1>9. CASE IrqEnter \/ IrqReturn
  <2>1. UNCHANGED <<calls, clock, unlocked, fwctx, graced>>
    BY <1>9 DEF IrqEnter, IrqReturn
  <2>2. Allowed' = Allowed /\ (Opening => Opening')
    BY <2>1 DEF Allowed, Extending, Extends, Renewable, Does, Opening
  <2> QED  BY <2>1, <2>2, AllowedNumber, CalmClocked
<1> QED  BY <1>2, <1>3, <1>4, <1>5, <1>6, <1>7, <1>8, <1>9

(* The steps that end a session, or are only taken without one.             *)
LEMMA EndingClocked ==
  ASSUME IndInv, Clocked,
         \/ SysReset
         \/ \E c \in Callers : LockRun(c) \/ UnlockPrompts(c) \/ DialogExpires(c)
         \/ \E c \in Contexts : PinExpires(c) \/ PinRejected(c) \/ PinPress(c)
  PROVE  Clocked'
<1> USE DEF At, Still, Active, Session, session, watched
<1>1. \A c \in Contexts : calls[c].pc \in {"prompt", "pin", "verify"} => ~unlocked
  BY DEF IndInv, SessionAt
<1>2. CASE SysReset
  <2>1. ~unlocked' /\ deferred' = 0
    BY <1>2 DEF SysReset, Wipe
  <2> QED  BY <2>1, GatewayAssumption DEF Clocked
<1>3. ASSUME NEW c \in Callers, LockRun(c) \/ UnlockPrompts(c) \/ DialogExpires(c) PROVE Clocked'
  <2>1. c \in Contexts
    BY DEF Callers, Contexts
  <2>2. deferred' = deferred
    BY <1>3 DEF LockRun, UnlockPrompts, DialogExpires
  <2>3. CASE LockRun(c) \/ DialogExpires(c)
    BY <2>2, <2>3, LockedClocked DEF LockRun, DialogExpires, WipeAndReturn, Wipe
  <2>4. CASE UnlockPrompts(c)
    BY <1>1, <2>1, <2>2, <2>4, LockedClocked DEF UnlockPrompts
  <2> QED  BY <1>3, <2>3, <2>4
<1>4. ASSUME NEW c \in Contexts, PinExpires(c) \/ PinRejected(c) \/ PinPress(c) PROVE Clocked'
  <2>1. deferred' = deferred /\ calls[c].pc \in {"pin", "verify"}
    BY <1>4 DEF PinExpires, PinRejected, PinPress, Pressed
  <2>2. ~unlocked'
    BY <1>1, <1>4, <2>1 DEF PinExpires, PinRejected, PinPress, WipeAndReturn, Wipe
  <2> QED  BY <2>1, <2>2, LockedClocked
<1> QED  BY <1>2, <1>3, <1>4

(* A PIN or a boot opens a session; a press of a button renews it.          *)
LEMMA RestartClocked ==
  ASSUME IndInv, Clocked,
         \/ \E c \in Callers : Press(c)
         \/ \E c \in Contexts : PinAccepted(c)
         \/ Boot
  PROVE  Clocked'
<1> USE DEF Active, Still, Pressed
<1>1. idle \in Nat
  BY ClocksType DEF IndInv
<1>2. CASE \E c \in Callers : Press(c)
  BY <1>2, StartClocked DEF Press
<1>3. ASSUME NEW c \in Contexts, PinAccepted(c) PROVE Clocked'
  <2>1. calls'[c].pc = "arm"
    BY <1>3, OthersKept DEF PinAccepted, To, IndInv
  <2> QED  BY <1>1, <1>3, <2>1, StartClocked DEF PinAccepted, Open, Opening
<1>4. CASE Boot
  <2>1. ~unlocked /\ deferred' = deferred /\ idle' = 0
    BY <1>4 DEF Boot, IndInv, Tokens
  <2>2. CASE quiet' = 0
    BY <2>1, <2>2, StartClocked
  <2>3. CASE quiet' # 0
    <3>1. ~unlocked'
      BY <1>4, <2>1, <2>3 DEF Boot, Open, session
    <3> QED  BY <2>1, <3>1, LockedClocked
  <2> QED  BY <2>2, <2>3
<1> QED  BY <1>2, <1>3, <1>4

(* The extensions without a press: an unlock that is done, a signature that *)
(* is released, a BEGIN that has its consent, and its COMMIT.              *)
LEMMA ExtendingClocked ==
  ASSUME IndInv, Clocked,
         \/ \E c \in Contexts : UnlockDone(c)
         \/ \E c \in Callers : Release(c) \/ BeginDone(c) \/ CommitStarts(c)
  PROVE  Clocked'
<1> USE DEF At, Is, To, Return, Left, Session, session, Active, Still
<1>0. /\ \A c \in Callers : c \in Contexts
      /\ \A c \in Callers : calls[c].pc \in Working => unlocked
  BY DEF IndInv, SessionAt, Callers, Contexts
<1>1. ASSUME NEW c \in Contexts, UnlockDone(c) PROVE Clocked'
  <2>1. Extends(c)
    BY <1>1 DEF UnlockDone, Extends
  <2>2. CASE unlocked
    BY <1>1, <2>1, <2>2, ExtensionClocked DEF UnlockDone
  <2>3. CASE ~unlocked
    BY <1>1, <2>3, LockedClocked DEF UnlockDone
  <2> QED  BY <2>2, <2>3
<1>2. ASSUME NEW c \in Callers, Release(c) PROVE Clocked'
  <2>1. Extends(c) /\ unlocked /\ c \in Contexts
    BY <1>0, <1>2 DEF Release, Extends, Working
  <2> QED  BY <1>2, <2>1, ExtensionClocked DEF Release
<1>3. ASSUME NEW c \in Callers, BeginDone(c) PROVE Clocked'
  <2>1. Extends(c) /\ Does(c, "work", "begin") /\ unlocked /\ c \in Contexts
    BY <1>0, <1>3 DEF BeginDone, Extends, Does, Working
  <2> QED  BY <1>3, <2>1, ExtensionClocked DEF BeginDone
<1>4. ASSUME NEW c \in Callers, CommitStarts(c), Finalizes PROVE Clocked'
  <2>1. c \in Contexts /\ calls[c].pc = "commit" /\ unlocked /\ calls[c].cmd = "commit"
    BY <1>0, <1>4 DEF CommitStarts, Working, IndInv, Shape, TypeOK, CallsOK, Call0, Commands, Guarded1, Prompts
  <2>2. /\ calls'[c].pc = "work" /\ calls'[c].cmd = "commit"
        /\ \A d \in Contexts \ {c} : calls'[d] = calls[d]
    BY <1>4, <2>1, OthersKept DEF CommitStarts, IndInv
  <2>3. \A d \in Contexts \ {c} : ~Busy(d)
    BY <2>1, Alone DEF Busy
  <2>4. Renewable
    BY <1>4, <2>1, <2>3 DEF Renewable, Finalizes, Does, Busy
  <2>5. ~Renewable' /\ ~Extending'
    BY <2>1, <2>2, <2>3 DEF Renewable, Extending, Extends, Does, Busy
  <2>6. Allowed + Lapse <= Allowed'
    BY <1>4, <2>4, <2>5, AllowedType, GatewayAssumption DEF Allowed, Lapse, CommitStarts
  <2> QED  BY <1>4, <2>1, <2>6, RenewedClocked DEF CommitStarts
<1>5. ASSUME NEW c \in Callers, CommitStarts(c), ~Finalizes PROVE Clocked'
  <2>1. c \in Contexts /\ calls[c].pc = "commit"
    BY <1>0, <1>5 DEF CommitStarts
  <2> QED  BY <1>5, <2>1, MovesOn DEF CommitStarts, clock, Does
<1> QED  BY <1>1, <1>2, <1>3, <1>4, <1>5

(* The signature is charged for, or not made.                              *)
LEMMA SigningClocked ==
  ASSUME IndInv, Clocked, NEW c \in Callers, PreSign(c) \/ Fail(c)
  PROVE  Clocked'
<1> USE DEF At, Is, To, Return, Left, Still, session
<1>0. TypeOK /\ c \in Contexts
  BY DEF IndInv, Callers, Contexts
<1>1. CASE WipeAndReturn(c)
  <2>1. ~unlocked' /\ deferred' = deferred
    BY <1>1 DEF PreSign, Fail, WipeAndReturn, Wipe
  <2> QED  BY <2>1, LockedClocked
<1>2. CASE ~WipeAndReturn(c) /\ Return(c)
  <2>1. /\ calls[c].pc \in {"rate", "signing", "work"} /\ ~Does(c, "work", "commit")
        /\ calls' = [calls EXCEPT ![c].pc = "leaving"]
    BY <1>2 DEF PreSign, Fail, Does
  <2>2. UNCHANGED clock /\ UNCHANGED <<unlocked, fwctx, graced>>
    BY <1>2, <2>1, <1>0, OthersKept DEF PreSign, Fail, clock
  <2> QED  BY <1>0, <2>1, <2>2, MovesOn
<1>3. CASE ~WipeAndReturn(c) /\ ~Return(c)
  <2>1. /\ calls[c].pc = "rate" /\ calls' = [calls EXCEPT ![c].pc = "signing"]
        /\ UNCHANGED <<unlocked, fwctx, graced, clock>>
    BY <1>3 DEF PreSign, Fail, clock
  <2>2. /\ calls'[c].pc = "signing" /\ calls'[c].cmd = calls[c].cmd
        /\ \A d \in Contexts \ {c} : calls'[d] = calls[d]
    BY <1>0, <2>1, OthersKept
  <2>3. Extending /\ Extending' /\ (Renewable' => Renewable) /\ (Opening => Opening')
    BY <1>0, <2>1, <2>2 DEF Opening, Extending, Extends, Renewable, Does
  <2>4. Allowed <= Allowed'
    BY <2>1, <2>3, AllowedType, GatewayAssumption DEF Allowed, Lapse
  <2> QED  BY <2>1, <2>3, <2>4, CalmClocked
<1> QED  BY <1>1, <1>2, <1>3

(* The one grace of a session turns the timer back, and is allowed for.     *)
LEMMA GraceClocked ==
  ASSUME IndInv, Clocked, NEW c \in Callers, GrantGrace(c)
  PROVE  Clocked'
<1> USE DEF At, To
<1>0. TypeOK /\ c \in Contexts
  BY DEF IndInv, Callers, Contexts
<1>1. /\ calls[c].pc = "grace" /\ calls' = [calls EXCEPT ![c].pc = "work"]
      /\ UNCHANGED <<unlocked, fwctx, deferred, quiet>>
  BY DEF GrantGrace
<1>2. /\ calls'[c].pc = "work" /\ calls'[c].cmd = calls[c].cmd /\ calls[c].cmd = "initCode"
      /\ \A d \in Contexts \ {c} : calls'[d] = calls[d]
  BY <1>0, <1>1, OthersKept DEF IndInv, Shape
<1>3. /\ Extending' <=> Extending
      /\ Renewable' <=> Renewable
      /\ Opening => Opening'
  BY <1>1, <1>2 DEF Opening, Extending, Extends, Renewable, Does
<1>4. CASE ~GraceDue
  <2>1. Allowed' = Allowed /\ UNCHANGED clock
    BY <1>1, <1>3, <1>4 DEF GrantGrace, Allowed, clock
  <2> QED  BY <1>1, <1>3, <2>1, AllowedNumber, CalmClocked
<1>5. CASE GraceDue
  <2>1. /\ ~graced /\ graced' /\ ~Expired
        /\ idle' = IF idle < Grace THEN 0 ELSE idle - Grace
    BY <1>5 DEF GraceDue, GrantGrace
  <2>2. idle \in Nat /\ quiet \in Nat /\ deferred \in Nat
    BY ClocksType DEF IndInv
  <2>3. PICK m \in Nat : Allowed = m
    BY AllowedNumber
  <2>4. Allowed' = m + Grace
    BY <1>3, <2>1, <2>3, AllowedType, GatewayAssumption DEF Allowed
  <2>5. idle' \in Nat /\ idle' <= idle /\ idle - idle' <= Grace
    BY <2>1, <2>2, GatewayAssumption
  <2>6. CASE unlocked
    <3>1. quiet - idle <= m
      BY <1>5, <2>1, <2>3, <2>6 DEF Clocked
    <3>2. idle <= Timeout /\ deferred < Defer
      BY <2>1, <2>2, GatewayAssumption DEF Expired, Clocked
    <3>3. idle' <= Timeout + deferred
      BY <2>2, <2>5, <3>2, GatewayAssumption
    <3>4. \A q, i, j \in Nat : q - i <= m /\ i - j <= Grace => q - j <= m + Grace
      BY GatewayAssumption
    <3>5. quiet' - idle' <= Allowed'
      <4>1. quiet - idle' <= m + Grace
        BY <2>2, <2>5, <3>1, <3>4, Zenon
      <4> QED  BY <1>1, <2>4, <4>1, Zenon
    <3> QED  BY <1>1, <3>2, <3>3, <3>5 DEF Clocked
  <2>7. CASE ~unlocked
    BY <1>1, <2>7, LockedClocked
  <2> QED  BY <2>6, <2>7
<1> QED  BY <1>4, <1>5

(* A tick ages the session, ends it, or puts the end off once more.         *)
LEMMA TickClocked ==
  ASSUME IndInv, Clocked, Tick
  PROVE  Clocked'
<1> DEFINE age == Least(idle + 1, IdleCap)
<1>0. idle \in Nat /\ quiet \in Nat /\ deferred \in Nat
  BY ClocksType DEF IndInv
<1>1. /\ age \in Nat /\ (age <= Timeout => age = idle + 1)
      /\ (idle + 1 <= IdleCap => age = idle + 1) /\ (idle > Timeout => age > Timeout)
  BY <1>0, CapsType, GatewayAssumption DEF Least, IdleCap
<1>2. \A n \in Nat : Least(n + 1, SessionBound + 1) \in Nat /\ Least(n + 1, SessionBound + 1) <= n + 1
  BY CapsType DEF Least
<1> DEFINE aged == idle' = age /\ quiet' = IF unlocked THEN Least(quiet + 1, SessionBound + 1) ELSE 0
<1>3. \/ ~(age > Timeout /\ unlocked) /\ aged /\ deferred' = 0 /\ UNCHANGED <<calls, session>>
      \/ Wipe /\ deferred' = 0
      \/ /\ age > Timeout /\ unlocked /\ ~DeferOver
         /\ aged /\ deferred' = deferred + 1 /\ UNCHANGED <<calls, session>>
  BY DEF Tick, SysReset
<1> HIDE DEF age
<1>4. deferred' \in Nat /\ deferred' < Defer
  <2>1. deferred' = 0 \/ (~DeferOver /\ deferred' = deferred + 1)
    BY <1>3
  <2> QED  BY <1>0, <2>1, GatewayAssumption DEF DeferOver, DeferLimit
<1>5. CASE ~unlocked'
  BY <1>4, <1>5 DEF Clocked
<1>6. CASE unlocked'
  <2>0. ~Wipe
    BY <1>6 DEF Wipe
  <2>1. /\ unlocked /\ idle' = age /\ quiet' = Least(quiet + 1, SessionBound + 1)
        /\ UNCHANGED <<calls, fwctx, graced>>
        /\ \/ age <= Timeout /\ deferred' = 0
           \/ age > Timeout /\ deferred' = deferred + 1
    <3>1. unlocked /\ aged /\ UNCHANGED <<calls, fwctx, graced>>
      BY <1>3, <1>6, <2>0 DEF session
    <3>2. (~(age > Timeout) /\ deferred' = 0) \/ (age > Timeout /\ deferred' = deferred + 1)
      <4> HIDE DEF aged
      <4> QED  BY <1>3, <2>0, <3>1, Zenon
    <3> QED  BY <1>1, <3>1, <3>2, GatewayAssumption
  <2>2. Allowed' = Allowed /\ (Opening => Opening')
    BY <2>1 DEF Allowed, Extending, Extends, Renewable, Does, Opening
  <2>3. PICK m \in Nat : Allowed = m
    BY <2>2, AllowedNumber
  <2>4. quiet' \in Nat /\ quiet' <= quiet + 1 /\ idle' \in Nat
    BY <1>0, <1>1, <1>2, <2>1
  <2>6. CASE idle <= Timeout + deferred /\ quiet - idle <= Allowed
    <3>1. idle' = idle + 1
      <4>1. idle + 1 <= IdleCap
        BY <1>0, <2>6, GatewayAssumption DEF Clocked, IdleCap
      <4> QED  BY <1>1, <2>1, <4>1
    <3>2. idle' <= Timeout + deferred'
      BY <1>0, <2>1, <2>6, <3>1, GatewayAssumption
    <3>3. quiet' - idle' <= m
      <4>1. quiet - idle <= m
        BY <2>3, <2>6
      <4>2. \A q, i, p \in Nat : q - i <= m /\ p <= q + 1 => p - (i + 1) <= m
        OBVIOUS
      <4> QED  BY <1>0, <2>4, <3>1, <4>1, <4>2
    <3>4. quiet' - idle' <= Allowed'
      BY <2>2, <2>3, <3>3, Zenon
    <3> QED  BY <1>4, <3>2, <3>4 DEF Clocked
  <2>7. CASE Opening /\ Expired /\ quiet <= deferred
    <3>1. age > Timeout
      BY <1>1, <2>7 DEF Expired
    <3>2. deferred' = deferred + 1 /\ idle' > Timeout
      BY <1>1, <2>1, <3>1, GatewayAssumption
    <3>3. quiet' <= deferred'
      BY <1>0, <2>4, <2>7, <3>2
    <3> QED  BY <1>4, <2>2, <2>7, <3>2, <3>3 DEF Clocked, Expired
  <2> QED  BY <2>1, <2>6, <2>7 DEF Clocked
<1> QED  BY <1>5, <1>6

(* Every step keeps account of the session's time.                         *)
LEMMA ClockedStep ==
  ASSUME IndInv, Clocked, [Next]_vars
  PROVE  Clocked'
<1>1. CASE UNCHANGED vars
  <2>1. UNCHANGED <<calls, fwctx, graced, unlocked, idle, deferred, quiet>>
    BY <1>1 DEF vars, session, clock
  <2>2. Allowed' = Allowed /\ (Opening => Opening')
    BY <2>1 DEF Allowed, Extending, Extends, Renewable, Does, Opening
  <2> QED  BY <2>1, <2>2, AllowedNumber, CalmClocked DEF clock
<1>2. ASSUME NEW c \in Callers, NEW cmd \in Commands, Call(c, cmd) PROVE Clocked'
  BY <1>2, QuietClocked
<1>3. ASSUME NEW c \in Callers, Step(c) PROVE Clocked'
  <2>1. CASE LockRun(c) \/ UnlockPrompts(c) \/ DialogExpires(c) \/ CommitDone(c)
    BY <2>1, EndingClocked DEF CommitDone
  <2>2. CASE PreSign(c) \/ Fail(c)
    BY <2>2, SigningClocked
  <2>3. CASE GrantGrace(c)
    BY <2>3, GraceClocked
  <2>4. CASE Release(c) \/ BeginDone(c) \/ CommitStarts(c)
    BY <2>4, ExtendingClocked
  <2>5. CASE \/ UnlockAsked(c) \/ GuardUp(c) \/ PinCheck(c) \/ DeadlineExpires(c)
             \/ ForcedPreflight(c) \/ ForcedCharge(c) \/ InitCodeDone(c) \/ CommitFails(c)
    BY <2>5, QuietClocked
  <2> QED  BY <1>3, <2>1, <2>2, <2>3, <2>4, <2>5 DEF Step
<1>4. ASSUME NEW c \in Contexts, AskPin(c) PROVE Clocked'
  <2>1. CASE PinExpires(c) \/ PinRejected(c)
    BY <2>1, EndingClocked
  <2>2. CASE PinAccepted(c)
    BY <2>2, RestartClocked
  <2>3. CASE UnlockDone(c)
    BY <2>3, ExtendingClocked
  <2>4. CASE ArmAttempt(c) \/ Leave(c)
    BY <2>4, QuietClocked
  <2> QED  BY <1>4, <2>1, <2>2, <2>3, <2>4 DEF AskPin
<1>5. CASE PendSVAsks
  <2>1. CASE ~unlocked
    BY <1>5, <2>1, LockedClocked DEF PendSVAsks, Active, Still, session
  <2>2. CASE unlocked
    BY <1>5, <2>2, MovesOn DEF PendSVAsks, StillLocked, At, To, Still, session, clock, Does, Contexts
  <2> QED  BY <2>1, <2>2
<1>6. CASE \/ \E c \in Callers : Press(c)
           \/ Boot
  BY <1>6, RestartClocked
<1>7. CASE \E c \in Contexts : PinPress(c)
  BY <1>7, EndingClocked
<1>8. CASE PendSV \/ IrqEnter \/ IrqReturn
  BY <1>8, QuietClocked
<1> QED  BY <1>1, <1>2, <1>3, <1>4, <1>5, <1>6, <1>7, <1>8, TickClocked DEF Next

(* A session that nobody confirms anything in ends: an update's two steps   *)
(* and a grace extend it, each once, and no interleaving of calls, ticks    *)
(* and exceptions extends it further.                                      *)
THEOREM SessionsEnd == Spec => []SessionEnds
<1>1. Init => Clocked
  BY GatewayAssumption DEF Init, Clocked
<1>2. IndInv /\ Clocked /\ [Next]_vars => Clocked'
  BY ClockedStep
<1>3. IndInv /\ Clocked => SessionEnds
  <2> SUFFICES ASSUME IndInv, Clocked, unlocked PROVE quiet <= SessionBound
    BY DEF SessionEnds
  <2>1. idle \in Nat /\ quiet \in Nat /\ deferred \in Nat /\ deferred < Defer
    BY ClocksType DEF IndInv, Clocked
  <2>2. Lapse \in Nat /\ SessionBound = 3 * Lapse + Grace
    BY AllowedType DEF Lapse, SessionBound
  <2>3. CASE idle <= Timeout + deferred /\ quiet - idle <= Allowed
    <3>1. idle <= Lapse
      BY <2>1, <2>3, GatewayAssumption DEF Lapse
    <3> QED  BY <2>1, <2>2, <2>3, <3>1, AllowedType, GatewayAssumption
  <2>4. CASE quiet <= deferred
    <3>1. quiet <= Lapse
      BY <2>1, <2>4, GatewayAssumption DEF Lapse
    <3> QED  BY <2>1, <2>2, <3>1, GatewayAssumption
  <2> QED  BY <2>3, <2>4 DEF Clocked
<1> QED  BY <1>1, <1>2, <1>3, Invariant, PTL DEF Spec
=============================================================================
