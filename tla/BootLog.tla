------------------------------ MODULE BootLog ------------------------------
(***************************************************************************)
(* The pure half of the dev-unit A/B layout (fw-manifest/src/devunit.rs):   *)
(* the append-only boot log on page 6, what it says of a release, and which *)
(* slot the first-stage boot loader picks.  A log is a function from        *)
(* quad-word indices to records; a torn quad-word is neither erased nor a   *)
(* record ("None for an erased quad-word, a torn program, ...").            *)
(***************************************************************************)
EXTENDS Naturals, FiniteSets

CONSTANTS
  Versions,    \* firmware versions that exist as signed releases
  LogCapacity  \* quad-words of the log page (512 in the code)

ASSUME VersionsAssumption == Versions \subseteq Nat
ASSUME LogAssumption == LogCapacity \in Nat \ {0}

MaxUnconfirmedBoots == 3

Slots == {"A", "B"}
Other(s) == IF s = "B" THEN "A" ELSE "B"

LogIndex == 1..LogCapacity
Record(kind, s, v) == [kind |-> kind, slot |-> s, version |-> v]
Records == [kind : {"attempt", "confirm"}, slot : Slots, version : Versions]
LogErased == [kind |-> "erased"]
LogTorn == [kind |-> "torn"]
Cells == Records \cup {LogErased, LogTorn}
BlankLog == [i \in LogIndex |-> LogErased]

(* The free space is the suffix after the last quad-word that is not        *)
(* erased; no index is free when that is the last of the page.              *)
NextFree(log, i) ==
  /\ i \in LogIndex
  /\ \A j \in i..LogCapacity : log[j] = LogErased
  /\ i > 1 => log[i - 1] # LogErased

Full(log) == log[LogCapacity] # LogErased

AttemptsAndTorn(log, s, v) ==                              \* mutant: counts torn words
  Cardinality({i \in LogIndex : log[i] \in {Record("attempt", s, v), LogTorn}})
Attempts(log, s, v) == Cardinality({i \in LogIndex : log[i] = Record("attempt", s, v)})
Confirmed(log, s, v) == \E i \in LogIndex : log[i] = Record("confirm", s, v)

(* A slot that passed every check of the boot loader, as `choose` sees it.  *)
SettledAtFactory(log, s, m) == m.try = "committed"         \* mutant: ignores the log
Settled(log, s, m) == m.try = "committed" \/ Confirmed(log, s, m.version)

BootableOnceMore(log, s, m) ==                             \* mutant: off by one
  \/ Settled(log, s, m)
  \/ m.try = "tried" /\ Attempts(log, s, m.version) <= MaxUnconfirmedBoots
BootableAsNewer(log, s, m) ==
  \/ Settled(log, s, m)
  \/ m.try = "tried" /\ Attempts(log, s, m.version) < MaxUnconfirmedBoots

(* `choose`: the higher version of two candidates unless it is unconfirmed  *)
(* and out of attempts; a sole candidate whatever its state.  `man` maps    *)
(* each slot to its manifest, `cand` is the set of candidate slots.         *)
Newer(man, s) == man[s].version > man[Other(s)].version

Choose(log, man, cand, s) ==
  /\ s \in cand
  /\ Other(s) \in cand =>
       IF man[s].version = man[Other(s)].version
       THEN LET b == Settled(log, "B", man["B"]) /\ ~Settled(log, "A", man["A"])
            IN  b <=> s = "B"
       ELSE IF Newer(man, s) THEN BootableAsNewer(log, s, man[s])
                             ELSE ~BootableAsNewer(log, Other(s), man[Other(s)])
=============================================================================
