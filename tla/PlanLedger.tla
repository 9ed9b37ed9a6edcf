------------------------------ MODULE PlanLedger ------------------------------
(***************************************************************************)
(* What the execution plan file promises about a chunked build: it is a    *)
(* ledger of attempts.  However a run is scheduled, threaded, reused from  *)
(* or cut short, what an observer of the file sees is one transaction per  *)
(* run, in which every chunk is left alone or moves by one outcome from    *)
(* what the file said before.  The file can be lost, never half applied.   *)
(***************************************************************************)
EXTENDS Naturals

CONSTANTS Chunk, PathSet, MaxAttempts, NoLedger

VARIABLE ledger

Entry ==
  [completion : {"not_started", "completed", "failed"}, attempt : Nat, retry : Nat,
   paths : PathSet]

\* A chunk nobody has worked on.
Fresh(ps) == [completion |-> "not_started", attempt |-> 0, retry |-> 0, paths |-> ps]

\* The entry a run over input paths ps starts a chunk from.
Before(c, ps) ==
  IF ledger = NoLedger THEN Fresh(ps)
  ELSE IF ledger[c].paths # ps THEN Fresh(ps) ELSE ledger[c]

\* The outcomes of one run for a chunk whose entry was e.
Withdrawn(e) == [e EXCEPT !.completion = "not_started"]
Succeeded(e) ==
  [completion |-> "completed", attempt |-> e.attempt + 1, retry |-> e.retry,
   paths |-> e.paths]
Failed(e) ==
  [completion |-> "failed", attempt |-> e.attempt + 1, retry |-> e.retry + 1,
   paths |-> e.paths]
Exhausted(e) ==
  [completion |-> "failed", attempt |-> IF e.attempt = 0 THEN 1 ELSE e.attempt,
   retry |-> e.retry, paths |-> e.paths]

Outcomes(e) ==
  {e, Withdrawn(e)}
    \cup (IF e.retry < MaxAttempts THEN {Succeeded(e), Failed(e)} ELSE {Exhausted(e)})

Init == ledger = NoLedger

\* A run over input paths ps commits its outcomes.
Commit(ps) ==
  /\ ledger' \in [Chunk -> Entry]
  /\ \A c \in Chunk : ledger'[c] \in Outcomes(Before(c, ps))

\* Another orchestrator claims a chunk and reopens it.
Reopen(c) ==
  /\ ledger # NoLedger
  /\ ledger' = [ledger EXCEPT ![c] = Withdrawn(@)]

\* A write is torn and the file no longer parses.
Lose == ledger' = NoLedger

Next == (\E ps \in PathSet : Commit(ps)) \/ (\E c \in Chunk : Reopen(c)) \/ Lose

Spec == Init /\ [][Next]_ledger
===============================================================================
