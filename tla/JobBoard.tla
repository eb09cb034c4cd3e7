------------------------------ MODULE JobBoard ------------------------------
(***************************************************************************)
(* What the sync_jobs table promises the rest of the system, job by job    *)
(* and without shops, locks, statements or clocks: a posted job is open    *)
(* until one worker takes it; the worker gives it back open, done or       *)
(* lost; one taking counts at most one attempt; a job that is done or lost *)
(* never comes back. SyncQueue implements this specification.              *)
(***************************************************************************)
EXTENDS Naturals

CONSTANTS Jobs, Workers, MaxAttempts

VARIABLES state,   \* absent, open, taken, done or lost
          holders, \* the workers that have the job in hand
          tries    \* attempts counted so far

vars == <<state, holders, tries>>

TypeOK ==
  /\ state   \in [Jobs -> {"absent", "open", "taken", "done", "lost"}]
  /\ holders \in [Jobs -> SUBSET Workers]
  /\ tries   \in [Jobs -> 0..MaxAttempts]

Init ==
  /\ state = [j \in Jobs |-> "absent"]
  /\ holders = [j \in Jobs |-> {}]
  /\ tries = [j \in Jobs |-> 0]

Post(j) ==
  /\ state[j] = "absent" /\ state'[j] = "open"
  /\ holders'[j] = holders[j]
  /\ tries'[j] = tries[j]

\* Exactly one worker takes an open job that has attempts left.
Take(j) ==
  /\ state[j] = "open" /\ state'[j] = "taken"
  /\ holders[j] = {} /\ \E w \in Workers : holders'[j] = {w}
  /\ tries[j] < MaxAttempts /\ tries'[j] = tries[j]

\* It lets go of the job: to be tried again, finished, or lost by a failure.
LetGo(j) ==
  /\ state[j] = "taken" /\ state'[j] \in {"open", "done", "lost"}
  /\ holders'[j] = {}
  /\ tries'[j] \in {tries[j], tries[j] + 1}
  /\ state'[j] = "open" => tries'[j] < MaxAttempts
  /\ state'[j] = "lost" => tries'[j] = tries[j]

Same(j) ==
  /\ state'[j] = state[j]
  /\ holders'[j] = holders[j]
  /\ tries'[j] = tries[j]

\* A crash can make several workers let go at once.
Next == \A j \in Jobs : Post(j) \/ Take(j) \/ LetGo(j) \/ Same(j)

Spec == Init /\ [][Next]_vars

==============================================================================
