-------------------------------- MODULE MCKmt --------------------------------
(* Model checking of Kmt: CPUs and addresses of tasks are interchangeable.   *)
EXTENDS Kmt, TLC

Symmetric == Permutations(Cpu) \cup Permutations(Task)

\* No step depends on the history variable, nor does a safety property.
View == <<taskVars, queueVars, recordVars, cpuVars, flowVars, owner, count, halted>>

\* A behaviour that leaves the constraint satisfies ReadyRuns and QuitFreed.
Calm == calm
==============================================================================
