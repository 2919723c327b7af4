------------------------------ MODULE MCWorkers ------------------------------
(* Instances of Workers for TLC. *)
EXTENDS Workers, TLC

CONSTANTS h1, h2, h3, emails, images, send, bounce

\* Three jobs of one worker over four ticks; two jobs whose queue counts are
\* pushed and cleared; one worker with a job, paused, resumed and closed; a
\* second object beside it; three objects created and closed around the shutdown.
MCBudgets == {
  [handles |-> 1, jobs |-> 3, ticks |-> 4, calls |-> {}],
  [handles |-> 1, jobs |-> 2, ticks |-> 1, calls |-> {"metrics"}],
  [handles |-> 1, jobs |-> 1, ticks |-> 0, calls |-> {"pause", "close"}],
  [handles |-> 2, jobs |-> 1, ticks |-> 0, calls |-> {"close"}],
  [handles |-> 3, jobs |-> 0, ticks |-> 0, calls |-> {"close"}]}

Symmetry == Permutations(Handles) \cup Permutations(Names) \cup Permutations(JobNames)
===============================================================================
