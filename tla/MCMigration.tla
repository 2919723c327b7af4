----------------------------- MODULE MCMigration -----------------------------
(* Instances of Migration for TLC. *)
EXTENDS Migration, TLC

CONSTANTS r1, r2, r3, s, t, u, a, b, c, d, e, f

Rejections(commands) == commands \X {"rejected"}
Losses(commands)     == commands \X {"lost"}

\* Every command may be rejected, and every one but the add and the remove of a job may
\* have been applied all the same.
MCFaults         == Rejections(Commands) \cup Losses(Commands \ {"add", "remove"})
MCJobFaults      == Rejections({"remove", "rollback"})
MCRollbackFaults == Rejections({"add", "remove", "rollback"}) \cup Losses({"add", "rollback"})
MCLostRemove     == Losses({"remove"})

MCSource == [r \in Runs |-> s]
MCTarget == [r \in Runs |-> t]

\* Two runs that have only their target in common.
MCSharedSource == (r1 :> s) @@ (r2 :> u)

\* Two runs with the same source, and a third that empties the target of the first.
MCExpirySource == (r1 :> s) @@ (r2 :> s) @@ (r3 :> t)
MCExpiryTarget == (r1 :> t) @@ (r2 :> u) @@ (r3 :> u)

\* The jobs of queue s: a waiting, b delayed, c and d failed, and f, which an application
\* adds later.  Queue t, or u, has a failed job of its own to begin with, under c's id.
MCHome       == [j \in Jobs |-> IF j = e THEN t ELSE s]
MCSharedHome == [j \in Jobs |-> IF j = e THEN u ELSE s]
MCId         == [j \in Jobs |-> IF j = e THEN c ELSE j]
MCFirst      ==
  [j \in Jobs |-> CASE j = b -> "delayed" [] j \in {c, d, e} -> "failed" [] j = f -> "absent"
                    [] OTHER -> "waiting"]

MCMixedStates == <<"waiting", "delayed", "failed">>
MCWaiting     == <<"waiting">>
==============================================================================
