----------------------------- MODULE MCMigrations -----------------------------
(* The instance of Migrations that TLC checks: three files as they are in   *)
(* migrations/, without indexes and most of the views.                      *)
EXTENDS Migrations, TLC

CONSTANTS r1, r2, schema_migrations, transactions, daily_volume, total_stats_mv

MCCreates == (0 :> <<schema_migrations>>) @@ (1 :> <<transactions, daily_volume>>)
             @@ (2 :> <<total_stats_mv>>)

MCNeeds == (schema_migrations :> {}) @@ (transactions :> {})
           @@ (daily_volume :> {transactions}) @@ (total_stats_mv :> {daily_volume})

\* Alphabetical.
MCNameOrder == (daily_volume :> 1) @@ (schema_migrations :> 2)
               @@ (total_stats_mv :> 3) @@ (transactions :> 4)
=============================================================================
