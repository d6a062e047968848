-------------------------- MODULE MCAzureFlexible --------------------------
(***************************************************************************)
(* An instance of AzureFlexible for TLC.                                   *)
(***************************************************************************)
EXTENDS AzureFlexible, TLC

Rule(n, r) == [name |-> n, range |-> r]

AllRules    == {"office", "team", "azure"}
AllExts     == {"pg_cron", "pg_stat_statements", "timescaledb", "postgis"}
AlwaysExts  == {"pg_cron", "pg_stat_statements"}
PreloadExts == {"pg_cron", "pg_stat_statements", "timescaledb"}
OfficeRule  == <<Rule("office", 1)>>
AzureRule   == <<Rule("azure", 0)>>
NoRule      == <<>>

FlexibleSpec(size, rs, exts, ps) == [size |-> size, rules |-> rs, extensions |-> exts,
                                     parameters |-> ps]

Plain  == FlexibleSpec(1, <<>>, {}, <<>>)
\* A rule of the config is redefined, a preload extension and a parameter are added.
Rich   == FlexibleSpec(2, <<Rule("office", 2), Rule("team", 1)>>, {"timescaledb"},
                       "work_mem" :> 1)
\* One name twice, an extension that is not preloaded, other parameters.
Other  == FlexibleSpec(2, <<Rule("team", 1), Rule("team", 2)>>, {"postgis"},
                       "work_mem" :> 2 @@ "wal_level" :> 1)
Specs3 == {Plain, Rich, Other}

Only(b) == [k \in Kinds |-> IF k \in DOMAIN b THEN b[k] ELSE 0]

\* Fake deletion, deletion against the lock, and a server without public access.
Config(public, locks, fake) == [public |-> public, locks |-> locks, fake |-> fake]
AllOptions == {Config(TRUE, FALSE, TRUE), Config(TRUE, TRUE, FALSE), Config(FALSE, FALSE, FALSE)}

\* Edits and a reset among failures, a deletion and a re-creation.
BudgetUpdate == Only([create |-> 2, edit |-> 1, reset |-> 1, delete |-> 1, abort |-> 1,
                      fault |-> 1])
=============================================================================
