--------------------------- MODULE MCAzureSingle ---------------------------
(***************************************************************************)
(* An instance of AzureSingle for TLC.                                     *)
(***************************************************************************)
EXTENDS AzureSingle

Rule(n, r) == [name |-> n, range |-> r]

BothKinds  == {"vnet", "firewall"}
AzureRule  == <<Rule("azure", 0)>>

\* The last one has a rule of its own, as documented: 2 is not Readable.
Small   == [size |-> 1, rules |-> <<>>, extensions |-> {"pg_cron"}]
Large   == [size |-> 2, rules |-> <<>>, extensions |-> {}]
Opened  == [size |-> 1, rules |-> <<Rule("azure", 2)>>, extensions |-> {"timescaledb"}]
AllSpecs == {Small, Large, Opened}

\* Two vnets and a firewall rule, and fake deletions.
Shared == [public |-> TRUE, locks |-> FALSE, fake |-> TRUE, endpoint |-> FALSE, cleanup |-> FALSE,
           vnets |-> <<Rule("office", 1), Rule("azure", 1)>>, rules |-> <<Rule("office", 1)>>]

\* Another subnet under the name of a vnet, one firewall rule twice, a lock, and the
\* endpoint as documented.
Moved == [public |-> TRUE, locks |-> TRUE, fake |-> FALSE, endpoint |-> TRUE, cleanup |-> FALSE,
          vnets |-> <<Rule("office", 2)>>, rules |-> <<Rule("office", 1), Rule("office", 0)>>]

\* Not public, with an endpoint that is deleted too; the firewall rule as documented.
Closed == [public |-> FALSE, locks |-> FALSE, fake |-> FALSE, endpoint |-> TRUE, cleanup |-> TRUE,
           vnets |-> <<>>, rules |-> <<Rule("office", 2)>>]

\* The same, but public.
Documented == [Closed EXCEPT !.public = TRUE, !.cleanup = FALSE]

AllOptions == {Shared, Moved, Closed, Documented}

\* Failures and changes of the options among an edit, a reset, a deletion and a
\* re-creation.
BudgetUpdate == [create |-> 2, edit |-> 1, reset |-> 1, delete |-> 1, abort |-> 1,
                 timeout |-> 0, fault |-> 1, upgrade |-> 0]
=============================================================================
