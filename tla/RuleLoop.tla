------------------------------ MODULE RuleLoop ------------------------------
(***************************************************************************)
(* The rules of one kind on an azure server, and what a loop that makes    *)
(* them those that are wanted does to them.  A set of rules is a function  *)
(* from their names to what they say.                                      *)
(***************************************************************************)
EXTENDS Naturals, Sequences

RuleRecords(names, ranges) == [name : names, range : ranges]
RuleTables(names, ranges)  == UNION {[N -> ranges] : N \in SUBSET names}

NoRules == [n \in {} |-> 0]

Without(f, n) == [m \in DOMAIN f \ {n} |-> f[m]]
With(f, r)    == [m \in DOMAIN f \cup {r.name} |-> IF m = r.name THEN r.range ELSE f[m]]

\* Of several rules with one name the last one counts.
Wanted(all) ==
    LET last(n) == CHOOSE i \in DOMAIN all :
                       all[i].name = n /\ \A j \in DOMAIN all : all[j].name = n => j <= i
    IN  [n \in {all[i].name : i \in DOMAIN all} |-> all[last(n)].range]
=============================================================================
