------------------------- MODULE CredentialContract -------------------------
(***************************************************************************)
(* What a resource of the operator promises about its credentials: the     *)
(* password in the published secret is the password in force, and while it *)
(* is published it does not change.  To rotate it the secret is withdrawn, *)
(* the password changed, and the secret published again.                   *)
(*                                                                         *)
(* `live' is the password in force at every place the resource may run (a  *)
(* server in a backend, a role in a database), `published' the one in the  *)
(* credentials secret; 0 is none.                                          *)
(***************************************************************************)
EXTENDS Naturals

CONSTANT Places

VARIABLES live, published

Init == live = [p \in Places |-> 0] /\ published = 0

\* The secret goes: a reset, a deletion, or a user.
Withdraw == published' = 0 /\ UNCHANGED live

\* The resource is created or updated. A published password is applied again,
\* a new one only while none is published.
Apply(p) ==
    /\ live'[p] \in Nat
    /\ live' = [live EXCEPT ![p] = live'[p]]
    /\ published \in {0, live'[p]}
    /\ UNCHANGED published

Publish(p) ==
    /\ live[p] # 0
    /\ \A q \in Places : live[q] \in {0, live[p]}
    /\ published' = live[p]
    /\ UNCHANGED live

Remove(p) ==
    /\ live' = [live EXCEPT ![p] = 0]
    /\ UNCHANGED published

Next == Withdraw \/ \E p \in Places : Apply(p) \/ Publish(p) \/ Remove(p)

Spec == Init /\ [][Next]_<<live, published>>

\* The point of the protocol.
Consistent == \A p \in Places : published # 0 => live[p] \in {0, published}
=============================================================================
