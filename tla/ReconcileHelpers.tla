-------------------------- MODULE ReconcileHelpers --------------------------
(***************************************************************************)
(* util/reconcile_helpers.py: the helpers both handlers share.             *)
(***************************************************************************)
EXTENDS SequencesExt

ResetPassword == "reset-password"

IsControlLabelRemoval(d) == d.op = "remove" /\ d.field = "label"

\* The loop overwrites its result at every item of the diff, so the last item decides.
ignore_control_label_change(diff) == diff # <<>> /\ IsControlLabelRemoval(Last(diff))

\* kopf computes a diff over sets of keys: its items come in any order.
Ignores(items, ignore) ==
    \E diff \in SetToSeqs(items) : ignore_control_label_change(diff) = ignore

\* determine_resource_password: a stored password wins over one kept in the
\* temporary secret; 0 stands for no password, and asks for a new one.
StoredPassword(credentials, tmp_secret) ==
    IF credentials # 0 THEN credentials ELSE tmp_secret
=============================================================================
