-------------------------------- MODULE Kopf --------------------------------
(***************************************************************************)
(* The part of the kopf framework that decides which handler runs.  kopf   *)
(* is a library, so this module is written from how handlers/*.py use it:  *)
(* the decorators on.create, on.update, on.resume and on.delete, the       *)
(* arguments body, spec, labels and diff, and the exceptions               *)
(* kopf.PermanentError and kopf.TemporaryError.                            *)
(*                                                                         *)
(* kopf remembers, in an annotation of the custom object, the essence      *)
(* (spec and metadata, without the status) that was last handled with      *)
(* success, and compares it with the essence it sees now.  The field       *)
(* `handled' is that annotation: {} before the first success, a singleton  *)
(* afterwards.  `unfinished' says that an attempt has begun and has not    *)
(* ended with success or with a PermanentError, `resume' that the object   *)
(* has not been visited since the operator started.                        *)
(***************************************************************************)

CONSTANTS
    RetryUnchanged, \* TRUE: a failed attempt is retried whatever the object
                    \* looks like now (README.md:355).  FALSE: kopf drops it
                    \* when the essence is again the one last handled.
    HandlerOnResume \* the option handler_on_resume of the operator

ASSUME KopfAssumption == RetryUnchanged \in BOOLEAN /\ HandlerOnResume \in BOOLEAN

NoLabel == "none"

\* What kopf compares: the spec and the one label the operator looks at.
Essence(o) == [spec |-> o.spec, label |-> o.label]

\* The items of the diff argument: what changed since the last success, or the
\* whole object when there was none.
Diff(o) ==
    IF o.handled = {} THEN {[op |-> "add", field |-> "object"]}
    ELSE LET old == CHOOSE e \in o.handled : TRUE
             op  == CASE o.label = NoLabel   -> "remove"
                      [] old.label = NoLabel -> "add"
                      [] OTHER               -> "change"
         IN  (IF old.spec # o.spec THEN {[op |-> "change", field |-> "spec"]} ELSE {})
             \cup (IF old.label # o.label THEN {[op |-> op, field |-> "label"]} ELSE {})

\* A create, update or resume handler is due.
NeedsHandling(o) ==
    /\ o.exists
    /\ ~o.deleting
    /\ \/ o.handled # {Essence(o)}
       \/ o.resume /\ HandlerOnResume
       \/ o.unfinished /\ RetryUnchanged

\* The handler returned, or raised a PermanentError: kopf stores the essence
\* of the body the attempt was started with.
Handled(o, essence) ==
    [o EXCEPT !.handled = {essence}, !.unfinished = FALSE, !.resume = FALSE]

\* The operator starts: every object is visited once more.
Resumed(o) == [o EXCEPT !.resume = o.exists]
=============================================================================
