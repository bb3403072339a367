--------------------------- MODULE CustomResource ---------------------------
(***************************************************************************)
(* What the custom resource integration (customresource.go) does to one    *)
(* resource.  Its fields live in doc, which LightsOut changes with an      *)
(* Update that fails on a stale copy; saved is the original-fields         *)
(* annotation, since the age of the warming-up-since annotation.           *)
(***************************************************************************)
EXTENDS JsonPointer, Scaler

NoState == "none"
IsDown == "down"
WarmingUp == "warming-up"
States == {NoState, IsDown, WarmingUp}

\* The warming-up-since annotation: missing, or whether the timeout has passed.
Never == "never"
Recent == "recent"
Old == "old"
Ages == {Never, Recent, Old}

NoFields == [p \in {} |-> 0]

-----------------------------------------------------------------------------

\* Mutant: an earlier downscale is not remembered.
TurnsDownAgain(r, s) == ~Foreign(r, s)

\* TurnCustomResourceDown leaves alone what another schedule manages, and what
\* this one has turned down already.
TurnsDown(r, s) == ~Foreign(r, s) /\ ~(r.state = IsDown /\ r.by = s)

\* One entry of setFields: each path it matches is captured, then overwritten.
\* The paths one entry matches do not overlap, so their order is irrelevant.
SetField(acc, field) ==
    LET paths == Expand(acc.doc, field.path)
    IN  [doc |-> FoldSet(LAMBDA p, d : SetValue(d, p, field.value), acc.doc, paths),
         saved |-> [p \in paths |-> GetValue(acc.doc, p)] @@ acc.saved]

\* All of setFields, each on what the ones before it made of the document.
Capture(doc, fields) == FoldLeft(SetField, [doc |-> doc, saved |-> NoFields], fields)

\* A resource on which no field matched is left alone.
TurnDown(cur, fields, s) ==
    LET off == Capture(cur.doc, fields)
    IN  IF off.saved = NoFields THEN cur
        ELSE [cur EXCEPT !.doc = off.doc, !.saved = off.saved, !.since = Never,
                         !.state = IsDown, !.by = s]

-----------------------------------------------------------------------------

\* RestoreCustomResourceFields acts on what this schedule turned down.
Restores(r, s) == r.by = s /\ r.state = IsDown

\* One captured field: put back, or removed again if it was not there.
PutBack(acc, p, saved) ==
    IF saved[p].present
    THEN [doc |-> SetValue(acc.doc, p, saved[p].value),
          ok |-> acc.ok /\ Settable(acc.doc, p)]
    ELSE [doc |-> DeleteValue(acc.doc, p), ok |-> acc.ok /\ Deletable(acc.doc, p)]

\* The captured fields are put back in the order a Go map yields them, which is
\* any; the first that cannot be put back ends the attempt (ok is FALSE).
Originals(doc, saved) ==
    {FoldLeft(LAMBDA acc, p : PutBack(acc, p, saved), [doc |-> doc, ok |-> TRUE], order)
       : order \in SetToSeqs(DOMAIN saved)}

\* clearCustomResourceState, a merge patch.
Clear(cur) == [cur EXCEPT !.saved = NoFields, !.since = Never,
                          !.state = NoState, !.by = NoOne]

\* What restoring can make of a resource.  Without an annotation there is nothing
\* to put back and the labels go; a failed attempt changes nothing.
Restored(cur) ==
    IF cur.saved = NoFields THEN {Clear(cur)}
    ELSE {IF o.ok THEN [cur EXCEPT !.doc = o.doc, !.saved = NoFields,
                                   !.since = Recent, !.state = WarmingUp]
                  ELSE cur : o \in Originals(cur.doc, cur.saved)}

-----------------------------------------------------------------------------

\* Mutant: a condition is believed whichever generation it was written for.
VerdictAnyGeneration(convention, seen, status) ==
    IF convention = "silent" THEN TRUE ELSE status

\* The operator's verdict on a restored resource, TRUE also when it gives none.
\* seen: status.observedGeneration has caught up with the restored spec; status:
\* what its Ready condition, or the field readyWhen names, says.
Verdict(convention, seen, status) ==
    CASE convention = "readyWhen" -> status
      [] convention = "conditions" -> seen /\ status
      [] OTHER -> TRUE

\* The two documents hold the same fields.  Objects that SetValue made along a
\* path stay behind when the field is removed again.
SameFields(d, e) ==
    LET fields(x) == {p \in DOMAIN x : x[p] # Object}
    IN  fields(d) = fields(e) /\ \A p \in fields(d) : d[p] = e[p]
=============================================================================
