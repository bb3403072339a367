----------------------------- MODULE JsonPointer -----------------------------
(***************************************************************************)
(* The JSON Pointer operations of internal/jsonpointer, on the documents   *)
(* of custom resources.                                                    *)
(*                                                                         *)
(* A document is a function from the paths it holds to what is there: an   *)
(* Object, an Array, a Null or another scalar.  A path is a sequence of    *)
(* tokens, an array index being a token like any other, and with a path a  *)
(* document holds every prefix of it.  A value is a document of its own,   *)
(* whose root is the empty path.                                           *)
(***************************************************************************)
EXTENDS Sequences, SequencesExt

Wild == "*"
Object == "object"
Array == "array"
Null == "null"

Scalar(x) == [p \in {<<>>} |-> x]

\* Without the paths at p and below it.
Without(doc, p) == [q \in {q \in DOMAIN doc : ~IsPrefix(p, q)} |-> doc[q]]

\* What is at a path, and whether anything is: absence is not a Null.
GetValue(doc, p) ==
    IF p \in DOMAIN doc
    THEN LET below == {q \in DOMAIN doc : IsPrefix(p, q)}
         IN  [present |-> TRUE,
              value |-> [q \in {SubSeq(r, Len(p) + 1, Len(r)) : r \in below} |-> doc[p \o q]]]
    ELSE [present |-> FALSE, value |-> Scalar(Null)]

\* The concrete paths that tokens match.  From a key that is missing in an object
\* on, the rest of the tokens is the rest of the path, unless it has a wildcard.
Expand(doc, tokens) ==
    LET fits(p) == Len(p) <= Len(tokens) /\ \A i \in 1..Len(p) : tokens[i] \in {Wild, p[i]}
        rest(p) == SubSeq(tokens, Len(p) + 1, Len(tokens))
        whole == {p \in DOMAIN doc : fits(p) /\ Len(p) = Len(tokens)}
        stops == {p \in DOMAIN doc : /\ fits(p) /\ Len(p) < Len(tokens)
                                     /\ doc[p] = Object
                                     /\ Append(p, Head(rest(p))) \notin DOMAIN doc
                                     /\ Wild \notin ToSet(rest(p))}
    IN  whole \cup {p \o rest(p) : p \in stops}

\* SetValue succeeds: on the way to p there are objects, which missing keys and
\* nulls become too, and arrays that hold the element.
Settable(doc, p) ==
    \A i \in 1..Len(p) :
       LET at == SubSeq(p, 1, i - 1)
       IN  at \in DOMAIN doc =>
             \/ doc[at] = Object
             \/ doc[at] = Array /\ SubSeq(p, 1, i) \in DOMAIN doc
             \/ doc[at] = Null /\ at # <<>> /\ doc[Front(at)] = Object

SetValue(doc, p, value) ==
    LET kept == Without(doc, p)
        above == {SubSeq(p, 1, i) : i \in 0..(Len(p) - 1)}
        made == {q \in above : q \notin DOMAIN doc \/ doc[q] = Null}
        placed == {p \o q : q \in DOMAIN value}
    IN  [q \in DOMAIN kept \cup above \cup placed |->
           IF q \in placed THEN value[SubSeq(q, Len(p) + 1, Len(q))]
           ELSE IF q \in made THEN Object ELSE doc[q]]

\* DeleteValue succeeds.
Deletable(doc, p) ==
    Front(p) \in DOMAIN doc => doc[Front(p)] \in {Object, Array}

\* An element of an array stays: removing it would renumber the others.
DeleteValue(doc, p) ==
    IF Front(p) \in DOMAIN doc /\ doc[Front(p)] = Object THEN Without(doc, p) ELSE doc
=============================================================================
