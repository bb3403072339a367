--------------------------- MODULE MCIntegrations ---------------------------
(***************************************************************************)
(* Instances of Integrations: two overlapping schedules of the cluster and *)
(* one of the namespace, a database whose node sets are scaled to zero and *)
(* that is annotated, what its operator builds, a cache of the same kind,  *)
(* an Application and a Flux resource.                                     *)
(***************************************************************************)
EXTENDS Integrations

CONSTANTS night, weekend, own, db, cache, podset, app, flux, web, api, jobs

Path(tokens, value) == [path |-> tokens, value |-> Scalar(value)]

\* Two node sets, and maybe annotations.
Db(counts) ==
    [p \in {<<>>, <<"metadata">>, <<"spec">>, <<"spec", "nodes">>,
            <<"spec", "nodes", "0">>, <<"spec", "nodes", "1">>,
            <<"spec", "nodes", "0", "count">>, <<"spec", "nodes", "1", "count">>} |->
       CASE p = <<"spec", "nodes">> -> Array
         [] p = <<"spec", "nodes", "0", "count">> -> counts[1]
         [] p = <<"spec", "nodes", "1", "count">> -> counts[2]
         [] OTHER -> Object]

MCDocuments ==
    (db :> {Db(<<"3", "1">>),
            SetValue(Db(<<"2", "0">>), <<"metadata", "notes", "pause">>, Scalar(Null))})
      @@ (cache :> {Db(<<"3", "1">>)})

MCEntries ==
    <<[matches |-> {db, cache}, delete |-> FALSE,
       fields |-> <<Path(<<"spec", "nodes", Wild, "count">>, "0"),
                    Path(<<"metadata", "notes", "pause">>, "true")>>],
      [matches |-> {podset}, delete |-> TRUE, fields |-> <<>>]>>

\* What users write, and what is left of it after it was turned down and restored: the
\* objects on the way to a field that was missing.  It can all be undone, runs its pods,
\* and is another generation than what was turned down.
MCUndone ==
    [c \in {db, cache} |->
       LET off(doc) == Capture(doc, MCEntries[1].fields)
       IN  MCDocuments[c] \cup
             UNION {{o.doc : o \in Originals(off(doc).doc, off(doc).saved)}
                      : doc \in MCDocuments[c]}]
ASSUME MCDataUndoable == Undoable(MCUndone)
ASSUME MCDataTelling == Telling(MCUndone)
ASSUME MCDataPausing == Pausing(MCUndone)

\* A workload with a custom resource and what it builds, or three of them
\* with both GitOps integrations; two schedules that share what they select; and one
\* that a schedule of the namespace keeps out.
Alone(selected) == (night :> selected) @@ [s \in {weekend, own} |-> {}]
Shared(selected) == (own :> {}) @@ [s \in {night, weekend} |-> selected]
Beside(selected, others) == (own :> others) @@ Alone(selected)
MCScopes == {Alone({db, podset, web}), Alone({app, flux, web, api, jobs}),
             Shared({flux}), Shared({cache}), Beside({web}, {podset})}

OneScope == {Alone({db, podset, web})}

\* The calls that can fail without a promise of the integrations being lost.
MCFaults ==
    {<<"write", "turn">>, <<"write", "delete">>, <<"write", "gate">>, <<"write", "warm">>,
     <<"write", "return">>, <<"write", "status">>, <<"write", "finalizer">>,
     <<"read", "gate">>, <<"read", "warm">>, <<"list", "return">>,
     <<"conflict", "turn">>, <<"lookup", "targets">>, <<"lookup", "local">>,
     <<"crash", "">>}
\* An operator writes a status between the List and the Update of a restore.
MCConflict == {<<"conflict", "restore">>}

\* An upscale of night that lasts brings back every workload and lets go of every custom
\* resource and GitOps object (integrationsUp, scaleWorkloads, integrationsWarmup and
\* the requeues in between).  Night stands for the others: a scope that weekend
\* selects anything of is the same for both, and own has nothing to bring back.
NightCompletes == UpCompletes(night)

MCConvention == (db :> "conditions") @@ (cache :> "silent")
=============================================================================
