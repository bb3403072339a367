----------------------- MODULE IntegrationsRestoreProofs -----------------------
(***************************************************************************)
(* What users wrote into custom resources is never lost: a value that      *)
(* LightsOut wrote is never captured as an original, and what is captured  *)
(* is not dropped before it was put back.  That one capture can be undone  *)
(* at all is a matter of the documents alone, and a hypothesis (Undoable). *)
(* Then the promises that rest on it: in an upscale, the custom resources  *)
(* are back before the workloads, and a resource leaves its warmup when    *)
(* its pods are ready; in a downscale, a resource is paused before what it *)
(* makes its operator rebuild is deleted.                                  *)
(***************************************************************************)
EXTENDS IntegrationsOrderProofs

-----------------------------------------------------------------------------
(* Documents *)

\* Having the same fields is an equivalence.
LEMMA SameFieldsIs ==
    /\ \A d : SameFields(d, d)
    /\ \A d, e, f : SameFields(d, e) /\ SameFields(e, f) => SameFields(d, f)
<1> DEFINE fields(x) == {p \in DOMAIN x : x[p] # Object}
<1>1. \A d, e : SameFields(d, e) <=> fields(d) = fields(e) /\ \A p \in fields(d) : d[p] = e[p]
  BY DEF SameFields
<1> HIDE DEF fields
<1> QED
  BY <1>1

\* Under Undoable, what a restore makes of a captured document has the fields it had.
LEMMA UndoneIs ==
    ASSUME NEW docs, Undoable(docs), NEW c \in CRs, NEW i \in 1..n, c \in Matches(i),
           NEW doc \in docs[c]
    PROVE  LET off == Capture(doc, Entries[i].fields)
           IN  \A o \in Originals(off.doc, off.saved) :
                  o.ok /\ o.doc \in docs[c] /\ SameFields(o.doc, doc)
<1>1. c \in Entries[i].matches
  BY DEF Matches
<1> QED
  BY <1>1 DEF Undoable, n

\* x is what entry i made of a document that has the fields the user wrote.
CapturedFrom(docs, c, x, w, i) ==
    \E doc \in docs[c] : LET off == Capture(doc, Entries[i].fields)
                         IN  x.doc = off.doc /\ x.saved = off.saved /\ SameFields(doc, w)

\* A custom resource that is down holds what one entry captured, of what its user wrote;
\* any other has nothing captured and the fields its user wrote.
Origin(docs, c, x, w) ==
    IF x.state = IsDown
    THEN x.by # NoOne /\ \E i \in 1..n : c \in Matches(i) /\ CapturedFrom(docs, c, x, w, i)
    ELSE x.saved = NoFields /\ x.doc \in docs[c] /\ SameFields(x.doc, w)

\* Each state of an origin allows what the property says.
LEMMA OriginKept ==
    ASSUME NEW docs, Undoable(docs), NEW c \in CRs, NEW x, NEW w, Origin(docs, c, x, w)
    PROVE  IF x.state = IsDown
           THEN \A o \in Originals(x.doc, x.saved) :
                   o.ok /\ o.doc \in docs[c] /\ SameFields(o.doc, w)
           ELSE x.saved = NoFields /\ SameFields(x.doc, w)
<1>1. CASE x.state = IsDown
  <2>1. PICK i \in 1..n : c \in Matches(i) /\ CapturedFrom(docs, c, x, w, i)
    BY <1>1 DEF Origin
  <2>2. PICK doc \in docs[c] : /\ x.doc = Capture(doc, Entries[i].fields).doc
                               /\ x.saved = Capture(doc, Entries[i].fields).saved
                               /\ SameFields(doc, w)
    BY <2>1 DEF CapturedFrom
  <2>3. \A o \in Originals(x.doc, x.saved) :
           o.ok /\ o.doc \in docs[c] /\ SameFields(o.doc, doc)
    BY <2>1, <2>2, UndoneIs
  <2> QED
    BY <1>1, <2>2, <2>3, SameFieldsIs
<1>2. CASE x.state # IsDown
  BY <1>2 DEF Origin
<1> QED
  BY <1>1, <1>2

-----------------------------------------------------------------------------
(* What the writes make of a custom resource *)

\* What TurnDown makes of a resource that is not down.
LEMMA TurnDownOrigin ==
    ASSUME NEW docs, NEW c \in CRs, NEW cur, CrObject(cur), NEW w, Origin(docs, c, cur, w),
           cur.state # IsDown, NEW i \in 1..n, c \in Matches(i), NEW s \in Schedules
    PROVE  Origin(docs, c, TurnDown(cur, Entries[i].fields, s), w)
<1> DEFINE off == Capture(cur.doc, Entries[i].fields)
           x == [cur EXCEPT !.doc = off.doc, !.saved = off.saved, !.since = Never,
                            !.state = IsDown, !.by = s]
<1>1. TurnDown(cur, Entries[i].fields, s) = IF off.saved = NoFields THEN cur ELSE x
  BY DEF TurnDown
<1>2. cur.doc \in docs[c] /\ SameFields(cur.doc, w)
  BY DEF Origin
<1> HIDE DEF off
<1>3. x.doc = off.doc /\ x.saved = off.saved /\ x.state = IsDown /\ x.by = s
  BY DEF CrObject
<1> HIDE DEF x
<1>4. CapturedFrom(docs, c, x, w, i)
  BY <1>2, <1>3 DEF CapturedFrom, off
<1>5. Origin(docs, c, x, w)
  BY <1>3, <1>4, ScalerAssumption DEF Origin
<1> QED
  BY <1>1, <1>5

\* What Restored makes of a resource.
LEMMA RestoredOrigin ==
    ASSUME NEW docs, Undoable(docs), NEW c \in CRs, NEW cur, CrObject(cur), NEW w,
           Origin(docs, c, cur, w), cur.saved # NoFields, NEW x \in Restored(cur)
    PROVE  Origin(docs, c, x, w) /\ x.state = WarmingUp
<1>1. cur.state = IsDown
  BY DEF Origin
<1>2. PICK o \in Originals(cur.doc, cur.saved) :
         x = IF o.ok THEN [cur EXCEPT !.doc = o.doc, !.saved = NoFields,
                                      !.since = Recent, !.state = WarmingUp]
                     ELSE cur
  BY DEF Restored
<1>3. o.ok /\ o.doc \in docs[c] /\ SameFields(o.doc, w)
  BY <1>1, OriginKept
<1>4. x.doc = o.doc /\ x.saved = NoFields /\ x.state = WarmingUp
  BY <1>2, <1>3 DEF CrObject
<1> QED
  BY <1>3, <1>4 DEF Origin, WarmingUp, IsDown

\* What Clear makes of a resource that is not down.
LEMMA ClearOrigin ==
    ASSUME NEW docs, NEW c \in CRs, NEW cur, CrObject(cur), NEW w, Origin(docs, c, cur, w),
           cur.state # IsDown
    PROVE  Origin(docs, c, Clear(cur), w)
<1>1. /\ Clear(cur).doc = cur.doc /\ Clear(cur).saved = NoFields
      /\ Clear(cur).state = NoState
  BY DEF Clear, CrObject
<1> QED
  BY <1>1 DEF Origin, NoState, IsDown

-----------------------------------------------------------------------------
(* The inductive invariant *)

\* What a pass may turn down, or let go of, is not down.
Unheld(r, crs) ==
    /\ r.kind = "down" => \A c \in CRs \cap r.fresh : crs[c].state # IsDown
    /\ \A c \in CRs \cap (r.check \cup r.done) : crs[c].state # IsDown

OriginInv(docs) ==
    /\ OwnInv
    /\ \A c \in CRs : Origin(docs, c, cr[c], want[c])
    /\ \A s \in Schedules : Unheld(rec[s], cr)

\* A pass that keeps less in hand, or nothing, keeps what it has in hand so.
LEMMA UnheldKept ==
    ASSUME NEW r, NEW crs
    PROVE  /\ Empty(r) => Unheld(r, crs)
           /\ r \in Pass => Unheld(Onward(r), crs)
           /\ r \in Pass /\ Unheld(r, crs) => Unheld(Settle(r), crs)
           /\ \A x : Fewer(x, r) /\ Unheld(r, crs) => Unheld(x, crs)
           /\ \A x : Same(x, r) /\ Unheld(r, crs) => Unheld(x, crs)
<1>1. \A x : Empty(x) => Unheld(x, crs)
  BY DEF Unheld, Parts, Empty
<1>2. r \in Pass => Unheld(Onward(r), crs)
  BY <1>1, OnwardFields DEF Empty
<1>3. r \in Pass /\ Unheld(r, crs) => Unheld(Settle(r), crs)
  BY <1>2, SettleIs
<1>4. \A x : Fewer(x, r) /\ Unheld(r, crs) => Unheld(x, crs)
  BY DEF Unheld, Fewer
<1>5. \A x : Same(x, r) => Fewer(x, r)
  BY DEF Same, Fewer, Parts
<1> QED
  BY <1>1, <1>2, <1>3, <1>4, <1>5

\* What a List finds to turn down, to check or to let go of is not down.
LEMMA UnheldListed ==
    ASSUME NEW docs, OriginInv(docs), NEW s \in Schedules, ListStep(s)
    PROVE  Unheld(Finds(s), cr)
<1> DEFINE r == [rec[s] EXCEPT !.listed = TRUE]
           op == OpOf(rec[s])
           here == Selects(s) \cap ObjsOf(rec[s])
           R == Finds(s)
<1>1. rec[s] \in Pass /\ ~Over(rec[s])
  BY Zenon DEF OriginInv, OwnInv, ShapeInv, TypeInv, TypeOK, ListStep
<1>2. /\ op \in Ops /\ here \subseteq Sort(op)
      /\ op = "turn" <=> rec[s].kind = "down" /\ op \in {"turn", "restore", "return"}
  BY <1>1, StepOf
<1>3. Found(s, r, op, here, R) /\ R.kind = rec[s].kind
  BY FindsIs DEF OriginInv, OwnInv
<1>4. \A c \in CRs : cr[c].state = IsDown => cr[c].by # NoOne
  BY DEF OriginInv, Origin
<1> HIDE DEF r, op, here, R
<1>5. ASSUME NEW c \in CRs, R.kind = "down", c \in R.fresh PROVE cr[c].state # IsDown
  <2>1. op = "turn" /\ c \in R.todo
    BY <1>2, <1>3, <1>5 DEF Found
  <2>2. TurnsDown(cr[c], s)
    BY <1>3, <2>1 DEF Found
  <2> QED
    BY <1>4, <2>2 DEF TurnsDown, Foreign
<1>6. ASSUME NEW c \in CRs, c \in R.check \cup R.done PROVE cr[c].state # IsDown
  <2>1. op \in {"warm", "gate", "return"} /\ c \in here
    BY <1>3, <1>6 DEF Found
  <2>2. op # "warm"
    BY <1>2, <2>1, SortsDiffer DEF Sort
  <2>3. CASE op = "gate"
    BY <1>3, <1>6, <2>1, <2>3 DEF Found, WarmingUp, IsDown
  <2>4. CASE op = "return"
    BY <1>3, <1>6, <2>1, <2>4 DEF Found, Restores
  <2> QED
    BY <2>1, <2>2, <2>3, <2>4
<1> QED
  BY <1>5, <1>6 DEF Unheld, R

\* Custom resources are as their users wrote them at first ...
LEMMA OriginInit == ASSUME NEW docs, Undoable(docs) PROVE Init => OriginInv(docs)
<1> SUFFICES ASSUME Init PROVE OriginInv(docs)
  OBVIOUS
<1>1. \A s \in Schedules : Empty(rec[s])
  BY IdleIs DEF Init, Clean, Empty
<1>2. ASSUME NEW c \in CRs PROVE Origin(docs, c, cr[c], want[c])
  <2>1. cr[c] = Untouched(want[c]) /\ want[c] \in Documents[c]
    BY DEF Init
  <2>2. want[c] \in docs[c] /\ SameFields(want[c], want[c])
    BY <2>1, SameFieldsIs DEF Undoable
  <2> QED
    BY <2>1, <2>2 DEF Origin, Untouched, IsDown, NoState
<1> QED
  BY <1>1, <1>2, OwnInit, UnheldKept DEF OriginInv

\* A write of a custom resource keeps its origin, and leaves what passes have in hand as
\* they may have it.
LEMMA OriginCr ==
    ASSUME NEW docs, Undoable(docs), OriginInv(docs), NEW s \in Schedules, NEW c \in CRs,
           NEW r, NEW x, CrStep(s, c, r, x)
    PROVE  /\ \A d \in CRs : Origin(docs, d, cr'[d], want'[d])
           /\ \A t \in Schedules : Unheld(rec'[t], cr')
<1>1. /\ cr = [d \in CRs |-> cr[d]] /\ Captured(cr) /\ CrObject(cr[c]) /\ CrObject(x)
      /\ \A t \in Schedules : Mine(t, rec[t], cr, git) /\ Unheld(rec[t], cr)
      /\ \A d \in CRs : Origin(docs, d, cr[d], want[d])
      /\ rec[s] \in Pass /\ ~Over(rec[s]) /\ Shape(rec[s], Selects(s))
  BY Zenon DEF OriginInv, OwnInv, ShapeInv, TypeInv, TypeOK, CrStep
<1>2. /\ cr'[c] = x /\ \A d \in CRs \ {c} : cr'[d] = cr[d]
      /\ want' = want
  BY <1>1 DEF CrStep, users
<1>3. /\ OpOf(rec[s]) = "turn" => rec[s].kind = "down"
      /\ OpOf(rec[s]) \in {"restore", "return"} => rec[s].kind # "down"
  BY <1>1, StepOf
<1>4. Origin(docs, c, x, want[c]) /\ (x = cr[c] \/ OpOf(rec[s]) = "turn" \/ x.state # IsDown)
  <2>1. ASSUME OpOf(rec[s]) = "turn", c \in rec[s].todo \cap rec[s].fresh, NEW i \in 1..n,
               ObjsOf(rec[s]) = Matches(i), x = TurnDown(cr[c], Entries[i].fields, s)
        PROVE  Origin(docs, c, x, want[c])
    <3>1. cr[c].state # IsDown
      BY <1>1, <1>3, <2>1 DEF Unheld
    <3>2. c \in Matches(i)
      BY <1>1, <2>1 DEF Shape, Parts
    <3> QED
      BY <1>1, <2>1, <3>1, <3>2, TurnDownOrigin
  <2>2. ASSUME x \in Restored(cr[c]), cr[c].saved # NoFields
        PROVE  Origin(docs, c, x, want[c]) /\ x.state # IsDown
    <3>1. Origin(docs, c, x, want[c]) /\ x.state = WarmingUp
      BY <1>1, <2>2, RestoredOrigin
    <3> QED
      BY <3>1 DEF WarmingUp, IsDown
  <2>3. ASSUME x = Clear(cr[c]), cr[c].state # IsDown
        PROVE  Origin(docs, c, x, want[c]) /\ x.state # IsDown
    <3>1. Origin(docs, c, x, want[c])
      BY <1>1, <2>3, ClearOrigin
    <3>2. x.state = NoState
      BY <1>1, <2>3, ClearIs
    <3> QED
      BY <3>1, <3>2 DEF NoState, IsDown
  <2>4. cr[c].saved = NoFields => cr[c].state # IsDown
    BY <1>1 DEF Captured
  <2>5. c \in rec[s].done => cr[c].state # IsDown
    BY <1>1 DEF Unheld
  <2>6. CrWrite(s, rec[s], c, x)
    BY DEF CrStep
  <2>7. CASE x = cr[c]
    BY <1>1, <2>7
  <2>8. CASE /\ OpOf(rec[s]) = "turn" /\ c \in rec[s].todo \cap rec[s].fresh
             /\ \E i \in 1..n : ObjsOf(rec[s]) = Matches(i)
                                /\ x = TurnDown(cr[c], Entries[i].fields, s)
    BY <2>1, <2>8
  <2>9. CASE /\ OpOf(rec[s]) \in {"restore", "return"}
             /\ x \in Restored(cr[c])
             /\ \/ cr[c].saved = NoFields /\ x = Clear(cr[c])
                \/ x.by = cr[c].by /\ x.state = WarmingUp
    <3>1. CASE cr[c].saved # NoFields
      BY <2>2, <2>9, <3>1
    <3>2. CASE cr[c].saved = NoFields
      <4>1. x = Clear(cr[c])
        BY <2>9, <3>2 DEF Restored
      <4> QED
        BY <2>3, <2>4, <3>2, <4>1
    <3> QED
      BY <3>1, <3>2
  <2>10. CASE c \in rec[s].done /\ x = Clear(cr[c])
    BY <2>3, <2>5, <2>10
  <2> QED
    BY <2>6, <2>7, <2>8, <2>9, <2>10 DEF CrWrite
<1>5. \A d \in CRs : Origin(docs, d, cr'[d], want'[d])
  BY <1>1, <1>2, <1>4
<1>6. ASSUME NEW t \in Schedules \ {s} PROVE Unheld(rec'[t], cr')
  <2>1. Same(rec'[t], rec[t]) /\ (x # cr[c] => c \notin rec'[t].fresh)
    BY DEF CrStep, Turns, Outdated
  <2>2. Unheld(rec'[t], cr) /\ Mine(t, rec'[t], cr, git)
    BY <1>1, <2>1, UnheldKept, MineKept
  <2>3. x = cr[c] \/ cr[c].by \in {s, NoOne}
    BY OwnCr DEF OriginInv
  <2>4. x # cr[c] => c \notin rec'[t].check \cup rec'[t].done
    BY <2>2, <2>3, ScalerAssumption DEF Mine
  <2> QED
    BY <1>2, <2>1, <2>2, <2>4 DEF Unheld
<1>7. Unheld(rec'[s], cr')
  <2>1. r \in Pass /\ Same(rec'[s], Settle(r))
    BY DEF CrStep, Shrinks, Returns, Turns
  <2>2. CASE Shrinks(r, rec[s], c)
    <3>1. Fewer(r, rec[s]) /\ c \notin r.fresh \cup r.check \cup r.done
      BY <2>2 DEF Shrinks, Fewer, Parts
    <3>2. Unheld(r, cr)
      BY <1>1, <3>1, UnheldKept
    <3>3. Unheld(r, cr')
      BY <1>2, <3>1, <3>2 DEF Unheld
    <3> QED
      BY <2>1, <3>3, UnheldKept
  <2>3. CASE /\ OpOf(rec[s]) = "return" /\ Returns(r, rec[s], c) /\ x # cr[c]
    <3>1. x.state # IsDown
      BY <1>4, <2>3
    <3>2. /\ r.kind = rec[s].kind /\ r.fresh \subseteq rec[s].fresh \ {c}
          /\ r.check \cup r.done \subseteq rec[s].check \cup rec[s].done \cup {c}
      BY <2>3 DEF Returns
    <3>3. Unheld(rec[s], cr)
      BY <1>1
    <3>4. Unheld(r, cr')
      BY <1>2, <3>1, <3>2, <3>3 DEF Unheld
    <3> QED
      BY <2>1, <3>4, UnheldKept
  <2> QED
    BY <2>2, <2>3 DEF CrStep
<1> QED
  BY <1>5, <1>6, <1>7

\* Users write only what nobody holds; nothing else in the world writes a document.
LEMMA WorldDocs ==
    ASSUME TypeInv, Environment, NEW c \in CRs
    PROVE  \/ cr'[c].doc = cr[c].doc /\ want'[c] = want[c]
           \/ cr[c].by = NoOne /\ cr'[c].doc = want'[c] /\ want'[c] \in Documents[c]
<1>1. /\ cr = [d \in CRs |-> cr[d]] /\ want = [d \in CRs |-> want[d]]
      /\ \A d \in CRs : CrObject(cr[d])
  BY Zenon DEF TypeInv
<1>2. ASSUME NEW d \in CRs, Rewrite(d)
      PROVE  \/ cr'[c].doc = cr[c].doc /\ want'[c] = want[c]
             \/ cr[c].by = NoOne /\ cr'[c].doc = want'[c] /\ want'[c] \in Documents[c]
  <2>1. PICK doc \in Documents[d] : /\ want' = [want EXCEPT ![d] = doc]
                                    /\ cr' = [cr EXCEPT ![d].doc = doc]
    BY <1>2 DEF Rewrite
  <2>2. cr[d].by = NoOne
    BY <1>2 DEF Rewrite
  <2> QED
    BY <1>1, <2>1, <2>2 DEF CrObject
<1>3. ASSUME NEW d \in CRs \cup Gits, Elapse(d)
      PROVE  cr'[c].doc = cr[c].doc /\ want'[c] = want[c]
  BY <1>1, <1>3 DEF Elapse, users, CrObject
<1>4. CASE UNCHANGED <<cr, want>>
  BY <1>4
<1> QED
  BY <1>2, <1>3, <1>4 DEF Environment, Create, Delete, Flip, Operate, Report, Freeze, BecomeReady,
                          Rebuild, Restart, objects, users

\* ... every step keeps it so ...
LEMMA OriginStep ==
    ASSUME NEW docs, Undoable(docs)
    PROVE  OriginInv(docs) /\ [Next]_vars => OriginInv(docs)'
<1> SUFFICES ASSUME OriginInv(docs), [Next]_vars PROVE OriginInv(docs)'
  OBVIOUS
<1>1. /\ OwnInv /\ OwnInv' /\ TypeInv
      /\ \A t \in Schedules : Unheld(rec[t], cr)
      /\ \A c \in CRs : Origin(docs, c, cr[c], want[c])
  BY OwnStep DEF OriginInv, OwnInv, ShapeInv
<1>2. rec \in [Schedules -> Pass]
  BY <1>1, Zenon DEF TypeInv, TypeOK
<1>3. ASSUME \A c \in CRs : Origin(docs, c, cr'[c], want'[c]),
             \A t \in Schedules : Unheld(rec'[t], cr')
      PROVE  OriginInv(docs)'
  BY <1>1, <1>3 DEF OriginInv, Origin, CapturedFrom, Unheld
<1>4. ASSUME UNCHANGED <<cr, want>>, \A t \in Schedules : Unheld(rec'[t], cr)
      PROVE  OriginInv(docs)'
  BY <1>1, <1>3, <1>4
<1>5. ASSUME NEW s \in Schedules, NEW r, Turns(s, r), Unheld(r, cr), UNCHANGED <<cr, want>>
      PROVE  OriginInv(docs)'
  BY <1>1, <1>4, <1>5, UnheldKept DEF Turns
<1>6. CASE UNCHANGED <<rec, cr, want>>
  BY <1>1, <1>4, <1>6
<1>7. CASE Environment
  <2>1. WorldStep
    BY <1>1, <1>7, WorldIs
  <2>2. \A c \in CRs : cr'[c].by = cr[c].by /\ cr'[c].state = cr[c].state /\ cr'[c].saved = cr[c].saved
    BY <2>1 DEF WorldStep
  <2>3. ASSUME NEW c \in CRs PROVE Origin(docs, c, cr'[c], want'[c])
    <3>1. CASE cr'[c].doc = cr[c].doc /\ want'[c] = want[c]
      BY <1>1, <2>2, <3>1 DEF Origin, CapturedFrom
    <3>2. CASE cr[c].by = NoOne /\ cr'[c].doc = want'[c] /\ want'[c] \in Documents[c]
      <4>1. cr[c].state # IsDown /\ cr[c].saved = NoFields
        BY <1>1, <3>2 DEF Origin
      <4>2. want'[c] \in docs[c] /\ SameFields(want'[c], want'[c])
        BY <3>2, SameFieldsIs DEF Undoable
      <4> QED
        BY <2>2, <3>2, <4>1, <4>2 DEF Origin
    <3> QED
      BY <1>1, <1>7, <3>1, <3>2, WorldDocs
  <2>4. \A t \in Schedules : Same(rec'[t], rec[t]) \/ Empty(rec'[t])
    BY <2>1, IdleIs DEF WorldStep, Clean, Empty
  <2>5. \A t \in Schedules : Unheld(rec'[t], cr)
    BY <1>1, <2>4, UnheldKept
  <2>6. \A t \in Schedules : Unheld(rec'[t], cr')
    BY <2>2, <2>5 DEF Unheld
  <2> QED
    BY <1>3, <2>3, <2>6
<1>8. ASSUME NEW s \in Schedules, PassStep(s) PROVE OriginInv(docs)'
  <2>0. rec[s] \in Pass /\ Unheld(rec[s], cr)
    BY <1>1, <1>2
  <2>1. ASSUME NEW g \in Gits, NEW r, NEW after, GitStep(s, g, r, after) PROVE OriginInv(docs)'
    <3>1. r \in Pass /\ Fewer(r, rec[s]) /\ Turns(s, Settle(r)) /\ UNCHANGED <<cr, want>>
      BY <2>1 DEF GitStep, Shrinks, Fewer, Parts, users
    <3>2. Unheld(Settle(r), cr)
      BY <2>0, <3>1, UnheldKept
    <3> QED
      BY <1>5, <3>1, <3>2
  <2>2. ASSUME NEW c \in CRs, NEW r, NEW x, CrStep(s, c, r, x) PROVE OriginInv(docs)'
    BY <1>3, <2>2, OriginCr
  <2>3. ASSUME NEW w \in Workloads, NEW r, ScaleStepOf(s, w, r) PROVE OriginInv(docs)'
    <3>1. Fewer(r, rec[s]) /\ Turns(s, r) /\ UNCHANGED <<cr, want>>
      BY <2>3 DEF ScaleStepOf, Shrinks, Fewer, Parts, users
    <3>2. Unheld(r, cr)
      BY <2>0, <3>1, UnheldKept
    <3> QED
      BY <1>5, <3>1, <3>2
  <2>4. ASSUME NEW r, QuietStep(s, r) PROVE OriginInv(docs)'
    <3>1. r \in Pass /\ Fewer(r, rec[s]) /\ Turns(s, Settle(r)) /\ UNCHANGED <<cr, want>>
      BY <2>4 DEF QuietStep, Fewer, Parts, users
    <3>2. Unheld(Settle(r), cr)
      BY <2>0, <3>1, UnheldKept
    <3> QED
      BY <1>5, <3>1, <3>2
  <2>5. ASSUME NEW r, LeaveStep(s, r) PROVE OriginInv(docs)'
    <3>1. r \in Pass /\ Turns(s, Onward(r)) /\ UNCHANGED <<cr, want>>
      BY <2>5 DEF LeaveStep, Same, objects, users
    <3>2. Unheld(Onward(r), cr)
      BY <3>1, UnheldKept
    <3> QED
      BY <1>5, <3>1, <3>2
  <2>6. CASE ListStep(s)
    <3>1. Finds(s) \in Pass /\ Unheld(Finds(s), cr)
      BY <1>1, <2>6, FindsIs, UnheldListed DEF OwnInv
    <3>2. Turns(s, Settle(Finds(s))) /\ UNCHANGED <<cr, want>>
      BY <2>6 DEF ListStep, Finds, objects, users
    <3>3. Unheld(Settle(Finds(s)), cr)
      BY <3>1, UnheldKept
    <3> QED
      BY <1>5, <3>2, <3>3
  <2>7. CASE TurnStep(s)
    <3>1. \A t \in Schedules : Same(rec'[t], rec[t]) \/ Empty(rec'[t])
      BY <2>7 DEF TurnStep, Clean, Empty
    <3>2. UNCHANGED <<cr, want>>
      BY <2>7 DEF TurnStep, objects, users
    <3>3. \A t \in Schedules : Unheld(rec'[t], cr)
      BY <1>1, <3>1, UnheldKept
    <3> QED
      BY <1>4, <3>2, <3>3
  <2> QED
    BY <1>8, <2>1, <2>2, <2>3, <2>4, <2>5, <2>6, <2>7 DEF PassStep
<1> QED
  BY <1>1, <1>6, <1>7, <1>8, NextIs DEF vars, objects, users, SkipStep

\* What a user wrote into a custom resource is in it, or comes out of it in whatever
\* order its captured fields are put back, for documents on which that works for one
\* capture on its own: whatever passes, refused and lost updates, restarts, moves of the
\* user and other schedules come between, no value that LightsOut wrote is captured as
\* an original, and no original is dropped before it was put back.
THEOREM OriginalsAreKept ==
    ASSUME NEW docs, Undoable(docs)
    PROVE  Spec => []OriginalsKept
<1>1. Init => OriginInv(docs)
  BY OriginInit
<1>2. OriginInv(docs) /\ [Next]_vars => OriginInv(docs)'
  BY OriginStep
<1>3. OriginInv(docs) => OriginalsKept
  BY OriginKept DEF OriginInv, OriginalsKept
<1> QED
  BY <1>1, <1>2, <1>3, PTL DEF Spec

-----------------------------------------------------------------------------
(* Custom resources before workloads *)

\* The hypothesis about failures: no List of a restore or of a gate fails, and no Update
\* of a restore fails or finds its copy outdated.
Reliable ==
    {<<"list", "restore">>, <<"write", "restore">>, <<"conflict", "restore">>, <<"list", "gate">>}
      \cap FaultKinds = {}

\* An upscale that waits for nothing has still to restore what its schedule holds down,
\* and to check what is warming up; at its workloads it holds nothing any more.
Warm(s, r, crs) ==
    r.kind = "up" =>
       \A c \in CRs \cap Selects(s) : crs[c].by = s =>
          /\ r.at # n + n + 1
          /\ r.at <= n + n /\ ~r.wait =>
               IF crs[c].state = IsDown THEN Ahead(r, c, 0) ELSE Ahead(r, c, n)

\* What an upscale restores it has the latest copy of, and it checks all or none of what
\* it has not let go.
Sharp(s, r, crs) ==
    r.kind = "up" =>
       /\ r.at <= n => \A c \in CRs \cap Parts(r) : crs[c].by = s => c \in r.todo \cap r.fresh
       /\ r.at <= n + n /\ r.at > n => r.todo = {} /\ (r.check = {} \/ r.done = {})

WarmInv(docs) ==
    /\ OriginInv(docs) /\ ReturnInv
    /\ \A s \in Schedules : Warm(s, rec[s], cr) /\ Sharp(s, rec[s], cr)

\* The steps of an upscale, by their place.
LEMMA UpAt ==
    ASSUME NEW r \in Pass, ~Over(r), r.kind = "up"
    PROVE  /\ n \in Nat /\ r.at \in 1..(n + n + 3)
           /\ NextAt(r) = r.at + 1 \/ (r.at <= n + n /\ NextAt(r) = n + n + 4)
           /\ r.at = n + n /\ NextAt(r) = r.at + 1 => ~r.wait
           /\ r.at <= n => OpOf(r) = "restore" /\ ObjsOf(r) = Matches(r.at)
           /\ r.at <= n + n /\ r.at > n => OpOf(r) = "gate" /\ ObjsOf(r) = Matches(r.at - n)
           /\ r.at > n + n => OpOf(r) \in {"scale", "warm"}
           /\ r.at = n + n + 1 <=> OpOf(r) = "scale"
<1>1. /\ n \in Nat /\ r.at \in 1..(n + n + 3)
      /\ NextAt(r) = r.at + 1 \/ (r.at <= n + n /\ NextAt(r) = n + n + 4)
      /\ r.at = n + n /\ NextAt(r) = r.at + 1 => ~r.wait
  BY NextAtIs DEF LenOf
<1>2. OpOf(r) = OpAt("up", r.at) /\ ObjsOf(r) = ObjsAt("up", r.at)
  BY ScaleAt
<1> QED
  BY <1>1, <1>2 DEF OpAt, ObjsAt

\* A pass that begins, goes on with nothing in hand, settles, is outdated or keeps the
\* custom resources it has in hand.
LEMMA WarmKept ==
    ASSUME NEW s \in Schedules, NEW crs, NEW r \in Pass
    PROVE  /\ Clean(r) /\ Named(crs) => Warm(s, r, crs)
           /\ ~Over(r) /\ Warm(s, r, crs) /\ ((r.listed /\ Parts(r) = {}) \/ r.at > n + n)
                => Warm(s, Onward(r), crs)
           /\ ~Over(r) /\ r.listed /\ Warm(s, r, crs) => Warm(s, Settle(r), crs)
           /\ \A x : Same(x, r) /\ Warm(s, r, crs) => Warm(s, x, crs)
           /\ \A x : /\ x.kind = r.kind /\ x.at = r.at /\ x.listed = r.listed
                     /\ (r.wait => x.wait) /\ CRs \cap Parts(r) \subseteq Parts(x)
                     /\ Warm(s, r, crs)
                     => Warm(s, x, crs)
<1>0. n \in Nat /\ r.at \in Nat \ {0}
  BY IntegrationsAssumption DEF n, Pass
<1>1. ASSUME Clean(r), Named(crs) PROVE Warm(s, r, crs)
  <2>1. r.at = 1 /\ ~r.listed
    BY <1>1 DEF Clean
  <2>2. ASSUME NEW c \in CRs \cap Selects(s), crs[c].by = s
        PROVE  r.at # n + n + 1 /\ Ahead(r, c, 0) /\ Ahead(r, c, n)
    <3>1. PICK i \in 1..n : c \in Matches(i)
      BY <1>1, <2>2, ScalerAssumption DEF Named
    <3>2. /\ r.at # n + n + 1
          /\ r.at < i + 0 \/ r.at = i + 0
          /\ r.at < i + n
      BY <1>0, <2>1, <3>1
    <3> QED
      BY <2>1, <3>1, <3>2 DEF Ahead
  <2> QED
    BY <2>2 DEF Warm
<1>2. ASSUME ~Over(r), Warm(s, r, crs), (r.listed /\ Parts(r) = {}) \/ r.at > n + n
      PROVE  Warm(s, Onward(r), crs)
  <2>1. /\ Onward(r).kind = r.kind /\ Onward(r).at = NextAt(r) /\ Onward(r).wait = r.wait
    BY OnwardFields
  <2> SUFFICES ASSUME r.kind = "up", NEW c \in CRs \cap Selects(s), crs[c].by = s
               PROVE  /\ NextAt(r) # n + n + 1
                      /\ NextAt(r) <= n + n /\ ~r.wait =>
                            IF crs[c].state = IsDown THEN Ahead(Onward(r), c, 0)
                                                     ELSE Ahead(Onward(r), c, n)
    BY <2>1 DEF Warm
  <2>2. /\ NextAt(r) = r.at + 1 \/ (r.at <= n + n /\ NextAt(r) = n + n + 4)
        /\ r.at = n + n /\ NextAt(r) = r.at + 1 => ~r.wait
    BY <1>2, UpAt
  <2>3. /\ r.at # n + n + 1
        /\ r.at <= n + n /\ ~r.wait =>
             IF crs[c].state = IsDown THEN Ahead(r, c, 0) ELSE Ahead(r, c, n)
    BY <1>2 DEF Warm
  <2>4. CASE NextAt(r) = n + n + 4 \/ r.at > n + n
    BY <1>0, <2>2, <2>3, <2>4
  <2>5. CASE r.at <= n + n /\ NextAt(r) = r.at + 1 /\ r.wait
    BY <1>0, <2>2, <2>5
  <2>6. CASE r.at <= n + n /\ NextAt(r) = r.at + 1 /\ ~r.wait
    <3>1. r.listed /\ Parts(r) = {}
      BY <1>0, <1>2, <2>6
    <3>2. ASSUME NEW d \in {0, n}, Ahead(r, c, d)
          PROVE  Ahead(Onward(r), c, d) /\ r.at + 1 # n + n + 1
      <4>1. PICK i \in 1..n : c \in Matches(i)
                              /\ (r.at < i + d \/ (r.at = i + d /\ (r.listed => c \in Parts(r))))
        BY <3>2 DEF Ahead
      <4>2. r.at < i + d
        BY <3>1, <4>1
      <4>3. r.at + 1 # n + n + 1
        BY <1>0, <3>2, <4>2
      <4>4. d \in Nat
        BY <1>0
      <4> QED
        BY <1>2, <2>6, <3>1, <3>2, <4>3, <4>4, AheadKept
    <3>3. Ahead(r, c, 0) \/ Ahead(r, c, n)
      BY <2>3, <2>6
    <3> QED
      BY <2>3, <2>6, <3>2, <3>3
  <2> QED
    BY <1>0, <2>2, <2>4, <2>5, <2>6
<1>3. ~Over(r) /\ r.listed /\ Warm(s, r, crs) => Warm(s, Settle(r), crs)
  BY <1>2, SettleIs
<1>4. ASSUME NEW x, x.kind = r.kind, x.at = r.at, x.listed = r.listed, r.wait => x.wait,
             CRs \cap Parts(r) \subseteq Parts(x), Warm(s, r, crs)
      PROVE  Warm(s, x, crs)
  <2>1. ASSUME NEW c \in CRs, NEW d, Ahead(r, c, d) PROVE Ahead(x, c, d)
    BY <1>4, <2>1 DEF Ahead
  <2> QED
    BY <1>4, <2>1 DEF Warm
<1>5. \A x : Same(x, r) /\ Warm(s, r, crs) => Warm(s, x, crs)
  BY <1>4 DEF Same, Parts
<1> QED
  BY <1>1, <1>2, <1>3, <1>4, <1>5

\* What an upscale has in hand stays sharp when it settles, and when nothing that it goes
\* on with is outdated.
LEMMA SharpKept ==
    ASSUME NEW s, NEW crs, NEW r \in Pass
    PROVE  /\ Empty(r) => Sharp(s, r, crs)
           /\ Sharp(s, Onward(r), crs)
           /\ Sharp(s, r, crs) => Sharp(s, Settle(r), crs)
           /\ \A x : Same(x, r) /\ r.todo \cap r.fresh \subseteq x.fresh /\ Sharp(s, r, crs)
                     => Sharp(s, x, crs)
<1>1. \A x : Empty(x) => Sharp(s, x, crs)
  BY DEF Empty, Parts, Sharp
<1>2. Sharp(s, Onward(r), crs)
  BY <1>1, OnwardFields DEF Empty
<1>3. Sharp(s, r, crs) => Sharp(s, Settle(r), crs)
  BY <1>2, SettleIs
<1>4. \A x : Same(x, r) /\ r.todo \cap r.fresh \subseteq x.fresh /\ Sharp(s, r, crs)
            => Sharp(s, x, crs)
  BY DEF Same, Parts, Sharp
<1> QED
  BY <1>1, <1>2, <1>3, <1>4

\* A step of another schedule outdates nothing that an upscale of t is to restore.
LEMMA SharpSpared ==
    ASSUME OwnInv, NEW s \in Schedules, NEW r, Spares(s, r), NEW t \in Schedules \ {s},
           Same(rec'[t], rec[t]), Sharp(t, rec[t], cr)
    PROVE  Sharp(t, rec'[t], cr)
<1>1. rec[t] \in Pass /\ Mine(s, rec[s], cr, git) /\ rec[s] \in Pass
  BY Zenon DEF OwnInv, ShapeInv, TypeInv, TypeOK
<1>2. \A c \in CRs : c \in rec[s].fresh \cup rec[s].done => cr[c].by \in {s, NoOne}
  BY <1>1 DEF Mine
<1>3. \A c \in CRs : c \in rec[t].fresh /\ cr[c].by = t => c \in rec'[t].fresh
  BY <1>2, ScalerAssumption DEF Spares
<1> QED
  BY <1>3 DEF Same, Parts, Sharp

\* A List of a restore finds all that is down, and one of a gate all that is warming up.
LEMMA WarmListed ==
    ASSUME ReturnInv, NEW s \in Schedules, ListStep(s), Warm(s, rec[s], cr)
    PROVE  Warm(s, Finds(s), cr) /\ Sharp(s, Finds(s), cr)
<1> DEFINE r == [rec[s] EXCEPT !.listed = TRUE]
           op == OpOf(rec[s])
           here == Selects(s) \cap ObjsOf(rec[s])
           R == Finds(s)
<1>1. /\ rec[s] \in Pass /\ ~Over(rec[s]) /\ ~rec[s].listed /\ Named(cr)
      /\ \A c \in CRs : CrObject(cr[c])
  BY Zenon DEF ReturnInv, WorkInv, OwnInv, ShapeInv, TypeInv, TypeOK, ListStep
<1>2. Found(s, r, op, here, R) /\ R.kind = rec[s].kind /\ R.at = rec[s].at
  BY FindsIs DEF ReturnInv, WorkInv, OwnInv
<1>3. r.wait = rec[s].wait
  BY <1>1 DEF Pass
<1>4. ASSUME rec[s].kind = "up"
      PROVE  /\ n \in Nat /\ rec[s].at \in Nat
             /\ \A i \in 1..n :
                  /\ rec[s].at = i => op = "restore" /\ here = Selects(s) \cap Matches(i)
                  /\ rec[s].at = i + n => op = "gate" /\ here = Selects(s) \cap Matches(i)
             /\ rec[s].at <= n => op = "restore"
             /\ rec[s].at <= n + n /\ rec[s].at > n => op = "gate"
  <2>1. /\ n \in Nat /\ rec[s].at \in 1..(n + n + 3)
        /\ rec[s].at <= n => OpOf(rec[s]) = "restore" /\ ObjsOf(rec[s]) = Matches(rec[s].at)
        /\ rec[s].at <= n + n /\ rec[s].at > n =>
             OpOf(rec[s]) = "gate" /\ ObjsOf(rec[s]) = Matches(rec[s].at - n)
    BY <1>1, <1>4, UpAt
  <2>2. ASSUME NEW i \in 1..n
        PROVE  /\ rec[s].at = i => op = "restore" /\ here = Selects(s) \cap Matches(i)
               /\ rec[s].at = i + n => op = "gate" /\ here = Selects(s) \cap Matches(i)
    <3>1. i <= n /\ i + n <= n + n /\ i + n > n /\ i + n - n = i
      BY <2>1
    <3> QED
      BY <2>1, <3>1
  <2> QED
    BY <2>1, <2>2
<1> HIDE DEF r, op, here, R
<1>5. Sharp(s, R, cr)
  BY <1>1, <1>2, <1>4 DEF Found, Sharp, Parts
<1>6. ASSUME R.kind = "up", NEW c \in CRs \cap Selects(s), cr[c].by = s
      PROVE  /\ R.at # n + n + 1
             /\ R.at <= n + n /\ ~R.wait =>
                  IF cr[c].state = IsDown THEN Ahead(R, c, 0) ELSE Ahead(R, c, n)
  <2>1. /\ rec[s].at # n + n + 1
        /\ rec[s].at <= n + n /\ ~rec[s].wait =>
             IF cr[c].state = IsDown THEN Ahead(rec[s], c, 0) ELSE Ahead(rec[s], c, n)
    BY <1>2, <1>6 DEF Warm
  <2>2. ~R.wait => ~rec[s].wait
    BY <1>2, <1>3 DEF Found
  <2>3. ASSUME ~R.wait, cr[c].state = IsDown, Ahead(rec[s], c, 0) PROVE Ahead(R, c, 0)
    <3>1. PICK i \in 1..n : c \in Matches(i) /\ (rec[s].at < i + 0 \/ rec[s].at = i + 0)
      BY <2>3 DEF Ahead
    <3>2. ASSUME rec[s].at = i + 0 PROVE c \in Parts(R)
      <4>1. op = "restore" /\ c \in here
        BY <1>2, <1>4, <1>6, <3>1, <3>2
      <4> QED
        BY <1>2, <1>6, <2>3, <4>1 DEF Found, Restores, Parts
    <3> QED
      BY <1>2, <3>1, <3>2 DEF Ahead
  <2>4. ASSUME ~R.wait, cr[c].state # IsDown, Ahead(rec[s], c, n) PROVE Ahead(R, c, n)
    <3>1. PICK i \in 1..n : c \in Matches(i) /\ (rec[s].at < i + n \/ rec[s].at = i + n)
      BY <2>4 DEF Ahead
    <3>2. ASSUME rec[s].at = i + n PROVE c \in Parts(R)
      <4>1. op = "gate" /\ c \in here
        BY <1>2, <1>4, <1>6, <3>1, <3>2
      <4>2. cr[c].state = WarmingUp
        BY <1>1, <1>6, <2>4, ScalerAssumption DEF Named, CrObject, States
      <4> QED
        BY <1>2, <1>6, <2>4, <4>1, <4>2 DEF Found, Parts
    <3> QED
      BY <1>2, <3>1, <3>2 DEF Ahead
  <2> QED
    BY <1>2, <2>1, <2>2, <2>3, <2>4
<1> QED
  BY <1>5, <1>6 DEF Warm, R

\* A write of a restore or of a gate keeps what its own upscale has ahead: what it still
\* holds afterwards, it waits for.
LEMMA WarmWrite ==
    ASSUME NEW docs, Undoable(docs), Reliable, WarmInv(docs), NEW s \in Schedules,
           NEW c \in CRs, NEW r, NEW x, CrStep(s, c, r, x)
    PROVE  Warm(s, rec'[s], cr') /\ Sharp(s, rec'[s], cr')
<1>1. /\ OwnInv /\ Warm(s, rec[s], cr) /\ Sharp(s, rec[s], cr) /\ rec[s] \in Pass
      /\ Mine(s, rec[s], cr, git) /\ Shape(rec[s], Selects(s)) /\ Origin(docs, c, cr[c], want[c])
  BY Zenon DEF WarmInv, OriginInv, OwnInv, ShapeInv, TypeInv, TypeOK
<1>2. /\ ~Over(rec[s]) /\ rec[s].listed /\ Turns(s, Settle(r))
      /\ \/ OpOf(rec[s]) \in {"turn", "restore", "return"} /\ c \in rec[s].todo
         \/ OpOf(rec[s]) \in {"gate", "return"} /\ c \in rec[s].done
      /\ CrAnswer(rec[s], c, r, x)
      /\ OpOf(rec[s]) = "return" \/ Shrinks(r, rec[s], c)
  BY DEF CrStep
<1>3. /\ \A t \in Schedules : x.by = t => (t = s /\ OpOf(rec[s]) = "turn") \/ cr[c].by = t
      /\ cr'[c] = x /\ \A d \in CRs \ {c} : cr'[d] = cr[d]
  BY <1>1, CrKept
<1>4. CASE rec[s].kind # "up"
  <2>1. r.kind # "up" /\ r \in Pass
    BY <1>4 DEF CrStep, Shrinks, Returns
  <2>2. Settle(r).kind # "up"
    BY <2>1, SettleIs, OnwardFields
  <2> QED
    BY <1>2, <2>2 DEF Turns, Same, Warm, Sharp
<1>5. CASE rec[s].kind = "up"
  <2>1. OpOf(rec[s]) \in {"restore", "gate"} /\ Shrinks(r, rec[s], c)
    BY <1>1, <1>2, <1>5, StepOf
  <2>2. /\ n \in Nat /\ rec[s].at \in Nat
        /\ OpOf(rec[s]) = "restore" => rec[s].at <= n
    BY <1>1, <1>2, <1>5, <2>1, UpAt
  <2>3. /\ r \in Pass /\ r.kind = "up" /\ r.at = rec[s].at /\ r.listed
        /\ (rec[s].wait => r.wait) /\ Parts(rec[s]) \subseteq Parts(r) \cup {c}
        /\ r.todo = rec[s].todo \ {c} /\ r.check \subseteq rec[s].check
        /\ r.done \subseteq rec[s].done /\ r.fresh = rec[s].fresh \ {c}
        /\ c \notin Parts(r) /\ Parts(r) \subseteq Parts(rec[s])
    BY <1>2, <1>5, <2>1 DEF Shrinks, Parts
  <2>4. \A d \in CRs : cr'[d].by = s => cr[d].by = s
    BY <1>3, <2>1
  <2>5. x.by = s => r.wait
    <3> SUFFICES ASSUME x.by = s PROVE r.wait
      OBVIOUS
    <3>1. cr[c].by = s /\ s # NoOne
      BY <1>3, <2>1, ScalerAssumption
    <3>2. CASE OpOf(rec[s]) = "gate"
      BY <1>2, <3>1, <3>2 DEF CrAnswer
    <3>3. CASE OpOf(rec[s]) = "restore"
      <4>1. c \in rec[s].fresh
        BY <1>1, <1>2, <1>5, <2>2, <3>1, <3>3 DEF Sharp, Parts
      <4>2. cr[c].state = IsDown
        BY <1>1, <1>5, <4>1 DEF Mine
      <4>3. \A o \in Originals(cr[c].doc, cr[c].saved) : o.ok
        BY <1>1, <4>2, OriginKept
      <4>4. <<"write", "restore">> \notin FaultKinds
        BY DEF Reliable
      <4>5. cr[c].state # WarmingUp
        BY <4>2 DEF IsDown, WarmingUp
      <4> QED
        BY <1>2, <3>1, <3>3, <4>1, <4>3, <4>4, <4>5 DEF CrAnswer
    <3> QED
      BY <2>1, <3>2, <3>3
  <2>6. Warm(s, r, cr')
    <3> SUFFICES ASSUME NEW d \in CRs \cap Selects(s), cr'[d].by = s
                 PROVE  /\ r.at # n + n + 1
                        /\ r.at <= n + n /\ ~r.wait =>
                             IF cr'[d].state = IsDown THEN Ahead(r, d, 0) ELSE Ahead(r, d, n)
      BY DEF Warm
    <3>1. /\ rec[s].at # n + n + 1
          /\ rec[s].at <= n + n /\ ~rec[s].wait =>
               IF cr[d].state = IsDown THEN Ahead(rec[s], d, 0) ELSE Ahead(rec[s], d, n)
      BY <1>1, <1>5, <2>4 DEF Warm
    <3>2. CASE d = c
      BY <1>3, <2>3, <2>5, <3>1, <3>2
    <3>3. CASE d # c
      <4>1. cr'[d] = cr[d] /\ (d \in Parts(rec[s]) => d \in Parts(r))
        BY <1>3, <2>3, <3>3
      <4>2. \A k : Ahead(rec[s], d, k) => Ahead(r, d, k)
        BY <1>2, <2>3, <4>1 DEF Ahead
      <4> QED
        BY <2>3, <3>1, <4>1, <4>2
    <3> QED
      BY <3>2, <3>3
  <2>7. Sharp(s, r, cr')
    <3>1. r.at <= n => \A d \in CRs \cap Parts(r) : cr'[d].by = s => d \in r.todo \cap r.fresh
      BY <1>1, <1>5, <2>3, <2>4 DEF Sharp
    <3>2. r.at <= n + n /\ r.at > n => r.todo = {} /\ (r.check = {} \/ r.done = {})
      BY <1>1, <1>5, <2>3 DEF Sharp
    <3> QED
      BY <3>1, <3>2 DEF Sharp
  <2>8. ~Over(r)
    BY <1>2, <1>5, <2>3, SamePlan
  <2>9. Warm(s, Settle(r), cr') /\ Sharp(s, Settle(r), cr') /\ Settle(r) \in Pass
    BY <2>3, <2>6, <2>7, <2>8, WarmKept, SharpKept, SettleIs
  <2>10. /\ Same(rec'[s], Settle(r))
         /\ Settle(r).todo \cap Settle(r).fresh \subseteq rec'[s].fresh
    BY <1>2 DEF Turns, Spares
  <2> QED
    BY <2>9, <2>10, WarmKept, SharpKept
<1> QED
  BY <1>4, <1>5

\* ... and those of other schedules do not concern it.
LEMMA WarmOthers ==
    ASSUME OwnInv, NEW s \in Schedules, NEW c \in CRs, NEW r, NEW x, CrStep(s, c, r, x),
           NEW t \in Schedules \ {s}, Warm(t, rec[t], cr), Sharp(t, rec[t], cr)
    PROVE  Warm(t, rec'[t], cr') /\ Sharp(t, rec'[t], cr')
<1>1. Spares(s, Settle(r)) /\ Same(rec'[t], rec[t])
  BY DEF CrStep, Turns
<1>2. rec[t] \in Pass
  BY Zenon DEF OwnInv, ShapeInv, TypeInv, TypeOK
<1>3. Warm(t, rec'[t], cr) /\ Sharp(t, rec'[t], cr)
  BY <1>1, <1>2, WarmKept, SharpSpared
<1>4. \A d \in CRs : cr'[d].by = t => cr[d] = cr'[d]
  BY CrKept
<1>5. \A d \in CRs : cr'[d].by = t => cr[d].by = t /\ cr'[d].state = cr[d].state
  BY <1>4
<1> QED
  BY <1>3, <1>5 DEF Warm, Sharp

\* A readiness check lets go of nothing: it waits, or has all that it checked to let go of.
LEMMA WarmQuiet ==
    ASSUME NEW s \in Schedules, rec[s] \in Pass, Warm(s, rec[s], cr), Sharp(s, rec[s], cr),
           NEW r, QuietStep(s, r)
    PROVE  r \in Pass /\ Warm(s, Settle(r), cr) /\ Sharp(s, Settle(r), cr)
<1>1. /\ r \in Pass /\ ~Over(rec[s]) /\ ~Over(r) /\ r.listed /\ r.kind = rec[s].kind
      /\ r.at = rec[s].at /\ (rec[s].wait => r.wait) /\ rec[s].listed
      /\ r.todo \subseteq rec[s].todo /\ r.done \subseteq rec[s].done \cup rec[s].check
      /\ OpOf(rec[s]) \in {"warm", "gate", "delete"}
      /\ OpOf(rec[s]) = "gate" =>
           /\ rec[s].check # {}
           /\ \/ r.wait /\ (r.check = {} \/ r.done \subseteq rec[s].done)
              \/ r.check = {} /\ r.done = rec[s].check
  BY SamePlan DEF QuietStep
<1>2. CASE r.kind # "up"
  BY <1>1, <1>2, SettleIs, OnwardFields DEF Warm, Sharp
<1>3. CASE r.kind = "up"
  <2>0. /\ n \in Nat /\ rec[s].at \in 1..(n + n + 3)
        /\ rec[s].at <= n => OpOf(rec[s]) = "restore"
        /\ rec[s].at <= n + n /\ rec[s].at > n => OpOf(rec[s]) = "gate"
    BY <1>1, <1>3, UpAt
  <2>1. /\ n \in Nat /\ r.at \in Nat
        /\ r.at <= n => OpOf(rec[s]) = "restore"
        /\ r.at <= n + n /\ r.at > n => OpOf(rec[s]) = "gate"
    BY <1>1, <2>0
  <2>2. r.at > n
    BY <1>1, <2>1
  <2>3. CASE r.at > n + n
    <3>1. Warm(s, r, cr)
      BY <1>1, <1>3, <2>1, <2>3 DEF Warm
    <3>2. Sharp(s, r, cr)
      BY <2>1, <2>2, <2>3 DEF Sharp
    <3> QED
      BY <1>1, <3>1, <3>2, WarmKept, SharpKept
  <2>4. CASE r.at <= n + n
    <3>1. OpOf(rec[s]) = "gate" /\ rec[s].todo = {} /\ rec[s].done = {}
      BY <1>1, <1>3, <2>1, <2>2, <2>4 DEF Sharp
    <3>2. Sharp(s, r, cr)
      BY <1>1, <2>1, <2>2, <3>1 DEF Sharp
    <3>3. CASE r.wait
      <4>1. Warm(s, r, cr)
        BY <1>1, <1>3, <3>3 DEF Warm
      <4> QED
        BY <1>1, <3>2, <4>1, WarmKept, SharpKept
    <3>4. CASE ~r.wait
      <4>1. Parts(rec[s]) \subseteq Parts(r)
        BY <1>1, <3>1, <3>4 DEF Parts
      <4>2. Warm(s, r, cr)
        BY <1>1, <4>1, WarmKept
      <4> QED
        BY <1>1, <3>2, <4>2, WarmKept, SharpKept
    <3> QED
      BY <3>3, <3>4
  <2> QED
    BY <2>1, <2>3, <2>4
<1> QED
  BY <1>2, <1>3

\* Without the failures that Reliable rules out, an upscale leaves early no step before its
\* workloads.
LEMMA WarmLeave ==
    ASSUME Reliable, NEW s \in Schedules, rec[s] \in Pass, Warm(s, rec[s], cr), NEW r,
           LeaveStep(s, r)
    PROVE  r \in Pass /\ Warm(s, Onward(r), cr) /\ Sharp(s, Onward(r), cr)
<1>1. /\ r \in Pass /\ ~Over(rec[s]) /\ r.kind = rec[s].kind /\ r.at = rec[s].at
      /\ r.listed = rec[s].listed /\ r.wait = rec[s].wait /\ Parts(r) = Parts(rec[s])
  BY DEF LeaveStep, Same, Parts, Pass
<1>2. Sharp(s, Onward(r), cr)
  BY <1>1, SharpKept
<1>3. CASE r.kind # "up"
  BY <1>1, <1>2, <1>3, OnwardFields DEF Warm
<1>4. CASE r.kind = "up"
  <2>0. /\ n \in Nat /\ rec[s].at \in 1..(n + n + 3)
        /\ rec[s].at <= n => OpOf(rec[s]) = "restore"
        /\ rec[s].at <= n + n /\ rec[s].at > n => OpOf(rec[s]) = "gate"
    BY <1>1, <1>4, UpAt
  <2>1. /\ n \in Nat /\ r.at \in Nat
        /\ r.at <= n => OpOf(rec[s]) = "restore"
        /\ r.at <= n + n /\ r.at > n => OpOf(rec[s]) = "gate"
    BY <1>1, <2>0
  <2>2. OpOf(rec[s]) \notin {"restore", "gate"}
    BY DEF LeaveStep, Reliable
  <2>3. r.at > n + n
    BY <2>1, <2>2
  <2>4. Warm(s, r, cr) /\ ~Over(r)
    BY <1>1, WarmKept, SamePlan
  <2> QED
    BY <1>1, <1>2, <2>3, <2>4, WarmKept
<1> QED
  BY <1>3, <1>4

\* An operator's write outdates no copy that an upscale is to restore.
LEMMA SharpWorld ==
    ASSUME Reliable, OwnInv, WorldStep, NEW s \in Schedules, Sharp(s, rec[s], cr)
    PROVE  Sharp(s, rec'[s], cr)
<1>1. /\ rec[s] \in Pass /\ Shape(rec[s], Selects(s))
      /\ \A t \in Schedules : Mine(t, rec[t], cr, git)
  BY Zenon DEF OwnInv, ShapeInv, TypeInv, TypeOK
<1>2. CASE rec'[s] = Idle
  BY <1>2, IdleIs, SharpKept DEF Clean, Empty
<1>3. CASE /\ Same(rec'[s], rec[s])
           /\ \A c \in rec[s].fresh \ rec'[s].fresh :
                \E t \in Schedules : /\ c \in rec[t].fresh
                                     /\ <<"conflict", OpOf(rec[t])>> \in FaultKinds
  <2>1. CASE rec[s].kind = "up" /\ rec[s].at <= n
    <3>1. ASSUME NEW c \in CRs \cap Parts(rec[s]), cr[c].by = s, c \in rec[s].fresh
          PROVE  c \in rec'[s].fresh
      <4>1. OpOf(rec[s]) = "restore"
        BY <1>1, <2>1, <3>1, UpAt DEF Shape
      <4>2. ASSUME NEW t \in Schedules, c \in rec[t].fresh PROVE t = s
        BY <1>1, <3>1, <4>2, ScalerAssumption DEF Mine
      <4> QED
        BY <1>3, <3>1, <4>1, <4>2 DEF Reliable
    <3> QED
      BY <1>3, <2>1, <3>1 DEF Sharp, Same, Parts
  <2>2. CASE ~(rec[s].kind = "up" /\ rec[s].at <= n)
    BY <1>3, <2>2 DEF Sharp, Same
  <2> QED
    BY <2>1, <2>2
<1> QED
  BY <1>2, <1>3 DEF WorldStep

\* The inductive invariant holds at first ...
LEMMA WarmInit == ASSUME NEW docs, Undoable(docs) PROVE Init => WarmInv(docs)
<1> SUFFICES ASSUME Init PROVE WarmInv(docs)
  OBVIOUS
<1>1. \A s \in Schedules : rec[s] \in Pass /\ Clean(rec[s])
  BY IdleIs DEF Init, Clean
<1>2. OriginInv(docs) /\ ReturnInv /\ Named(cr)
  BY OriginInit, ReturnInit DEF ReturnInv
<1>3. \A s \in Schedules : Warm(s, rec[s], cr) /\ Sharp(s, rec[s], cr)
  BY <1>1, <1>2, WarmKept, SharpKept DEF Clean, Empty
<1> QED
  BY <1>2, <1>3 DEF WarmInv

\* ... and every step keeps it.
LEMMA WarmStep ==
    ASSUME NEW docs, Undoable(docs), Reliable
    PROVE  WarmInv(docs) /\ [Next]_vars => WarmInv(docs)'
<1> SUFFICES ASSUME WarmInv(docs), [Next]_vars PROVE WarmInv(docs)'
  OBVIOUS
<1>1. /\ OriginInv(docs)' /\ ReturnInv /\ ReturnInv' /\ OwnInv /\ ShapeInv /\ TypeInv /\ Named(cr)
      /\ \A t \in Schedules : Warm(t, rec[t], cr) /\ Sharp(t, rec[t], cr)
  BY OriginStep, ReturnStep DEF WarmInv, OriginInv, OwnInv, ShapeInv, ReturnInv
<1>2. rec \in [Schedules -> Pass]
  BY <1>1, Zenon DEF TypeInv, TypeOK
<1>3. \A t \in Schedules : Selects(t)' = Selects(t)
  BY <1>1, SelectsKept DEF Selects
<1>4. ASSUME \A t \in Schedules : Warm(t, rec'[t], cr') /\ Sharp(t, rec'[t], cr')
      PROVE  WarmInv(docs)'
  <2>1. \A t \in Schedules : Warm(t, rec[t], cr)' /\ Sharp(t, rec[t], cr)'
    BY <1>3, <1>4 DEF Warm, Sharp, Ahead, Parts
  <2> QED
    BY <1>1, <2>1 DEF WarmInv
<1>5. ASSUME NEW s \in Schedules, NEW r \in Pass, Turns(s, r), Warm(s, r, cr), Sharp(s, r, cr),
             cr' = cr
      PROVE  WarmInv(docs)'
  <2>1. Warm(s, rec'[s], cr) /\ Sharp(s, rec'[s], cr)
    BY <1>5, WarmKept, SharpKept DEF Turns, Spares
  <2>2. ASSUME NEW t \in Schedules \ {s} PROVE Warm(t, rec'[t], cr) /\ Sharp(t, rec'[t], cr)
    BY <1>1, <1>2, <1>5, WarmKept, SharpSpared DEF Turns
  <2> QED
    BY <1>4, <1>5, <2>1, <2>2
<1>6. CASE UNCHANGED <<rec, cr>>
  BY <1>1, <1>4, <1>6
<1>7. CASE Environment
  <2>1. WorldStep
    BY <1>1, <1>7, WorldIs
  <2>2. \A c \in CRs : cr'[c].by = cr[c].by /\ cr'[c].state = cr[c].state
    BY <2>1 DEF WorldStep
  <2>3. ASSUME NEW t \in Schedules PROVE Warm(t, rec'[t], cr) /\ Sharp(t, rec'[t], cr)
    <3>1. rec'[t] \in Pass /\ (Same(rec'[t], rec[t]) \/ Clean(rec'[t]))
      BY <2>1, IdleIs DEF WorldStep
    <3> QED
      BY <1>1, <1>2, <2>1, <3>1, WarmKept, SharpWorld
  <2> QED
    BY <1>4, <2>2, <2>3 DEF Warm, Sharp
<1>8. ASSUME NEW s \in Schedules, PassStep(s) PROVE WarmInv(docs)'
  <2>0. rec[s] \in Pass /\ Warm(s, rec[s], cr) /\ Sharp(s, rec[s], cr)
    BY <1>1, <1>2
  <2>1. ASSUME NEW g \in Gits, NEW r, NEW after, GitStep(s, g, r, after) PROVE WarmInv(docs)'
    <3>1. /\ r \in Pass /\ r.kind = rec[s].kind /\ r.at = rec[s].at /\ ~Over(rec[s]) /\ ~Over(r)
          /\ r.listed = rec[s].listed /\ rec[s].listed /\ OpOf(rec[s]) \notin {"restore", "gate"}
          /\ (rec[s].wait => r.wait) /\ Parts(rec[s]) \subseteq Parts(r) \cup {g}
          /\ Turns(s, Settle(r)) /\ cr' = cr
      BY <2>1, SamePlan DEF GitStep, GitWrite, Shrinks, Parts
    <3>2. CRs \cap Parts(rec[s]) \subseteq Parts(r)
      BY <3>1, SortsDiffer
    <3>3. Warm(s, r, cr)
      BY <2>0, <3>1, <3>2, WarmKept
    <3>4. Sharp(s, r, cr)
      BY <2>0, <3>1, UpAt DEF Sharp
    <3> QED
      BY <1>5, <3>1, <3>3, <3>4, WarmKept, SharpKept, SettleIs
  <2>2. ASSUME NEW c \in CRs, NEW r, NEW x, CrStep(s, c, r, x) PROVE WarmInv(docs)'
    BY <1>1, <1>4, <2>2, WarmWrite, WarmOthers
  <2>3. ASSUME NEW w \in Workloads, NEW r, ScaleStepOf(s, w, r) PROVE WarmInv(docs)'
    <3>1. /\ r \in Pass /\ r.kind = rec[s].kind /\ r.at = rec[s].at /\ ~Over(rec[s])
          /\ r.listed = rec[s].listed /\ OpOf(rec[s]) \notin {"restore", "gate"}
          /\ (rec[s].wait => r.wait) /\ Parts(rec[s]) \subseteq Parts(r) \cup {w}
          /\ Turns(s, r) /\ cr' = cr
      BY <2>3 DEF ScaleStepOf, Shrinks, Parts
    <3>2. CRs \cap Parts(rec[s]) \subseteq Parts(r)
      BY <3>1, SortsDiffer
    <3>3. Warm(s, r, cr)
      BY <2>0, <3>1, <3>2, WarmKept
    <3>4. Sharp(s, r, cr)
      BY <2>0, <3>1, UpAt DEF Sharp
    <3> QED
      BY <1>5, <3>1, <3>3, <3>4
  <2>4. ASSUME NEW r, QuietStep(s, r) PROVE WarmInv(docs)'
    <3>1. r \in Pass /\ Warm(s, Settle(r), cr) /\ Sharp(s, Settle(r), cr)
      BY <2>0, <2>4, WarmQuiet
    <3> QED
      BY <1>5, <2>4, <3>1, SettleIs DEF QuietStep
  <2>5. ASSUME NEW r, LeaveStep(s, r) PROVE WarmInv(docs)'
    <3>1. r \in Pass /\ Warm(s, Onward(r), cr) /\ Sharp(s, Onward(r), cr)
      BY <2>0, <2>5, WarmLeave
    <3> QED
      BY <1>5, <2>5, <3>1, OnwardIs DEF LeaveStep, objects
  <2>6. CASE ListStep(s)
    <3>1. /\ Finds(s) \in Pass /\ Warm(s, Finds(s), cr) /\ Sharp(s, Finds(s), cr)
          /\ Finds(s).listed /\ Finds(s).kind = rec[s].kind /\ Finds(s).at = rec[s].at
      BY <1>1, <2>0, <2>6, WarmListed, FindsIs
    <3>2. ~Over(Finds(s)) /\ Turns(s, Settle(Finds(s))) /\ cr' = cr
      BY <2>6, <3>1, SamePlan DEF ListStep, Finds, objects
    <3> QED
      BY <1>5, <3>1, <3>2, WarmKept, SharpKept, SettleIs
  <2>7. CASE TurnStep(s)
    <3>1. Warm(s, rec'[s], cr) /\ Sharp(s, rec'[s], cr)
      BY <1>1, <2>7, WarmKept, SharpKept DEF TurnStep, Clean, Empty
    <3>2. /\ cr' = cr /\ Spares(s, rec'[s])
          /\ \A t \in Schedules \ {s} : Same(rec'[t], rec[t])
      BY <2>7 DEF TurnStep, objects
    <3>3. \A t \in Schedules \ {s} : Warm(t, rec'[t], cr) /\ Sharp(t, rec'[t], cr)
      BY <1>1, <1>2, <3>2, WarmKept, SharpSpared
    <3> QED
      BY <1>4, <3>1, <3>2, <3>3
  <2> QED
    BY <1>8, <2>1, <2>2, <2>3, <2>4, <2>5, <2>6, <2>7 DEF PassStep
<1> QED
  BY <1>1, <1>6, <1>7, <1>8, NextIs DEF vars, objects, SkipStep

\* When no List or Update of a restore and no List of a gate fails, an upscale starts no
\* workload while its schedule still holds a custom resource down or waits for one: what
\* an earlier step could not restore, or found not ready, makes it wait, and a pass that
\* waits does not come to its workloads.
THEOREM RestoredFirst ==
    ASSUME NEW docs, Undoable(docs), Reliable
    PROVE  Spec => DependenciesFirst
<1> DEFINE First == \A s \in Schedules, w \in Workloads, c \in CRs :
                       /\ rec[s].kind = "up" /\ {w, c} \subseteq Selects(s)
                       /\ obj[w].size = 0 /\ obj'[w].size > 0
                       => cr[c].by # s
<1>1. WarmInv(docs) /\ [Next]_vars => [First]_vars
  <2> SUFFICES ASSUME WarmInv(docs), Next, NEW s \in Schedules, NEW w \in Workloads, NEW c \in CRs,
                      rec[s].kind = "up", {w, c} \subseteq Selects(s),
                      obj[w].size = 0, obj'[w].size > 0
               PROVE  cr[c].by # s
    OBVIOUS
  <2>1. /\ ShapeInv /\ TypeInv /\ Warm(s, rec[s], cr)
        /\ rec \in [Schedules -> Pass] /\ obj \in [Workloads -> Workload]
        /\ \A t \in Schedules : Shape(rec[t], Selects(t))
    BY Zenon DEF WarmInv, OriginInv, OwnInv, ShapeInv, TypeInv, TypeOK
  <2>2. obj' # obj
    BY <2>1
  <2>3. ~Environment
    BY <2>1, <2>2, WorldIs DEF WorldStep
  <2>4. PICK t \in Schedules : PassStep(t)
    BY <2>1, <2>2, <2>3, NextIs DEF SkipStep, objects
  <2>5. PICK v \in Workloads : \E r : ScaleStepOf(t, v, r)
    BY <2>2, <2>4 DEF PassStep, GitStep, CrStep, QuietStep, LeaveStep, ListStep, TurnStep, objects
  <2>6. v = w
    BY <2>1, <2>5 DEF ScaleStepOf
  <2>7. ~Over(rec[t]) /\ OpOf(rec[t]) = "scale" /\ w \in rec[t].todo
    BY <2>5, <2>6 DEF ScaleStepOf
  <2>8. t = s
    BY <2>1, <2>7, OneSelects DEF Shape, Parts
  <2>9. rec[s].at = n + n + 1
    BY <2>1, <2>7, <2>8, UpAt
  <2> QED
    BY <2>1, <2>9 DEF Warm
<1> QED
  BY <1>1, WarmInit, WarmStep, PTL DEF Spec, DependenciesFirst
-----------------------------------------------------------------------------
(* The readiness gate *)

\* The operator of c publishes conditions, and an entry turns c down.
Asked(c) == Convention[c] = "conditions" /\ \E i \in 1..n : c \in Matches(i)

\* A status that has caught up with its resource and says ready is true of the pods, but
\* for a resource that is down.
Candid ==
    \A c \in CRs : /\ Asked(c) /\ cr[c].state # IsDown /\ status[c].seen /\ status[c].ready
                   => pods[c] = "ready"

\* What an upscale is to let go of has its pods ready, or its timeout has passed.
Gated(r, crs, ps) ==
    r.kind = "up" => \A c \in CRs \cap (r.check \cup r.done) :
                        Asked(c) => crs[c].since = Old \/ ps[c] = "ready"

GateInv(docs) ==
    /\ OriginInv(docs) /\ Named(cr) /\ Candid
    /\ \A s \in Schedules : Gated(rec[s], cr, pods)

\* A pass that checks no more than before, and one with nothing in hand.
LEMMA GatedKept ==
    ASSUME NEW r, NEW crs, NEW ps
    PROVE  /\ Empty(r) => Gated(r, crs, ps)
           /\ r \in Pass => Gated(Onward(r), crs, ps)
           /\ r \in Pass /\ Gated(r, crs, ps) => Gated(Settle(r), crs, ps)
           /\ \A x : Fewer(x, r) /\ Gated(r, crs, ps) => Gated(x, crs, ps)
           /\ \A x : Same(x, r) /\ Gated(r, crs, ps) => Gated(x, crs, ps)
<1>1. \A x : Empty(x) => Gated(x, crs, ps)
  BY DEF Gated, Parts, Empty
<1>2. r \in Pass => Gated(Onward(r), crs, ps)
  BY <1>1, OnwardFields DEF Empty
<1>3. r \in Pass /\ Gated(r, crs, ps) => Gated(Settle(r), crs, ps)
  BY <1>2, SettleIs
<1>4. \A x : Fewer(x, r) /\ Gated(r, crs, ps) => Gated(x, crs, ps)
  BY DEF Gated, Fewer
<1>5. \A x : Same(x, r) => Fewer(x, r)
  BY DEF Same, Fewer, Parts
<1> QED
  BY <1>1, <1>2, <1>3, <1>4, <1>5

\* A resource that is not down keeps its operator running.
LEMMA Runs ==
    ASSUME NEW docs, Telling(docs), OriginInv(docs), NEW c \in CRs, Asked(c), cr[c].state # IsDown
    PROVE  ~Halted(c)
<1>1. cr[c].doc \in docs[c]
  BY DEF OriginInv, Origin
<1>2. PICK i \in 1..n : c \in Entries[i].matches
  BY DEF Asked, Matches
<1> QED
  BY <1>1, <1>2 DEF Telling, Asked, Halted, n

\* What a List of a gate finds to check is ready, or its timeout has passed.
LEMMA GatedListed ==
    ASSUME NEW docs, GateInv(docs), NEW s \in Schedules, ListStep(s)
    PROVE  Gated(Finds(s), cr, pods)
<1> DEFINE r == [rec[s] EXCEPT !.listed = TRUE]
           op == OpOf(rec[s])
           here == Selects(s) \cap ObjsOf(rec[s])
           R == Finds(s)
<1>1. rec[s] \in Pass /\ ~Over(rec[s])
  BY Zenon DEF GateInv, OriginInv, OwnInv, ShapeInv, TypeInv, TypeOK, ListStep
<1>2. /\ op \in Ops /\ here \subseteq Sort(op)
      /\ op = "return" => rec[s].kind = "cleanup"
  BY <1>1, StepOf
<1>3. Found(s, r, op, here, R) /\ R.kind = rec[s].kind
  BY FindsIs DEF GateInv, OriginInv, OwnInv
<1> HIDE DEF r, op, here, R
<1> SUFFICES ASSUME R.kind = "up", NEW c \in CRs \cap (R.check \cup R.done), Asked(c)
             PROVE  cr[c].since = Old \/ pods[c] = "ready"
  BY DEF Gated, R
<1>4. op = "gate"
  <2>1. op \in {"warm", "gate"} /\ c \in here
    BY <1>2, <1>3 DEF Found
  <2> QED
    BY <1>2, <2>1, SortsDiffer DEF Sort
<1>5. /\ c \in R.check /\ c \in here /\ cr[c].by = s /\ cr[c].state = WarmingUp
      /\ cr[c].since = Old \/ Verdict(Convention[c], status[c].seen, status[c].ready)
  BY <1>3, <1>4 DEF Found
<1>6. cr[c].since = Old \/ (status[c].seen /\ status[c].ready)
  BY <1>5 DEF Verdict, Asked
<1> QED
  BY <1>5, <1>6 DEF GateInv, Candid, WarmingUp, IsDown

\* A restore is a new generation: its operator's old status no longer counts.
LEMMA CandidCr ==
    ASSUME NEW docs, Telling(docs), GateInv(docs), NEW s \in Schedules, NEW c \in CRs,
           NEW r, NEW x, CrStep(s, c, r, x)
    PROVE  Candid'
<1>1. /\ Captured(cr) /\ CrObject(cr[c]) /\ Origin(docs, c, cr[c], want[c]) /\ Unheld(rec[s], cr)
      /\ status \in [CRs -> [seen : BOOLEAN, ready : BOOLEAN]] /\ Candid
      /\ cr = [d \in CRs |-> cr[d]]
  BY Zenon DEF GateInv, OriginInv, OwnInv, ShapeInv, TypeInv, TypeOK
<1>2. /\ cr'[c] = x /\ \A d \in CRs \ {c} : cr'[d] = cr[d]
      /\ pods' = pods /\ Tells(c, x) /\ CrWrite(s, rec[s], c, x)
  <2>1. cr' = [cr EXCEPT ![c] = x]
    BY Zenon DEF CrStep
  <2>2. cr'[c] = x /\ \A d \in CRs \ {c} : cr'[d] = cr[d]
    BY <1>1, <2>1
  <2> QED
    BY <2>2, Zenon DEF CrStep
<1>3. /\ \A d \in CRs \ {c} : status'[d] = status[d]
      /\ status'[c].ready = status[c].ready
      /\ status'[c].seen => status[c].seen
      /\ ~SameSpec(x.doc, cr[c].doc) => x.doc = cr[c].doc \/ ~status'[c].seen
  BY <1>1, <1>2 DEF Tells, Noticed
<1>4. ASSUME cr[c].state = IsDown, x.state # IsDown, Asked(c), x.doc = cr[c].doc \/ status'[c].seen
      PROVE  FALSE
  <2>1. cr[c].saved # NoFields /\ c \notin rec[s].done
    BY <1>1, <1>4 DEF Captured, Unheld
  <2>2. x \in Restored(cr[c])
    BY <1>2, <1>4, <2>1 DEF CrWrite
  <2>3. PICK o \in Originals(cr[c].doc, cr[c].saved) : x.doc = o.doc
    <3>1. PICK o \in Originals(cr[c].doc, cr[c].saved) :
             x = IF o.ok THEN [cr[c] EXCEPT !.doc = o.doc, !.saved = NoFields,
                                            !.since = Recent, !.state = WarmingUp]
                 ELSE cr[c]
      BY <2>1, <2>2 DEF Restored
    <3> QED
      BY <1>1, <1>4, <3>1 DEF CrObject
  <2>4. PICK i \in 1..n : c \in Matches(i) /\ CapturedFrom(docs, c, cr[c], want[c], i)
    BY <1>1, <1>4 DEF Origin
  <2>5. ~SameSpec(o.doc, cr[c].doc)
    BY <1>4, <2>3, <2>4 DEF CapturedFrom, Telling, Asked, Matches, n
  <2>6. SameSpec(cr[c].doc, cr[c].doc)
    BY DEF SameSpec
  <2> QED
    BY <1>3, <1>4, <2>3, <2>5, <2>6
<1>5. ASSUME NEW d \in CRs, Asked(d), cr'[d].state # IsDown, status'[d].seen, status'[d].ready
      PROVE  pods'[d] = "ready"
  <2>1. CASE d = c
    <3>1. cr[c].state # IsDown
      BY <1>2, <1>4, <1>5, <2>1
    <3> QED
      BY <1>1, <1>2, <1>3, <1>5, <2>1, <3>1 DEF Candid
  <2>2. CASE d # c
    BY <1>1, <1>2, <1>3, <1>5, <2>2 DEF Candid
  <2> QED
    BY <2>1, <2>2
<1> QED
  BY <1>5 DEF Candid, Asked

\* Nothing in the world makes a status that is not true, stops pods that run, or turns
\* the clock back.
LEMMA WorldPods ==
    ASSUME TypeInv, Environment, NEW c \in CRs
    PROVE  /\ status'[c].seen /\ status'[c].ready =>
                \/ pods'[c] = "ready"
                \/ status[c].seen /\ status[c].ready
           /\ pods[c] = "ready" => pods'[c] = "ready" \/ Halted(c)
           /\ cr[c].since = Old => cr'[c].since = Old
<1> DEFINE Goal == /\ status'[c].seen /\ status'[c].ready =>
                        \/ pods'[c] = "ready"
                        \/ status[c].seen /\ status[c].ready
                   /\ pods[c] = "ready" => pods'[c] = "ready" \/ Halted(c)
                   /\ cr[c].since = Old => cr'[c].since = Old
<1>1. /\ cr = [d \in CRs |-> cr[d]] /\ \A d \in CRs : CrObject(cr[d])
      /\ status \in [CRs -> [seen : BOOLEAN, ready : BOOLEAN]]
      /\ pods \in [Workloads \cup CRs -> {"none", "starting", "ready"}]
  BY Zenon DEF TypeInv, TypeOK
<1>2. ASSUME NEW d \in CRs, Rewrite(d) PROVE Goal
  <2>1. PICK doc \in Documents[d] : /\ cr' = [cr EXCEPT ![d].doc = doc]
                                    /\ status' = Noticed(d, doc)
    BY <1>2 DEF Rewrite
  <2>2. pods' = pods
    BY <1>2 DEF Rewrite
  <2>3. cr'[c].since = cr[c].since
    BY <1>1, <2>1 DEF CrObject
  <2>4. (status'[c].seen => status[c].seen) /\ status'[c].ready = status[c].ready
    BY <1>1, <2>1 DEF Noticed
  <2> QED
    BY <2>2, <2>3, <2>4
<1>3. ASSUME NEW d \in CRs, Operate(d) PROVE Goal
  <2>1. UNCHANGED <<status, cr>>
    BY <1>3 DEF Operate, objects
  <2>2. pods[c] = "ready" => pods'[c] = "ready" \/ Halted(c)
    BY <1>1, <1>3 DEF Operate
  <2> QED
    BY <2>1, <2>2
<1>4. ASSUME NEW d \in CRs, Report(d) PROVE Goal
  <2>1. /\ UNCHANGED <<pods, cr>>
        /\ status' = [status EXCEPT ![d] = [seen |-> TRUE, ready |-> pods[d] = "ready"]]
    BY <1>4 DEF Report, objects
  <2>2. status'[c].ready => pods[c] = "ready" \/ (status'[c] = status[c])
    BY <1>1, <2>1
  <2> QED
    BY <2>1, <2>2
<1>5. ASSUME NEW y \in Workloads \cup CRs, BecomeReady(y) PROVE Goal
  <2>1. UNCHANGED <<status, cr>> /\ pods' = [pods EXCEPT ![y] = "ready"]
    BY <1>5 DEF BecomeReady, objects
  <2> QED
    BY <1>1, <2>1
<1>6. ASSUME NEW y \in CRs \cup Gits, Elapse(y) PROVE Goal
  <2>1. UNCHANGED <<status, pods>>
    BY <1>6 DEF Elapse, world
  <2>2. cr' = cr \/ (y \in CRs /\ cr' = [cr EXCEPT ![y].since = Old])
    BY <1>6 DEF Elapse
  <2>3. cr[c].since = Old => cr'[c].since = Old
    BY <1>1, <2>2 DEF CrObject
  <2> QED
    BY <2>1, <2>3
<1>7. CASE UNCHANGED <<status, pods, cr>>
  BY <1>7
<1> QED
  BY <1>2, <1>3, <1>4, <1>5, <1>6, <1>7 DEF Environment, Create, Delete, Flip, Freeze, Rebuild,
                                            Restart, objects, world

\* At first every status is true ...
LEMMA GateInit == ASSUME NEW docs, Undoable(docs) PROVE Init => GateInv(docs)
<1> SUFFICES ASSUME Init PROVE GateInv(docs)
  OBVIOUS
<1>1. \A s \in Schedules : Empty(rec[s])
  BY IdleIs DEF Init, Clean, Empty
<1>2. Candid
  BY DEF Init, Candid
<1>3. Named(cr)
  BY ReturnInit DEF ReturnInv
<1> QED
  BY <1>1, <1>2, <1>3, OriginInit, GatedKept DEF GateInv

\* A write of c by s leaves what every pass checks as ready as it was.
LEMMA GatedCr ==
    ASSUME NEW docs, GateInv(docs), NEW s \in Schedules, NEW c \in CRs, NEW r, NEW x,
           CrStep(s, c, r, x)
    PROVE  \A t \in Schedules : Gated(rec'[t], cr', pods')
<1>1. /\ OwnInv /\ cr = [d \in CRs |-> cr[d]]
      /\ \A t \in Schedules : Mine(t, rec[t], cr, git) /\ Gated(rec[t], cr, pods)
      /\ rec[s] \in Pass /\ ~Over(rec[s])
  BY Zenon DEF GateInv, OriginInv, OwnInv, ShapeInv, TypeInv, TypeOK, CrStep
<1>2. /\ cr' = [cr EXCEPT ![c] = x] /\ pods' = pods
      /\ Turns(s, Settle(r)) /\ (x # cr[c] => Outdated(c))
  BY Zenon DEF CrStep
<1>3. cr'[c] = x /\ \A d \in CRs \ {c} : cr'[d] = cr[d]
  BY <1>1, <1>2
<1>4. ASSUME NEW t \in Schedules \ {s} PROVE Gated(rec'[t], cr', pods')
  <2>1. Same(rec'[t], rec[t])
    BY <1>2 DEF Turns
  <2>2. Gated(rec'[t], cr, pods) /\ Mine(t, rec'[t], cr, git)
    BY <1>1, <2>1, GatedKept, MineKept
  <2>3. x = cr[c] \/ cr[c].by \in {s, NoOne}
    BY <1>1, OwnCr
  <2>4. x # cr[c] => c \notin rec'[t].check \cup rec'[t].done
    BY <2>2, <2>3, ScalerAssumption DEF Mine
  <2> QED
    BY <1>2, <1>3, <2>2, <2>4 DEF Gated
<1>5. Gated(rec'[s], cr', pods')
  <2>1. r \in Pass /\ Same(rec'[s], Settle(r))
    BY <1>2 DEF CrStep, Shrinks, Returns, Turns
  <2>2. CASE Shrinks(r, rec[s], c)
    <3>1. Fewer(r, rec[s]) /\ c \notin r.check \cup r.done
      BY <2>2 DEF Shrinks, Fewer, Parts
    <3>2. Gated(r, cr, pods)
      BY <1>1, <3>1, GatedKept
    <3>3. Gated(r, cr', pods')
      BY <1>2, <1>3, <3>1, <3>2 DEF Gated
    <3> QED
      BY <2>1, <3>3, GatedKept
  <2>3. CASE OpOf(rec[s]) = "return" /\ Returns(r, rec[s], c)
    <3>1. r.kind = "cleanup"
      BY <1>1, <2>3, StepOf DEF Returns
    <3>2. Gated(r, cr', pods')
      BY <3>1 DEF Gated
    <3> QED
      BY <2>1, <3>2, GatedKept
  <2> QED
    BY <2>2, <2>3 DEF CrStep
<1> QED
  BY <1>4, <1>5

\* ... every step keeps it so ...
LEMMA GateStep ==
    ASSUME NEW docs, Undoable(docs), Telling(docs)
    PROVE  GateInv(docs) /\ [Next]_vars => GateInv(docs)'
<1> SUFFICES ASSUME GateInv(docs), [Next]_vars PROVE GateInv(docs)'
  OBVIOUS
<1>1. /\ OriginInv(docs) /\ OriginInv(docs)' /\ TypeInv /\ Named(cr) /\ Candid
      /\ \A t \in Schedules : Gated(rec[t], cr, pods) /\ Unheld(rec[t], cr)
  BY OriginStep DEF GateInv, OriginInv, OwnInv, ShapeInv
<1>2. rec \in [Schedules -> Pass]
  BY <1>1, Zenon DEF TypeInv, TypeOK
<1>3. ASSUME Named(cr'), Candid', \A t \in Schedules : Gated(rec'[t], cr', pods')
      PROVE  GateInv(docs)'
  BY <1>1, <1>3 DEF GateInv, Named, Gated, Asked
<1>4. ASSUME UNCHANGED <<cr, status>>, \A c \in CRs : pods'[c] = pods[c],
             \A t \in Schedules : Gated(rec'[t], cr, pods)
      PROVE  GateInv(docs)'
  <2>1. Candid'
    BY <1>1, <1>4 DEF Candid, Asked
  <2>2. \A t \in Schedules : Gated(rec'[t], cr', pods')
    BY <1>4 DEF Gated
  <2> QED
    BY <1>1, <1>3, <1>4, <2>1, <2>2
<1>5. ASSUME NEW s \in Schedules, NEW r, Turns(s, r), Gated(r, cr, pods),
             UNCHANGED <<cr, status>>, \A c \in CRs : pods'[c] = pods[c]
      PROVE  GateInv(docs)'
  BY <1>1, <1>4, <1>5, GatedKept DEF Turns
<1>6. CASE UNCHANGED <<rec, cr, world>>
  BY <1>1, <1>4, <1>6 DEF world
<1>7. CASE Environment
  <2>1. WorldStep
    BY <1>1, <1>7, WorldIs
  <2>2. \A c \in CRs : cr'[c].by = cr[c].by /\ cr'[c].state = cr[c].state
    BY <2>1 DEF WorldStep
  <2>3. Named(cr')
    BY <1>1, <2>2 DEF Named
  <2>4. \A c \in CRs : Asked(c) /\ cr[c].state # IsDown => ~Halted(c)
    BY <1>1, Runs
  <2>5. Candid'
    BY <1>1, <1>7, <2>2, <2>4, WorldPods DEF Candid, Asked
  <2>6. \A t \in Schedules : Same(rec'[t], rec[t]) \/ Empty(rec'[t])
    BY <2>1, IdleIs DEF WorldStep, Clean, Empty
  <2>7. \A t \in Schedules : Gated(rec'[t], cr, pods) /\ Unheld(rec'[t], cr)
    BY <1>1, <2>6, GatedKept, UnheldKept
  <2>8. \A t \in Schedules : Gated(rec'[t], cr', pods')
    BY <1>1, <1>7, <2>4, <2>7, WorldPods DEF Gated, Unheld
  <2> QED
    BY <1>3, <2>3, <2>5, <2>8
<1>8. ASSUME NEW s \in Schedules, PassStep(s) PROVE GateInv(docs)'
  <2>0. rec[s] \in Pass /\ Gated(rec[s], cr, pods)
    BY <1>1, <1>2
  <2>1. ASSUME NEW g \in Gits, NEW r, NEW after, GitStep(s, g, r, after) PROVE GateInv(docs)'
    <3>1. /\ r \in Pass /\ Fewer(r, rec[s]) /\ Turns(s, Settle(r))
          /\ UNCHANGED <<cr, status>> /\ pods' = pods
      BY <2>1 DEF GitStep, Shrinks, Fewer, Parts, world
    <3>2. Gated(Settle(r), cr, pods)
      BY <2>0, <3>1, GatedKept
    <3> QED
      BY <1>5, <3>1, <3>2
  <2>2. ASSUME NEW c \in CRs, NEW r, NEW x, CrStep(s, c, r, x) PROVE GateInv(docs)'
    <3>1. OwnInv
      BY <1>1 DEF OriginInv
    <3> QED
      BY <1>1, <1>3, <2>2, <3>1, NamedCr, CandidCr, GatedCr
  <2>3. ASSUME NEW w \in Workloads, NEW r, ScaleStepOf(s, w, r) PROVE GateInv(docs)'
    <3>1. /\ Fewer(r, rec[s]) /\ Turns(s, r) /\ UNCHANGED <<cr, status>>
          /\ \A c \in CRs : pods'[c] = pods[c]
      BY <2>3 DEF ScaleStepOf, Shrinks, Fewer, Parts
    <3>2. Gated(r, cr, pods)
      BY <2>0, <3>1, GatedKept
    <3> QED
      BY <1>5, <3>1, <3>2
  <2>4. ASSUME NEW r, QuietStep(s, r) PROVE GateInv(docs)'
    <3>1. /\ r \in Pass /\ Fewer(r, rec[s]) /\ Turns(s, Settle(r))
          /\ UNCHANGED <<cr, status>> /\ pods' = pods
      BY <2>4 DEF QuietStep, Fewer, Parts, world
    <3>2. Gated(Settle(r), cr, pods)
      BY <2>0, <3>1, GatedKept
    <3> QED
      BY <1>5, <3>1, <3>2
  <2>5. ASSUME NEW r, LeaveStep(s, r) PROVE GateInv(docs)'
    <3>1. /\ r \in Pass /\ Turns(s, Onward(r)) /\ UNCHANGED <<cr, status>> /\ pods' = pods
      BY <2>5 DEF LeaveStep, Same, objects, world
    <3> QED
      BY <1>5, <3>1, GatedKept
  <2>6. CASE ListStep(s)
    <3>1. /\ Finds(s) \in Pass /\ Turns(s, Settle(Finds(s)))
          /\ UNCHANGED <<cr, status>> /\ pods' = pods
      BY <1>1, <2>6, FindsIs DEF OriginInv, OwnInv, ListStep, Finds, objects, world
    <3>2. Gated(Settle(Finds(s)), cr, pods)
      BY <2>6, <3>1, GatedListed, GatedKept
    <3> QED
      BY <1>5, <3>1, <3>2
  <2>7. CASE TurnStep(s)
    <3>1. \A t \in Schedules : Gated(rec'[t], cr, pods)
      BY <1>1, <2>7, GatedKept DEF TurnStep, Clean, Empty
    <3> QED
      BY <1>4, <2>7, <3>1 DEF TurnStep, objects, world
  <2> QED
    BY <1>8, <2>1, <2>2, <2>3, <2>4, <2>5, <2>6, <2>7 DEF PassStep
<1> QED
  BY <1>1, <1>6, <1>7, <1>8, NextIs DEF vars, objects, SkipStep

\* A custom resource leaves its warmup before the timeout only when its pods are ready,
\* also while its status still tells of the time before the downscale: an upscale lets
\* go of what a List found ready, the status it then read was written for the restored
\* resource, and a resource that is up keeps its pods.
THEOREM GatesAreHonest ==
    ASSUME NEW docs, Undoable(docs), Telling(docs)
    PROVE  Spec => GateHonest
<1> DEFINE Honest == \A c \in CRs :
                        /\ cr[c].state = WarmingUp /\ cr'[c].state = NoState /\ cr[c].since = Recent
                        /\ Convention[c] = "conditions" /\ rec[cr[c].by].kind = "up"
                        => pods[c] = "ready"
<1>1. GateInv(docs) /\ [Next]_vars => [Honest]_vars
  <2> SUFFICES ASSUME GateInv(docs), Next, NEW c \in CRs,
                      cr[c].state = WarmingUp, cr'[c].state = NoState, cr[c].since = Recent,
                      Convention[c] = "conditions", rec[cr[c].by].kind = "up"
               PROVE  pods[c] = "ready"
    OBVIOUS
  <2>1. /\ OwnInv /\ TypeInv /\ Named(cr) /\ rec \in [Schedules -> Pass]
        /\ cr[c].by \in Owners
        /\ \A t \in Schedules : Mine(t, rec[t], cr, git) /\ Gated(rec[t], cr, pods)
    BY Zenon DEF GateInv, OriginInv, OwnInv, ShapeInv, TypeInv, TypeOK
  <2>2. cr[c].by \in Schedules /\ Asked(c)
    BY <2>1 DEF Named, Asked, Owners, WarmingUp, NoState
  <2>3. WarmingUp # NoState /\ WarmingUp # IsDown /\ Recent # Old
    BY DEF WarmingUp, NoState, IsDown, Recent, Old
  <2>4. ~Environment
    BY <2>1, <2>3, WorldIs DEF WorldStep
  <2>5. cr' # cr
    BY <2>3
  <2>6. PICK s \in Schedules : PassStep(s)
    BY <2>1, <2>4, <2>5, NextIs DEF SkipStep, objects
  <2>7. PICK d \in CRs : \E r, x : CrStep(s, d, r, x)
    BY <2>5, <2>6 DEF PassStep, GitStep, ScaleStepOf, QuietStep, LeaveStep, ListStep, TurnStep,
                      objects
  <2>8. PICK r, x : CrStep(s, d, r, x)
    BY <2>7
  <2>9. d = c /\ x.state = NoState /\ cr'[c] = x
    BY <2>1, <2>3, <2>8, CrKept
  <2>10. cr[c].by = s
    BY <2>1, <2>2, <2>3, <2>8, <2>9, OwnCr, ScalerAssumption
  <2>11. rec[s].kind = "up" /\ rec[s] \in Pass /\ ~Over(rec[s])
    BY <2>1, <2>8, <2>10 DEF CrStep
  <2>12. OpOf(rec[s]) \notin {"turn", "return"}
    BY <2>11, StepOf
  <2>13. ~(OpOf(rec[s]) = "restore" /\ c \in rec[s].fresh)
    BY <2>1, <2>3, <2>11 DEF Mine
  <2>14. c \in rec[s].done
    BY <2>3, <2>8, <2>9, <2>12, <2>13 DEF CrStep, CrWrite
  <2> QED
    BY <2>1, <2>2, <2>3, <2>11, <2>14 DEF Gated
<1> QED
  BY <1>1, GateInit, GateStep, PTL DEF Spec, GateHonest

-----------------------------------------------------------------------------
(* Paused before what it makes its operator rebuild is deleted *)

\* Who holds a custom resource selects it.
Owned(crs) == \A c \in CRs, t \in Schedules : crs[c].by = t => c \in Selects(t)

\* The entry j of c is still to come, or is about to turn the latest copy of c down.
Awaits(r, c, j) ==
    r.at < j + 2 \/ (r.at = j + 2 /\ (r.listed => c \in r.todo \cap r.fresh))

\* What a downscale has not turned down of what its schedule alone selects it comes to.
Pauses(s, r, crs) ==
    r.kind = "down" =>
       \A c \in CRs, j \in 1..n :
          Alone(s, c) /\ c \in Matches(j) /\ crs[c].state # IsDown => Awaits(r, c, j)

PauseInv(docs) ==
    /\ OriginInv(docs) /\ Owned(cr)
    /\ \A s \in Schedules : rec[s].fresh \subseteq Selects(s)
    /\ faults = 0 => \A s \in Schedules : Pauses(s, rec[s], cr)

\* A call that fails is counted.
LEMMA Counted ==
    ASSUME TypeInv, NEW call, NEW op, Fails(call, op)
    PROVE  faults' # 0
<1>1. faults \in 0..MaxFaults
  BY Zenon DEF TypeInv, TypeOK
<1>2. faults' = faults + 1 /\ MaxFaults \in Nat
  BY IntegrationsAssumption DEF Fails
<1> QED
  BY <1>1, <1>2

\* No step takes a failure back.
LEMMA NeverUncounted ==
    ASSUME TypeInv, Next, faults' = 0
    PROVE  faults = 0
<1> DEFINE F == \E call, op : Fails(call, op)
<1>1. ~F
  BY Counted
<1> SUFFICES F \/ UNCHANGED faults
  BY <1>1
<1>2. ASSUME NEW s \in Schedules, SkipReconcile(s) \/ EndScale(s) \/ EndBatch(s)
      PROVE  UNCHANGED faults
  BY <1>2 DEF SkipReconcile, EndScale, EndBatch
<1>3. ASSUME NEW s \in Schedules, List(s) \/ CheckGate(s) PROVE F \/ UNCHANGED faults
  BY <1>3, Zenon DEF List, CheckGate
<1>4. ASSUME NEW s \in Schedules, EndPass(s) \/ EndCleanup(s) PROVE F \/ UNCHANGED faults
  BY <1>4, Zenon DEF EndPass, EndCleanup
<1>5. ASSUME NEW s, NEW g, NEW after, NEW waits, WritesGit(s, g, after, waits)
      PROVE  F \/ UNCHANGED faults
  BY <1>5, Zenon DEF WritesGit
<1>6. ASSUME NEW s \in Schedules, NEW g \in Gits,
             HoldGit(s, g) \/ WarmGit(s, g) \/ CompleteGit(s, g) \/ ReleaseGit(s, g)
      PROVE  F \/ UNCHANGED faults
  BY <1>5, <1>6, Zenon DEF HoldGit, WarmGit, CompleteGit, ReleaseGit
<1>7. ASSUME NEW s \in Schedules, NEW g \in Gits, CheckGit(s, g) PROVE F \/ UNCHANGED faults
  BY <1>7, Zenon DEF CheckGit
<1>8. ASSUME NEW s, NEW c, NEW outcomes, NEW good, NEW bad, UpdatesCR(s, c, outcomes, good, bad)
      PROVE  F \/ UNCHANGED faults
  BY <1>8, Zenon DEF UpdatesCR
<1>9. ASSUME NEW s, NEW c, NEW bad, ClearsCR(s, c, bad) PROVE F \/ UNCHANGED faults
  BY <1>9, Zenon DEF ClearsCR
<1>10. ASSUME NEW s \in Schedules, NEW c \in CRs,
              TurnDownCR(s, c) \/ RestoreCR(s, c) \/ ClearCR(s, c) \/ ReturnCR(s, c)
       PROVE  F \/ UNCHANGED faults
  BY <1>8, <1>9, <1>10, Zenon DEF TurnDownCR, RestoreCR, ClearCR, ReturnCR
<1>11. ASSUME NEW s \in Schedules, NEW d \in Rebuilt, DeleteCR(s, d) PROVE F \/ UNCHANGED faults
  BY <1>11, Zenon DEF DeleteCR
<1>12. ASSUME NEW s \in Schedules, NEW w \in Workloads, Scale(s, w) PROVE F \/ UNCHANGED faults
  BY <1>12, Zenon DEF Scale
<1>13. CASE Environment
  BY <1>13, Zenon DEF Environment, Create, Delete, Flip, Rewrite, Operate, Report, Freeze,
                      BecomeReady, Rebuild, Elapse, Restart
<1>14. ASSUME NEW s \in Schedules, BeginPass(s) \/ BeginCleanup(s) PROVE F \/ UNCHANGED faults
  BY <1>14, Zenon DEF BeginPass, BeginCleanup
<1> HIDE DEF F
<1> QED
  BY <1>2, <1>3, <1>4, <1>6, <1>7, <1>10, <1>11, <1>12, <1>13, <1>14,
     Zenon DEF Next, Reconcile

\* Without a failure the world outdates no copy, and the process does not stop.
LEMMA CalmWorld ==
    ASSUME TypeInv, Environment, faults' = 0, NEW t \in Schedules
    PROVE  Same(rec'[t], rec[t]) /\ rec'[t].fresh = rec[t].fresh
<1>1. rec \in [Schedules -> Pass]
  BY Zenon DEF TypeInv, TypeOK
<1>2. CASE rec' = rec
  BY <1>2, SameRec
<1>3. ASSUME NEW c \in CRs, Report(c) PROVE Same(rec'[t], rec[t]) /\ rec'[t].fresh = rec[t].fresh
  <2>1. \A s \in Schedules : c \notin rec[s].fresh
    BY <1>3, Counted DEF Report
  <2>2. rec'[t] = [rec[t] EXCEPT !.fresh = rec[t].fresh \ {c}]
    BY <1>3 DEF Report
  <2>3. rec'[t].fresh = rec[t].fresh
    BY <1>1, <2>1, <2>2 DEF Pass
  <2> QED
    BY <1>1, <2>2, <2>3 DEF Pass, Same
<1>4. ~Restart
  BY Counted DEF Restart
<1> QED
  BY <1>2, <1>3, <1>4 DEF Environment, Create, Delete, Flip, Rewrite, Operate, Freeze, BecomeReady,
                          Rebuild, Elapse

\* A downscale goes from each step to the next, until it begins anew.
LEMMA DownMoves ==
    ASSUME ShapeInv, NEW s \in Schedules, PassStep(s), rec[s].kind = "down"
    PROVE  \/ rec'[s].at = 1
           \/ /\ rec'[s].kind = "down"
              /\ rec'[s].at = rec[s].at \/ (rec'[s].at = rec[s].at + 1 /\ ~rec'[s].listed)
<1>1. rec[s] \in Pass
  BY Zenon DEF ShapeInv, TypeInv, TypeOK
<1> DEFINE P(r) == /\ r.kind = "down"
                   /\ r.at = rec[s].at \/ (r.at = rec[s].at + 1 /\ ~r.listed)
<1>2. ASSUME NEW r \in Pass, r.kind = "down", r.at = rec[s].at, ~Over(rec[s])
      PROVE  P(r) /\ P(Onward(r)) /\ P(Settle(r))
  <2>1. ~Over(r)
    BY <1>2, SamePlan
  <2>2. Onward(r).kind = "down" /\ Onward(r).at = r.at + 1 /\ ~Onward(r).listed
    BY <1>2, <2>1, OnwardFields, NextAtIs
  <2>3. Settle(r) \in {r, Onward(r)}
    BY <1>2, SettleIs
  <2> QED
    BY <1>2, <2>2, <2>3
<1>3. ASSUME NEW r, P(r), Same(rec'[s], r) PROVE P(rec'[s])
  BY <1>3 DEF Same
<1> HIDE DEF P
<1>4. ASSUME NEW r \in Pass, r.kind = "down", r.at = rec[s].at, ~Over(rec[s]),
             Turns(s, r) \/ Turns(s, Settle(r)) \/ Turns(s, Onward(r))
      PROVE  P(rec'[s])
  BY <1>2, <1>3, <1>4 DEF Turns
<1>5. ASSUME NEW g \in Gits, NEW r, NEW after, GitStep(s, g, r, after) PROVE P(rec'[s])
  BY <1>4, <1>5 DEF GitStep, Shrinks
<1>6. ASSUME NEW c \in CRs, NEW r, NEW x, CrStep(s, c, r, x) PROVE P(rec'[s])
  BY <1>4, <1>6 DEF CrStep, Shrinks, Returns
<1>7. ASSUME NEW w \in Workloads, NEW r, ScaleStepOf(s, w, r) PROVE P(rec'[s])
  BY <1>4, <1>7 DEF ScaleStepOf, Shrinks
<1>8. ASSUME NEW r, QuietStep(s, r) PROVE P(rec'[s])
  BY <1>4, <1>8 DEF QuietStep
<1>9. ASSUME NEW r, LeaveStep(s, r) PROVE P(rec'[s])
  <2>1. r \in Pass /\ r.kind = rec[s].kind /\ r.at = rec[s].at
    BY <1>1, <1>9 DEF LeaveStep, Same, Pass
  <2> QED
    BY <1>4, <1>9, <2>1 DEF LeaveStep
<1>10. CASE ListStep(s)
  <2>1. Finds(s) \in Pass /\ Finds(s).kind = rec[s].kind /\ Finds(s).at = rec[s].at
    BY <1>10, FindsIs
  <2>2. Turns(s, Settle(Finds(s))) /\ ~Over(rec[s])
    BY <1>10 DEF ListStep, Finds
  <2> QED
    BY <1>4, <2>1, <2>2 DEF P
<1>11. CASE TurnStep(s)
  BY <1>11 DEF TurnStep, Clean
<1> QED
  BY <1>5, <1>6, <1>7, <1>8, <1>9, <1>10, <1>11 DEF PassStep, P

\* The step of a downscale that is at its entry j, and what it is about.
LEMMA TurnAt ==
    ASSUME NEW r \in Pass, r.kind = "down", NEW j \in 1..n, r.at = j + 2
    PROVE  /\ ~Over(r) /\ OpOf(r) = IF Entries[j].delete THEN "delete" ELSE "turn"
           /\ ObjsOf(r) = Entries[j].matches
           /\ Plan(r)[r.at].entry = j
<1>1. n \in Nat /\ Plan(r) = DownPlan /\ Len(DownPlan) = n + 3 /\ LenOf("down") = n + 3
  BY DownPlanIs, IntegrationsAssumption DEF Plan, n, LenOf
<1>2. Follow(Plan(r), "down") /\ r.at \in 1..LenOf("down")
  BY <1>1, PlanIs
<1>3. OpOf(r) = OpAt("down", r.at) /\ ObjsOf(r) = ObjsAt("down", r.at)
  BY <1>2 DEF Follow, OpOf, ObjsOf
<1>4. r.at - 2 = j /\ ~(r.at <= 2) /\ ~(r.at > n + 2) /\ r.at # 1 /\ r.at # 2
  BY <1>1
<1>5. /\ OpAt("down", r.at) = IF Entries[j].delete THEN "delete" ELSE "turn"
      /\ ObjsAt("down", r.at) = Entries[j].matches
  BY <1>4 DEF OpAt, ObjsAt
<1>6. Plan(r)[r.at] = TurnSteps[j]
  BY <1>1, DownPlanIs
<1>7. TurnSteps[j].entry = j
  BY DEF TurnSteps, Step, n
<1> QED
  BY <1>1, <1>2, <1>3, <1>5, <1>6, <1>7 DEF Over

\* Without a failure, a downscale that is to turn resources down lists them and turns
\* them down.
LEMMA CalmTurn ==
    ASSUME TypeInv, NEW s \in Schedules, Reconcile(s), faults' = 0, ~Over(rec[s]),
           OpOf(rec[s]) = "turn"
    PROVE  ListStep(s) \/ \E c \in CRs : TurnDownCR(s, c)
<1>1. rec[s] \in Pass /\ OpOf(rec[s]) = Current(s).op
  BY Zenon DEF TypeInv, TypeOK, OpOf, Current
<1>2. rec[s].kind = "down"
  BY <1>1, StepOf
<1>3. ~At(s, "hold") /\ ~At(s, "warm") /\ ~At(s, "release") /\ ~At(s, "delete") /\ ~At(s, "restore")
      /\ ~At(s, "gate") /\ ~At(s, "return") /\ ~At(s, "scale")
  BY <1>1 DEF At
<1>4. List(s) \/ \E c \in CRs : TurnDownCR(s, c)
  <2>1. ~SkipReconcile(s) /\ ~BeginPass(s) /\ ~BeginCleanup(s)
    BY <1>2 DEF SkipReconcile, BeginPass, BeginCleanup, Takes
  <2>2. ~EndPass(s) /\ ~EndCleanup(s)
    BY DEF EndPass, EndCleanup
  <2>3. ~CheckGate(s) /\ ~EndScale(s) /\ ~EndBatch(s)
    BY <1>3, Zenon DEF CheckGate, EndScale, EndBatch
  <2>4. \A g \in Gits : ~HoldGit(s, g) /\ ~WarmGit(s, g) /\ ~CheckGit(s, g) /\ ~CompleteGit(s, g)
                        /\ ~ReleaseGit(s, g)
    BY <1>3, Zenon DEF HoldGit, WarmGit, CheckGit, CompleteGit, ReleaseGit
  <2>5. \A c \in CRs : ~RestoreCR(s, c) /\ ~ClearCR(s, c) /\ ~ReturnCR(s, c)
    BY <1>3, Zenon DEF RestoreCR, ClearCR, ReturnCR
  <2>6. (\A d \in Rebuilt : ~DeleteCR(s, d)) /\ \A w \in Workloads : ~Scale(s, w)
    BY <1>3, Zenon DEF DeleteCR, Scale
  <2> QED
    BY <2>1, <2>2, <2>3, <2>4, <2>5, <2>6, Zenon DEF Reconcile
<1>5. ASSUME List(s) PROVE ListStep(s)
  <2> DEFINE here == Selects(s) \cap ObjsOf(rec[s])
             r == [rec[s] EXCEPT !.listed = TRUE]
  <2>1. Goes(s, Settle(Listed(s, r, OpOf(rec[s]), here))) /\ UNCHANGED <<queued, faults>>
    BY <1>1, <1>5, Counted, Zenon DEF List, Current, ObjsOf
  <2>2. /\ rec[s].kind # "idle" /\ ~rec[s].listed /\ UNCHANGED <<sched, objects, world, users>>
    BY <1>5 DEF List
  <2>3. r \in Pass
    BY <1>1 DEF Pass
  <2>4. OpOf(rec[s]) \in Ops /\ here \subseteq Sort(OpOf(rec[s]))
    BY <1>1, StepOf
  <2> HIDE DEF here, r
  <2>5. Listed(s, r, OpOf(rec[s]), here) \in Pass
    BY <2>3, <2>4, ListedOK
  <2>6. Turns(s, Settle(Listed(s, r, OpOf(rec[s]), here)))
    BY <2>1, <2>5, SettleIs, GoesIs
  <2> QED
    BY <2>1, <2>2, <2>6 DEF ListStep, here, r
<1> QED
  BY <1>4, <1>5

\* Without a failure, an Update on the latest copy turns the resource down.
LEMMA CalmUpdate ==
    ASSUME TypeInv, NEW s \in Schedules, NEW c \in CRs, TurnDownCR(s, c), faults' = 0
    PROVE  /\ Turns(s, Settle(Drop(rec[s], c)))
           /\ c \in rec[s].fresh =>
                cr'[c] = TurnDown(cr[c], Entries[Current(s).entry].fields, s)
<1> DEFINE d == Settle(Drop(rec[s], c))
           off == TurnDown(cr[c], Entries[Current(s).entry].fields, s)
<1>1. /\ rec[s] \in Pass /\ cr = [x \in CRs |-> cr[x]]
  BY Zenon DEF TypeInv, TypeOK
<1>2. d \in Pass /\ c \notin d.todo
  BY <1>1, DropShrinks, ShrunkIs
<1>3. UpdatesCR(s, c, {off}, [x \in {off} |-> d], d)
  BY DEF TurnDownCR
<1> HIDE DEF d, off
<1>4. CASE c \in rec[s].fresh
  <2>1. PICK x \in {off} : IF x = cr[c] THEN Goes(s, d) /\ UNCHANGED cr
                           ELSE cr' = [cr EXCEPT ![c] = x] /\ GoesPast(s, c, d)
    BY <1>3, <1>4, Counted DEF UpdatesCR
  <2>2. cr'[c] = off
    BY <1>1, <2>1
  <2>3. Turns(s, d)
    BY <1>2, <1>4, <2>1, GoesIs, GoesPastIs
  <2> QED
    BY <2>2, <2>3 DEF d, off
<1>5. CASE c \notin rec[s].fresh
  <2>1. Goes(s, d)
    BY <1>3, <1>5 DEF UpdatesCR
  <2>2. Turns(s, d)
    BY <1>2, <2>1, GoesIs
  <2> QED
    BY <1>5, <2>2 DEF d
<1> QED
  BY <1>4, <1>5

\* Nothing was turned down at first ...
LEMMA PauseInit == ASSUME NEW docs, Undoable(docs) PROVE Init => PauseInv(docs)
<1> SUFFICES ASSUME Init PROVE PauseInv(docs)
  OBVIOUS
<1>1. \A c \in CRs : cr[c].by = NoOne
  BY DEF Init, Untouched
<1>2. \A s \in Schedules : rec[s].kind = "idle" /\ rec[s].fresh = {}
  BY IdleIs DEF Init, Clean
<1>3. Owned(cr)
  BY <1>1, ScalerAssumption DEF Owned
<1> QED
  BY <1>2, <1>3, OriginInit DEF PauseInv, Pauses

\* A step of s takes what it gives an owner from what s selects, and outdates nothing that
\* another schedule alone selects.
LEMMA OwnedPass ==
    ASSUME NEW docs, PauseInv(docs), NEW s \in Schedules, PassStep(s)
    PROVE  /\ \A c \in CRs : cr'[c] = cr[c] \/ c \in Selects(s)
           /\ Owned(cr')
           /\ \A t \in Schedules : rec'[t].fresh \subseteq Selects(t)
<1>1. /\ OwnInv /\ TypeInv /\ ShapeInv /\ Owned(cr) /\ cr = [c \in CRs |-> cr[c]]
      /\ rec[s] \in Pass /\ Shape(rec[s], Selects(s))
      /\ \A t \in Schedules : rec[t].fresh \subseteq Selects(t)
  BY Zenon DEF PauseInv, OriginInv, OwnInv, ShapeInv, TypeInv, TypeOK
<1>2. (\A c \in CRs : cr'[c] = cr[c] \/ c \in Selects(s)) /\ Owned(cr')
  <2>1. ASSUME NEW c \in CRs, NEW r, NEW x, CrStep(s, c, r, x)
        PROVE  (\A d \in CRs : cr'[d] = cr[d] \/ d \in Selects(s)) /\ Owned(cr')
    <3>1. c \in Selects(s)
      BY <1>1, <2>1 DEF CrStep, Shape, Parts
    <3>2. /\ cr'[c] = x /\ \A d \in CRs \ {c} : cr'[d] = cr[d]
          /\ \A t \in Schedules : x.by = t => t = s \/ cr[c].by = t
      BY <1>1, <2>1, CrKept
    <3> QED
      BY <1>1, <3>1, <3>2 DEF Owned
  <2>2. CASE UNCHANGED cr
    BY <1>1, <2>2 DEF Owned
  <2> QED
    BY <2>1, <2>2 DEF PassStep, GitStep, ScaleStepOf, QuietStep, LeaveStep, ListStep, TurnStep, objects
<1>3. ASSUME NEW t \in Schedules PROVE rec'[t].fresh \subseteq Selects(t)
  <2>1. Advances(s, t)
    BY <1>1, PassMoves
  <2>2. ListStep(s) => Finds(s).fresh \subseteq Selects(s)
    <3> SUFFICES ASSUME ListStep(s) PROVE Finds(s).fresh \subseteq Selects(s)
      OBVIOUS
    <3>1. Found(s, [rec[s] EXCEPT !.listed = TRUE], OpOf(rec[s]), Selects(s) \cap ObjsOf(rec[s]), Finds(s))
      BY <1>1, FindsIs
    <3>2. Finds(s).fresh \subseteq Finds(s).todo /\ Finds(s).todo \subseteq Selects(s)
      BY <3>1 DEF Found
    <3> QED
      BY <3>2
  <2> QED
    BY <1>1, <2>1, <2>2 DEF Advances, Less, Empty
<1> QED
  BY <1>2, <1>3

\* A step of another schedule disturbs no downscale.
LEMMA PausesSpared ==
    ASSUME NEW docs, PauseInv(docs), NEW s \in Schedules, PassStep(s), NEW t \in Schedules \ {s},
           Pauses(t, rec[t], cr)
    PROVE  Pauses(t, rec'[t], cr')
<1>1. /\ TypeInv /\ rec[s] \in Pass /\ rec[t] \in Pass /\ Shape(rec[s], Selects(s))
      /\ rec[s].fresh \subseteq Selects(s)
  BY Zenon DEF PauseInv, OriginInv, OwnInv, ShapeInv, TypeInv, TypeOK
<1>2. \A c \in CRs : cr'[c] = cr[c] \/ c \in Selects(s)
  BY OwnedPass
<1>3. /\ Same(rec'[t], rec[t])
      /\ rec[t].fresh \subseteq rec'[t].fresh \cup rec[s].fresh \cup rec[s].done
  BY DEF PassStep, GitStep, CrStep, ScaleStepOf, QuietStep, LeaveStep, ListStep, TurnStep, Turns, Spares
<1>4. rec[s].done \subseteq Selects(s)
  BY <1>1 DEF Shape, Parts
<1>5. \A c \in CRs : Alone(t, c) => cr'[c] = cr[c] /\ (c \in rec[t].fresh => c \in rec'[t].fresh)
  BY <1>1, <1>2, <1>3, <1>4 DEF Alone
<1>6. rec'[t].kind = rec[t].kind /\ rec'[t].at = rec[t].at /\ rec'[t].listed = rec[t].listed
      /\ rec'[t].todo = rec[t].todo
  BY <1>3 DEF Same
<1> QED
  BY <1>5, <1>6 DEF Pauses, Awaits

\* In a downscale, what is down stays down.
LEMMA DownStays ==
    ASSUME OwnInv, NEW s \in Schedules, PassStep(s), rec[s].kind = "down", NEW c \in CRs,
           cr[c].state = IsDown
    PROVE  cr'[c].state = IsDown
<1>1. rec[s] \in Pass
  BY Zenon DEF OwnInv, ShapeInv, TypeInv, TypeOK
<1>2. ASSUME NEW d \in CRs, NEW r, NEW x, CrStep(s, d, r, x) PROVE cr'[c].state = IsDown
  <2>1. cr'[d] = x /\ \A e \in CRs \ {d} : cr'[e] = cr[e]
    BY <1>2, CrKept
  <2>2. OpOf(rec[s]) \notin {"restore", "return", "gate"}
    BY <1>1, <1>2, StepOf DEF CrStep
  <2>3. x = cr[d] \/ x.state = IsDown
    BY <1>2, <2>2 DEF CrStep, CrWrite
  <2> QED
    BY <2>1, <2>3
<1>3. CASE UNCHANGED cr
  BY <1>3
<1> QED
  BY <1>2, <1>3 DEF PassStep, GitStep, ScaleStepOf, QuietStep, LeaveStep, ListStep, TurnStep, objects

\* At its entry, a downscale without a failure finds what is its own to turn down ...
LEMMA PausesListed ==
    ASSUME NEW docs, PauseInv(docs), NEW s \in Schedules, ListStep(s), rec[s].kind = "down",
           NEW c \in CRs, NEW j \in 1..n, Alone(s, c), c \in Matches(j), cr[c].state # IsDown,
           rec[s].at = j + 2
    PROVE  Awaits(rec'[s], c, j)
<1>1. /\ ShapeInv /\ Owned(cr) /\ rec[s] \in Pass /\ CrObject(cr[c])
  BY Zenon DEF PauseInv, OriginInv, OwnInv, ShapeInv, TypeInv, TypeOK
<1>2. OpOf(rec[s]) = "turn" /\ c \in ObjsOf(rec[s])
  BY <1>1, TurnAt DEF Matches
<1>3. TurnsDown(cr[c], s)
  BY <1>1 DEF TurnsDown, Foreign, Owned, Alone, CrObject, Owners
<1>4. /\ Found(s, [rec[s] EXCEPT !.listed = TRUE], OpOf(rec[s]), Selects(s) \cap ObjsOf(rec[s]), Finds(s))
      /\ Finds(s) \in Pass /\ Finds(s).at = rec[s].at
  BY <1>1, FindsIs
<1>5. c \in Finds(s).todo \cap Finds(s).fresh
  BY <1>2, <1>3, <1>4 DEF Found, Alone
<1>6. Settle(Finds(s)) = Finds(s)
  BY <1>4, <1>5, SettleIs DEF Parts
<1>7. Turns(s, Finds(s))
  BY <1>6 DEF ListStep, Finds
<1>8. c \in rec'[s].todo \cap rec'[s].fresh /\ rec'[s].at = j + 2
  BY <1>4, <1>5, <1>7 DEF Turns, Same, Spares
<1> QED
  BY <1>8 DEF Awaits

\* ... and turns it down.
LEMMA PausesTurned ==
    ASSUME NEW docs, Pausing(docs), PauseInv(docs), NEW s \in Schedules, NEW b \in CRs,
           TurnDownCR(s, b), faults' = 0, rec[s].kind = "down",
           NEW c \in CRs, NEW j \in 1..n, c \in Matches(j), cr[c].state # IsDown,
           cr'[c].state # IsDown, rec[s].at = j + 2, Awaits(rec[s], c, j)
    PROVE  Awaits(rec'[s], c, j)
<1>1. /\ TypeInv /\ rec[s] \in Pass /\ CrObject(cr[c]) /\ Origin(docs, c, cr[c], want[c])
  BY Zenon DEF PauseInv, OriginInv, OwnInv, ShapeInv, TypeInv, TypeOK
<1>2. rec[s].listed
  BY DEF TurnDownCR, At
<1>3. c \in rec[s].todo \cap rec[s].fresh
  BY <1>2 DEF Awaits
<1>4. Current(s).entry = j
  BY <1>1, TurnAt DEF Current
<1>5. b # c
  <2> SUFFICES ASSUME b = c PROVE FALSE
    OBVIOUS
  <2> DEFINE off == Capture(cr[c].doc, Entries[j].fields)
  <2>1. cr'[c] = TurnDown(cr[c], Entries[j].fields, s)
    BY <1>1, <1>3, <1>4, CalmUpdate
  <2>2. cr[c].doc \in docs[c] /\ c \in Entries[j].matches
    BY <1>1 DEF Origin, Matches
  <2>3. off.saved # NoFields
    BY <2>2 DEF Pausing, n
  <2>4. cr'[c] = [cr[c] EXCEPT !.doc = off.doc, !.saved = off.saved, !.since = Never,
                               !.state = IsDown, !.by = s]
    BY <2>1, <2>3 DEF TurnDown
  <2> HIDE DEF off
  <2> QED
    BY <1>1, <2>4 DEF CrObject
<1> DEFINE d == Drop(rec[s], b)
<1>6. Shrinks(d, rec[s], b) /\ Turns(s, Settle(d))
  BY <1>1, DropShrinks, CalmUpdate
<1> HIDE DEF d
<1>7. c \in d.todo \cap d.fresh /\ d \in Pass /\ d.at = j + 2
  BY <1>3, <1>5, <1>6 DEF Shrinks
<1>8. Settle(d) = d
  BY <1>7, SettleIs DEF Parts
<1>9. c \in rec'[s].todo \cap rec'[s].fresh /\ rec'[s].at = j + 2
  BY <1>6, <1>7, <1>8 DEF Turns, Same, Spares
<1> QED
  BY <1>9 DEF Awaits

\* A step of its own keeps a downscale so, until a call fails.
LEMMA PausesOwn ==
    ASSUME NEW docs, Pausing(docs), PauseInv(docs), NEW s \in Schedules, Reconcile(s), PassStep(s),
           faults = 0, faults' = 0
    PROVE  Pauses(s, rec'[s], cr')
<1>1. /\ TypeInv /\ ShapeInv /\ OwnInv /\ rec[s] \in Pass /\ Pauses(s, rec[s], cr)
  BY Zenon DEF PauseInv, OriginInv, OwnInv, ShapeInv, TypeInv, TypeOK
<1> SUFFICES ASSUME rec'[s].kind = "down", NEW c \in CRs, NEW j \in 1..n, Alone(s, c),
                    c \in Matches(j), cr'[c].state # IsDown
             PROVE  Awaits(rec'[s], c, j)
  BY DEF Pauses, Alone, Selects
<1>2. j \in Nat /\ 1 < j + 2 /\ rec[s].at \in Nat
  BY <1>1 DEF n, Pass
<1>3. rec'[s].at = 1 => Awaits(rec'[s], c, j)
  BY <1>2 DEF Awaits
<1>4. CASE rec[s].kind # "down"
  <2>1. Advances(s, s)
    BY <1>1, PassMoves
  <2>2. ListStep(s) => Finds(s).kind = rec[s].kind
    BY <1>1, FindsIs
  <2>3. TurnStep(s)
    BY <1>4, <2>1, <2>2 DEF Advances, Less
  <2> QED
    BY <1>3, <2>3 DEF TurnStep, Clean
<1>5. CASE rec[s].kind = "down" /\ rec'[s].at # 1
  <2>1. cr[c].state # IsDown
    BY <1>1, <1>5, DownStays
  <2>2. Awaits(rec[s], c, j)
    BY <1>1, <1>5, <2>1 DEF Pauses
  <2>3. rec'[s].at = rec[s].at \/ (rec'[s].at = rec[s].at + 1 /\ ~rec'[s].listed)
    BY <1>1, <1>5, DownMoves
  <2>4. CASE rec[s].at < j + 2
    BY <1>2, <2>3, <2>4 DEF Awaits
  <2>5. CASE rec[s].at = j + 2
    <3>1. ~Over(rec[s]) /\ OpOf(rec[s]) = "turn"
      BY <1>1, <1>5, <2>5, TurnAt DEF Matches
    <3>2. ListStep(s) \/ \E b \in CRs : TurnDownCR(s, b)
      BY <1>1, <3>1, CalmTurn
    <3> QED
      BY <1>5, <2>1, <2>2, <2>5, <3>2, PausesListed, PausesTurned
  <2> QED
    BY <2>2, <2>4, <2>5 DEF Awaits
<1> QED
  BY <1>3, <1>4, <1>5

\* ... and every step keeps it so.
LEMMA PauseStep ==
    ASSUME NEW docs, Undoable(docs), Pausing(docs)
    PROVE  PauseInv(docs) /\ [Next]_vars => PauseInv(docs)'
<1> SUFFICES ASSUME PauseInv(docs), [Next]_vars PROVE PauseInv(docs)'
  OBVIOUS
<1>1. /\ OriginInv(docs) /\ OriginInv(docs)' /\ TypeInv /\ TypeInv' /\ ShapeInv /\ ShapeInv' /\ Owned(cr)
      /\ \A t \in Schedules : rec[t].fresh \subseteq Selects(t)
  BY OriginStep DEF PauseInv, OriginInv, OwnInv, ShapeInv
<1>2. \A t \in Schedules : Selects(t)' = Selects(t)
  BY <1>1, SelectsKept DEF Selects
<1>3. ASSUME \A c \in CRs, t \in Schedules : cr'[c].by = t => c \in Selects(t),
             \A t \in Schedules : rec'[t].fresh \subseteq Selects(t),
             faults' = 0 => \A t \in Schedules : Pauses(t, rec'[t], cr')
      PROVE  PauseInv(docs)'
  BY <1>1, <1>2, <1>3 DEF PauseInv, Owned, Pauses, Awaits, Alone
<1>4. ASSUME Next \/ faults' = faults, UNCHANGED <<rec, cr>> PROVE PauseInv(docs)'
  <2>1. faults' = 0 => faults = 0
    BY <1>1, <1>4, NeverUncounted
  <2> QED
    BY <1>1, <1>3, <1>4, <2>1 DEF PauseInv, Owned
<1>5. ASSUME Next, NEW s \in Schedules, Reconcile(s), PassStep(s) PROVE PauseInv(docs)'
  <2>1. Owned(cr') /\ \A t \in Schedules : rec'[t].fresh \subseteq Selects(t)
    BY <1>5, OwnedPass
  <2>2. ASSUME faults' = 0, NEW t \in Schedules PROVE Pauses(t, rec'[t], cr')
    <3>1. faults = 0 /\ Pauses(t, rec[t], cr)
      BY <1>1, <1>5, <2>2, NeverUncounted DEF PauseInv
    <3> QED
      BY <1>5, <2>2, <3>1, PausesOwn, PausesSpared
  <2> QED
    BY <1>3, <2>1, <2>2 DEF Owned
<1>6. CASE Next /\ Environment
  <2>1. WorldStep
    BY <1>1, <1>6, WorldIs
  <2>2. \A c \in CRs : cr'[c].by = cr[c].by /\ cr'[c].state = cr[c].state
    BY <2>1 DEF WorldStep
  <2>3. \A t \in Schedules : rec'[t].fresh \subseteq rec[t].fresh
    BY <2>1, IdleIs DEF WorldStep, Same, Clean
  <2>4. ASSUME faults' = 0, NEW t \in Schedules PROVE Pauses(t, rec'[t], cr')
    <3>1. Pauses(t, rec[t], cr)
      BY <1>1, <1>6, <2>4, NeverUncounted DEF PauseInv
    <3>2. Same(rec'[t], rec[t]) /\ rec'[t].fresh = rec[t].fresh
      BY <1>1, <1>6, <2>4, CalmWorld
    <3> QED
      BY <2>2, <3>1, <3>2 DEF Same, Pauses, Awaits
  <2> QED
    BY <1>1, <1>3, <2>2, <2>3, <2>4 DEF Owned
<1>7. CASE Next
  <2>1. (\E s \in Schedules : Reconcile(s)) \/ Environment
    BY <1>7 DEF Next
  <2>2. ASSUME NEW s \in Schedules, Reconcile(s) PROVE PauseInv(docs)'
    <3>1. SkipStep(s) \/ PassStep(s)
      BY <1>1, <2>2, ReconcileIs
    <3>2. SkipStep(s) => UNCHANGED <<rec, cr>>
      BY DEF SkipStep, objects
    <3> QED
      BY <1>4, <1>5, <1>7, <2>2, <3>1, <3>2
  <2> QED
    BY <1>6, <1>7, <2>1, <2>2
<1> QED
  BY <1>4, <1>7 DEF vars, objects

\* Only a deletion deletes.
LEMMA Deleted ==
    ASSUME Next, NEW d \in there \ there'
    PROVE  \E t \in Schedules, e \in Rebuilt : DeleteCR(t, e)
<1>1. there' # there /\ ~(there \subseteq there')
  OBVIOUS
<1>2. ASSUME NEW s, NEW g, NEW after, NEW waits, WritesGit(s, g, after, waits)
      PROVE  UNCHANGED there
  BY <1>2 DEF WritesGit
<1>3. ASSUME NEW s, NEW g, HoldGit(s, g) \/ WarmGit(s, g) \/ CheckGit(s, g) \/ CompleteGit(s, g)
                             \/ ReleaseGit(s, g)
      PROVE  UNCHANGED there
  BY <1>2, <1>3, Zenon DEF HoldGit, WarmGit, CheckGit, CompleteGit, ReleaseGit, objects
<1>4. ASSUME NEW s, NEW c, TurnDownCR(s, c) \/ RestoreCR(s, c) \/ ClearCR(s, c) \/ ReturnCR(s, c)
      PROVE  UNCHANGED there
  <2>1. ASSUME NEW outcomes, NEW good, NEW bad, UpdatesCR(s, c, outcomes, good, bad)
        PROVE  UNCHANGED there
    BY <2>1 DEF UpdatesCR
  <2>2. ASSUME NEW bad, ClearsCR(s, c, bad) PROVE UNCHANGED there
    BY <2>2 DEF ClearsCR
  <2> QED
    BY <1>4, <2>1, <2>2, Zenon DEF TurnDownCR, RestoreCR, ClearCR, ReturnCR
<1>5. ASSUME NEW s, \/ SkipReconcile(s) \/ BeginPass(s) \/ BeginCleanup(s)
                    \/ List(s) \/ CheckGate(s)
                    \/ EndScale(s) \/ EndBatch(s) \/ EndPass(s) \/ EndCleanup(s)
                    \/ \E w \in Workloads : Scale(s, w)
      PROVE  UNCHANGED there
  BY <1>5 DEF SkipReconcile, BeginPass, BeginCleanup, List, CheckGate, EndScale, EndBatch,
              EndPass, EndCleanup, Scale, objects
<1>6. Environment => there \subseteq there'
  BY DEF Environment, Create, Delete, Flip, Rewrite, Operate, Report, Freeze, BecomeReady, Rebuild,
         Elapse, Restart, objects
<1> QED
  BY <1>1, <1>3, <1>4, <1>5, <1>6, Zenon DEF Next, Reconcile

\* A resource is deleted when the entry that says so is due.
LEMMA DeletedAt ==
    ASSUME ShapeInv, NEW t \in Schedules, NEW e \in Rebuilt, DeleteCR(t, e), NEW d \in there \ there'
    PROVE  /\ rec[t].kind = "down" /\ \A s \in Schedules \ {t} : rec'[s] = rec[s]
           /\ \E i \in 1..n : rec[t].at = i + 2 /\ d \in Entries[i].matches
<1>1. rec[t] \in Pass /\ Shape(rec[t], Selects(t)) /\ rec = [s \in Schedules |-> rec[s]]
  BY Zenon DEF ShapeInv, TypeInv, TypeOK
<1>2. d = e /\ \E r : Goes(t, r)
  BY DEF DeleteCR
<1>3. \A s \in Schedules \ {t} : rec'[s] = rec[s]
  BY <1>1, <1>2 DEF Goes
<1>4. ~Over(rec[t]) /\ OpOf(rec[t]) = "delete" /\ d \in ObjsOf(rec[t])
  BY <1>1, <1>2 DEF DeleteCR, At, Current, OpOf, Shape, Parts
<1>5. /\ rec[t].kind = "down" /\ n \in Nat /\ rec[t].at \in 1..(n + 3)
      /\ OpAt("down", rec[t].at) = "delete" /\ ObjsOf(rec[t]) = ObjsAt("down", rec[t].at)
  BY <1>1, <1>4, StepOf, ScaleAt, NextAtIs DEF LenOf
<1>6. /\ rec[t].at - 2 \in 1..n /\ rec[t].at = rec[t].at - 2 + 2
      /\ ObjsAt("down", rec[t].at) = Entries[rec[t].at - 2].matches
  BY <1>5 DEF OpAt, ObjsAt
<1> QED
  BY <1>3, <1>4, <1>5, <1>6

\* A resource is deleted only when the custom resource that makes its operator rebuild it
\* is halted (the order in which integrationsDown works off spec.customResources, with the
\* Updates of handleCustomResourcesDown it waits for): until a call fails, for documents
\* whose turned-down form halts their operator, and entries that turn down before they
\* delete, whatever batches, users and other schedules come in between.
THEOREM PausedBeforeDeleted ==
    ASSUME NEW docs, Undoable(docs), Pausing(docs)
    PROVE  Spec => PausedFirst
<1> DEFINE Paused == \A s \in Schedules, d \in Rebuilt, c \in CRs :
                        /\ d \in there \ there' /\ faults = 0 /\ rec'[s] # rec[s]
                        /\ {c, d} \subseteq Selects(s)
                        => Halted(c)
<1>1. PauseInv(docs) /\ [Next]_vars => [Paused]_vars
  <2> SUFFICES ASSUME PauseInv(docs), Next, NEW s \in Schedules, NEW d \in Rebuilt, NEW c \in CRs,
                      d \in there \ there', faults = 0, rec'[s] # rec[s], {c, d} \subseteq Selects(s)
               PROVE  Halted(c)
    OBVIOUS
  <2>1. /\ ShapeInv /\ Fixed /\ rec[s] \in Pass /\ Pauses(s, rec[s], cr)
        /\ Origin(docs, c, cr[c], want[c])
    BY Zenon DEF PauseInv, OriginInv, OwnInv, ShapeInv, TypeInv, TypeOK
  <2>2. PICK t \in Schedules, e \in Rebuilt : DeleteCR(t, e)
    BY Deleted
  <2>3. s = t /\ rec[s].kind = "down" /\ \E i \in 1..n : rec[s].at = i + 2 /\ d \in Entries[i].matches
    BY <2>1, <2>2, DeletedAt
  <2>4. PICK i \in 1..n : rec[s].at = i + 2 /\ d \in Entries[i].matches
    BY <2>3
  <2>5. PICK scope \in Scopes : \A x \in Schedules : Selects(x) = scope[x]
    BY <2>1 DEF Fixed
  <2>6. Alone(s, c) /\ \E j \in 1..(i - 1) : c \in Entries[j].matches
    BY <2>4, <2>5 DEF Pausing, Alone, n
  <2>7. PICK j \in 1..(i - 1) : c \in Entries[j].matches
    BY <2>6
  <2>8. n \in Nat /\ j \in 1..n /\ j < i
    BY IntegrationsAssumption DEF n
  <2>9. c \in Matches(j)
    BY <2>7, <2>8, IntegrationsAssumption DEF Matches, n
  <2>10. ~Awaits(rec[s], c, j)
    BY <2>4, <2>8 DEF Awaits
  <2>11. cr[c].state = IsDown
    BY <2>1, <2>3, <2>6, <2>8, <2>9, <2>10 DEF Pauses
  <2>12. PICK k \in 1..n : c \in Matches(k) /\ CapturedFrom(docs, c, cr[c], want[c], k)
    BY <2>1, <2>11 DEF Origin
  <2>13. PICK doc \in docs[c] : cr[c].doc = Capture(doc, Entries[k].fields).doc
    BY <2>12 DEF CapturedFrom
  <2>14. c \in Entries[k].matches
    BY <2>12 DEF Matches
  <2>15. Stops(c, Capture(doc, Entries[k].fields).doc)
    BY <2>14 DEF Pausing, n
  <2> QED
    BY <2>13, <2>15 DEF Halted
<1> QED
  BY <1>1, PauseInit, PauseStep, PTL DEF Spec, PausedFirst

=============================================================================
