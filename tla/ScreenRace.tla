----------------------------- MODULE ScreenRace -----------------------------
(* A screen of the web client at work: a read and the handler of a button, in the shape the
   source gives them (ScreenShapes). The user changes the record, the filter or the row he looks
   at while answers are on their way; requests are served in any order, answers come late or
   never, and he presses again before the last one has come. *)
EXTENDS ScreenShapes, Integers

CONSTANTS Keys,       \* what the screen may be asked to show: route ids, filters, roles chosen
          Rows,       \* the rows of what it shows that have a button of their own
          MaxRequests \* bound on the reads asked by the user and the writes sent, together

ASSUME RaceAssumption == /\ Keys \subseteq Nat \ {0} /\ Keys # {}
                         /\ Rows # {} /\ MaxRequests \in Nat

VARIABLES shape,      \* the read and the write under study
          wanted,     \* the key the user has chosen last
          stored,     \* [Keys -> Nat], how often the server has changed each record
          asked,      \* reads of the effect on their way
          made,       \* number of the last of them
          again,      \* reads a handler makes itself, on their way
          shown,      \* what the screen shows, and whether a read or a save put it there
          loading,    \* the effect's last read is on its way
          failed,     \* the last answer shown was a failure
          sent,       \* writes on their way
          saved,      \* number of the last write sent
          busy,       \* rows whose buttons are disabled
          mine,       \* [Keys -> Nat], the change of each record the user was told is saved
          mixed,      \* the handlers of two rows run, or ran a moment ago, at once
          crossed,    \* the answer of a save met other requests on their way
          open        \* the screen has not been left

raceVars == <<shape, wanted, stored, asked, made, again, shown, loading, failed, sent, saved,
              busy, mine, mixed, crossed, open>>

\* The handlers of the buttons that have not ended.
Running == sent \cup again

Nothing == [key |-> 0, change |-> 0, by |-> "nobody"]
Unserved == -1
Showing(request, who) == [key |-> request.key, change |-> request.change, by |-> who]
\* ------------------------------------------------------------------ reads
\* Mutant of Alive: the effects have no cleanup that turns late answers away.
AliveAlways(request) == TRUE

\* An answer reaches the screen unless a later request has retired it.
Alive(request) == shape.read.guard = "none" \/ request.no = made

\* Mutant of AskFor: the loading indicator is not raised for another key.
AskForQuietly(key) ==
  /\ made' = made + 1
  /\ asked' = asked \cup {[no |-> made + 1, key |-> key, change |-> Unserved]}
  /\ loading' = loading
  /\ crossed' = (crossed /\ asked \cup Running # {})

AskFor(key) ==
  /\ made' = made + 1
  /\ asked' = asked \cup {[no |-> made + 1, key |-> key, change |-> Unserved]}
  /\ loading' = TRUE
  /\ crossed' = (crossed /\ asked \cup Running # {})

\* A route parameter, a filter or the role chosen changes: useEffect runs again.
Choose(key) ==
  /\ open /\ key # wanted /\ made + saved < MaxRequests
  /\ AskFor(key)
  /\ wanted' = key
  /\ UNCHANGED <<shape, stored, again, shown, failed, sent, saved, busy, mine, mixed, open>>

\* Another dependency of the effect changes.
AskAgain ==
  /\ open /\ wanted # 0 /\ shape.read.repeats /\ made + saved < MaxRequests
  /\ AskFor(wanted)
  /\ UNCHANGED <<shape, wanted, stored, again, shown, failed, sent, saved, busy, mine, mixed, open>>

Serve(request) ==
  /\ request.change = Unserved
  /\ asked' = (asked \ {request}) \cup {[request EXCEPT !.change = stored[request.key]]}
  /\ UNCHANGED <<shape, wanted, stored, made, again, shown, loading, failed, sent, saved, busy,
                 mine, mixed, crossed, open>>

Deliver(request) ==
  /\ request.change # Unserved
  /\ asked' = asked \ {request}
  /\ IF open /\ Alive(request)
     THEN shown' = Showing(request, "read") /\ loading' = FALSE /\ failed' = FALSE
     ELSE UNCHANGED <<shown, loading, failed>>
  /\ UNCHANGED <<shape, wanted, stored, made, again, sent, saved, busy, mine, mixed, crossed, open>>

AfterFailure == IF shape.read.onFail = "keep" THEN shown ELSE Nothing

Fail(request) ==
  /\ asked' = asked \ {request}
  /\ IF open /\ Alive(request)
     THEN shown' = AfterFailure /\ loading' = FALSE /\ failed' = TRUE
     ELSE UNCHANGED <<shown, loading, failed>>
  /\ UNCHANGED <<shape, wanted, stored, made, again, sent, saved, busy, mine, mixed, crossed, open>>
\* ----------------------------------------------------------------- writes
RowsOf(write) == IF write.lock \in {"row", "cell"} THEN Rows ELSE {CHOOSE r \in Rows : TRUE}

Pressable(row) ==
  CASE shape.write.lock = "busy" -> busy = {}
    [] shape.write.lock \in {"row", "cell"} -> row \notin busy
    [] OTHER -> TRUE

\* Mutant of Disabled: every screen keeps one busy row id.
DisabledOne(row) == {row}

Disabled(row) ==
  CASE shape.write.lock \in {"busy", "row"} -> {row}
    [] shape.write.lock = "cell" -> busy \cup {row}
    [] OTHER -> busy

\* The handler ends: one busy id is cleared whichever row it holds.
Enabled(row) == IF shape.write.lock = "cell" THEN busy \ {row} ELSE {}

\* The handler of a button: the body comes from what is shown, the address from it too or from
\* the route.
Press(row) ==
  /\ open /\ shown # Nothing /\ shape.write # NoWrite /\ made + saved < MaxRequests
  /\ shape.read.hides => ~loading
  /\ Pressable(row)
  /\ saved' = saved + 1
  /\ sent' = sent \cup {[no |-> saved + 1, row |-> row, body |-> shown.key, change |-> Unserved,
                         to |-> IF shape.write.on = "route" THEN wanted ELSE shown.key,
                         at |-> wanted]}
  /\ busy' = Disabled(row)
  /\ mixed' = (mixed \/ \E other \in Running : other.row # row)
  /\ UNCHANGED <<shape, wanted, stored, asked, made, again, shown, loading, failed, mine, crossed,
                 open>>

Save(request) ==
  /\ request.change = Unserved
  /\ stored' = [stored EXCEPT ![request.to] = @ + 1]
  /\ sent' = (sent \ {request}) \cup {[request EXCEPT !.change = stored[request.to] + 1]}
  /\ UNCHANGED <<shape, wanted, asked, made, again, shown, loading, failed, saved, busy, mine,
                 mixed, crossed, open>>

\* The handler goes on to read the record of the page it was pressed on; its button stays
\* disabled until the answer has come.
ReadBy(request) ==
  again' = again \cup {[no |-> request.no, row |-> request.row, key |-> request.at,
                        change |-> Unserved]}

\* The handler of a row ends.
EndOf(row) ==
  /\ busy' = Enabled(row)
  /\ mixed' = (mixed /\ Running' # {})

\* Mutant of AfterSave: nothing is read again.
AfterSaveNoReload(request) ==
  CASE shape.write.then = "patch" ->
         /\ shown' = [key |-> request.to, change |-> request.change, by |-> "save"]
         /\ crossed' = (crossed \/ asked \cup again \cup sent' # {})
         /\ UNCHANGED <<asked, made, again, loading, open>>
    [] shape.write.then = "close" ->
         shown' = Nothing /\ UNCHANGED <<asked, made, again, loading, crossed, open>>
    [] shape.write.then = "leave" ->
         open' = FALSE /\ shown' = Nothing /\ UNCHANGED <<asked, made, again, loading, crossed>>
    [] OTHER -> UNCHANGED <<asked, made, again, shown, loading, crossed, open>>

\* The answer of a save, on a screen that is still there.
AfterSave(request) ==
  CASE shape.write.then = "patch" ->
         /\ shown' = [key |-> request.to, change |-> request.change, by |-> "save"]
         /\ crossed' = (crossed \/ asked \cup again \cup sent' # {})
         /\ UNCHANGED <<asked, made, again, loading, open>>
    [] shape.write.then = "reload" ->
         /\ ReadBy(request)
         /\ crossed' = (crossed \/ asked \cup again # {})
         /\ UNCHANGED <<asked, made, shown, loading, open>>
    [] shape.write.then = "reread" ->
         AskFor(wanted) /\ UNCHANGED <<again, shown, open>>
    [] shape.write.then = "close" ->
         shown' = Nothing /\ UNCHANGED <<asked, made, again, loading, crossed, open>>
    [] shape.write.then = "leave" ->
         open' = FALSE /\ shown' = Nothing /\ UNCHANGED <<asked, made, again, loading, crossed>>
    [] OTHER -> UNCHANGED <<asked, made, again, shown, loading, crossed, open>>

Saved(request) ==
  /\ request.change # Unserved
  /\ sent' = sent \ {request}
  /\ mine' = [mine EXCEPT ![request.to] = IF @ > request.change THEN @ ELSE request.change]
  /\ IF open THEN AfterSave(request)
             ELSE UNCHANGED <<asked, made, again, shown, loading, crossed, open>>
  /\ IF open /\ shape.write.then = "reload" THEN UNCHANGED <<busy, mixed>>
                                             ELSE EndOf(request.row)
  /\ UNCHANGED <<shape, wanted, stored, failed, saved>>

\* A save fails, on the server or on the way back: the buttons come back, or the handler reads
\* first what somebody else may have decided.
Refused(request) ==
  /\ sent' = sent \ {request}
  /\ IF open /\ shape.write.again
     THEN ReadBy(request) /\ UNCHANGED <<busy, mixed>>
     ELSE UNCHANGED again /\ EndOf(request.row)
  /\ UNCHANGED <<shape, wanted, stored, asked, made, shown, loading, failed, saved, mine, crossed,
                 open>>

ServeAgain(request) ==
  /\ request.change = Unserved
  /\ again' = (again \ {request}) \cup {[request EXCEPT !.change = stored[request.key]]}
  /\ UNCHANGED <<shape, wanted, stored, asked, made, shown, loading, failed, sent, saved, busy,
                 mine, mixed, crossed, open>>

\* The read of a handler is answered: no flag turns it away, whatever the page shows by now.
DeliverAgain(request) ==
  /\ request.change # Unserved
  /\ again' = again \ {request}
  /\ IF open THEN shown' = Showing(request, "save") /\ failed' = FALSE
             ELSE UNCHANGED <<shown, failed>>
  /\ UNCHANGED <<shape, wanted, stored, asked, made, loading, sent, saved, mine, crossed, open>>
  /\ EndOf(request.row)

FailAgain(request) ==
  /\ again' = again \ {request}
  /\ IF open THEN shown' = AfterFailure /\ failed' = TRUE ELSE UNCHANGED <<shown, failed>>
  /\ UNCHANGED <<shape, wanted, stored, asked, made, loading, sent, saved, mine, crossed, open>>
  /\ EndOf(request.row)

RaceInit(shapes) ==
  /\ shape \in shapes
  /\ wanted = 0 /\ stored = [k \in Keys |-> 1] /\ asked = {} /\ made = 0 /\ again = {}
  /\ shown = Nothing /\ loading = FALSE /\ failed = FALSE
  /\ sent = {} /\ saved = 0 /\ busy = {} /\ mine = [k \in Keys |-> 0]
  /\ mixed = FALSE /\ crossed = FALSE /\ open = TRUE

RaceNext ==
  \/ \E key \in Keys : Choose(key)
  \/ AskAgain
  \/ \E request \in asked : Serve(request) \/ Deliver(request) \/ Fail(request)
  \/ \E row \in RowsOf(shape.write) : Press(row)
  \/ \E request \in sent : Save(request) \/ Saved(request) \/ Refused(request)
  \/ \E request \in again : ServeAgain(request) \/ DeliverAgain(request) \/ FailAgain(request)

RaceSpec == RaceInit(Shapes) /\ [][RaceNext]_raceVars
\* ------------------------------------------------------------- properties
Guarded == shape.read.guard = "flag"
Settled == open /\ asked = {} /\ again = {} /\ ~loading

\* What the user chose may be shown late, or not at all, in three ways the code leaves open: a
\* failed load that keeps the old data, and what the handler of a save shows, its answer or the
\* record it reads again, without looking at what the page is about by then.
Kept == failed /\ shape.read.onFail = "keep"
PutBySave == shown.by = "save"

\* Once every answer is in, a screen whose effect turns late answers away shows what the user
\* chose last, not what he chose before: "Se descartan respuestas viejas si los filtros cambian
\* varias veces seguidas" (SupervisorDashboardView.tsx:150-152).
ShowsWhatWasChosen ==
  Settled /\ Guarded /\ shown # Nothing => shown.key = wanted \/ Kept \/ PutBySave

\* A save pressed on such a screen is sent to the record the user chose, with that record's data:
\* never the fields of one record to the address of another. It may happen where the buttons stay
\* in reach while another record loads, after a failed load and after a late save.
SavesTheRecordChosen ==
  [][\A request \in sent' : request.no > saved =>
       \/ request.to = wanted /\ request.body = wanted
       \/ ~Guarded \/ (loading /\ ~shape.read.hides) \/ Kept \/ PutBySave]_raceVars

\* While a save of a row is on its way no second one of that row is sent: not from a screen with
\* one busy flag, not from one with a busy state per row. A screen that keeps one busy row id, as
\* linkingDebtId, lets it happen only after another row was pressed meanwhile.
NoDoubleSubmit ==
  \A a, b \in sent : a # b /\ a.row = b.row =>
    shape.write.lock = "none" \/ (shape.write.lock = "row" /\ mixed)

\* A user who was told that his change is saved sees it, or a later one, on the screen that shows
\* the answer or reads again afterwards, unless other requests were on their way when the answer
\* came: an effect's read made before the save, another save or the read after it may then land
\* last. A page that runs its effect again needs no such exception: it retires the earlier reads.
OwnChangeStays ==
  Settled /\ Guarded /\ ~failed /\ ~crossed /\ shown # Nothing
    /\ shape.write.then \in {"patch", "reload", "reread"} =>
      shown.change >= mine[shown.key]

\* The ticks the user agreed to discard when he chose another role are not saved to that role:
\* "Tiene cambios sin guardar en los permisos. ¿Descartar y cambiar de rol?"
\* (RolesAndPermissionsView.tsx:149).
DiscardedTicksAreNotSaved ==
  shape \in RolePermissions => \A request \in sent : request.body = request.to
=============================================================================
