---------------------------- MODULE WebClient_proofs ----------------------------
(* The parts of the web client, each by itself and for every bound of its own. *)
EXTENDS ScreenRace, WebAccess, WebSession, WebDesks, FiniteSetTheorems, TLAPS

\* ------------------------------------------------------------- the session
\* The storage of a tab belongs to its session: for every number of users and of requests.

\* The codes to come: those asked for on the token that is stored.
CodesComing == \E call \in calls : call.kind = "codes" /\ call.user = token

\* Codes that are not the session's are about to be replaced, or one of the two accidents has
\* happened; the series go with the session before.
SessionInv ==
  /\ granted \in {nobody, token} \/ overtaken \/ unrefreshed \/ CodesComing
  /\ series \in {nobody, token} \/ overtaken

LEMMA SessionInitInv == SessionInit => SessionInv
BY DEF SessionInit, SessionInv

\* A call that is made joins those on their way.
LEMMA SentKeepsComing ==
  ASSUME NEW kind, NEW user, Send(kind, user, calls), UNCHANGED token, CodesComing
  PROVE  CodesComing'
BY DEF Send, CodesComing

LEMMA ForgottenIsNobodys ==
  ASSUME Forget
  PROVE  SessionInv'
BY DEF Forget, SessionInv

\* The codes of the new session are asked for.
LEMMA LoggedInAsks ==
  ASSUME NEW call \in calls, LoggedIn(call)
  PROVE  SessionInv'
<1>1. Call("codes", call.user) \in calls'
  BY DEF LoggedIn, Send
<1>2. Call("codes", call.user).kind = "codes" /\ Call("codes", call.user).user = call.user
  BY DEF Call
<1>3. CodesComing'
  BY <1>1, <1>2 DEF LoggedIn, CodesComing
<1> QED
  BY <1>3 DEF LoggedIn, SessionInv

LEMMA CodesReadReplace ==
  ASSUME SessionInv, NEW call \in calls, CodesRead(call)
  PROVE  SessionInv'
BY DEF CodesRead, SessionInv

\* A failed call is not the one that was to come, or is recorded.
LEMMA FailureRecorded ==
  ASSUME SessionInv, NEW call \in calls, CallFails(call)
  PROVE  SessionInv'
<1>1. CASE granted \in {nobody, token}
  BY <1>1 DEF CallFails, SessionInv
<1>2. CASE granted \notin {nobody, token} /\ call.kind = "codes" /\ call.user = token
  BY <1>2 DEF CallFails, SessionInv
<1>3. CASE granted \notin {nobody, token} /\ ~ (call.kind = "codes" /\ call.user = token)
  <2>1. CodesComing => CodesComing'
    BY <1>3 DEF CodesComing, CallFails
  <2> QED
    BY <1>3, <2>1 DEF CallFails, SessionInv
<1> QED
  BY <1>1, <1>2, <1>3

LEMMA SessionStep == SessionInv /\ [SessionNext]_sessionVars => SessionInv'
<1> SUFFICES ASSUME SessionInv, [SessionNext]_sessionVars PROVE SessionInv'
  OBVIOUS
<1>1. ASSUME NEW user \in Users, PressLogin(user) PROVE SessionInv'
  BY <1>1, SentKeepsComing DEF PressLogin, SessionInv
<1>2. CASE LayoutAppears \/ RoleSaved
  BY <1>2, SentKeepsComing DEF LayoutAppears, RoleSaved, ReadCodes, SessionInv
<1>3. CASE EnsureSeries
  BY <1>3, SentKeepsComing DEF EnsureSeries, SessionInv
<1>4. CASE PressLogout
  BY <1>4, SentKeepsComing DEF PressLogout, SessionInv
<1>5. ASSUME NEW call \in calls, LoggedIn(call) PROVE SessionInv'
  BY <1>5, LoggedInAsks
<1>6. ASSUME NEW call \in calls, CodesRead(call) PROVE SessionInv'
  BY <1>6, CodesReadReplace
<1>7. ASSUME NEW call \in calls, SeriesRead(call) PROVE SessionInv'
  <2>1. CodesComing => CodesComing'
    BY <1>7 DEF CodesComing, SeriesRead
  <2> QED
    BY <1>7, <2>1 DEF SeriesRead, SessionInv
<1>8. ASSUME NEW call \in calls, CallFails(call) PROVE SessionInv'
  BY <1>8, FailureRecorded
<1>9. ASSUME NEW call \in calls, LoggedOut(call) \/ Expire(call) PROVE SessionInv'
  BY <1>9, ForgottenIsNobodys DEF LoggedOut, Expire
<1>10. CASE UNCHANGED sessionVars
  BY <1>10 DEF sessionVars, SessionInv, CodesComing
<1> QED
  BY <1>1, <1>2, <1>3, <1>4, <1>5, <1>6, <1>7, <1>8, <1>9, <1>10 DEF SessionNext

\* When no request is on its way, what a tab stores was read on its token, but after one of the
\* two accidents that auth.ts leaves (refreshPermissions, logout).
THEOREM StorageIsOwn == SessionSpec => []StorageBelongsToSession
<1>1. SessionInv => StorageBelongsToSession
  BY DEF SessionInv, StorageBelongsToSession, CodesComing
<1> QED
  BY <1>1, SessionInitInv, SessionStep, PTL DEF SessionSpec

\* --------------------------------------------------------------- the desks
\* What is imported has been validated, and a sale is issued once unless the user was misled: for
\* every set of files and every number of sales.

\* -------------------------------------------------------- the import dialog
\* The file being validated is the one chosen, or the choice has been noted; what counts as
\* validated has been found right.
ImportInv ==
  /\ validated \in BOOLEAN
  /\ validating # none => file \in {none, validating} \/ swapped
  /\ validated => file \in GoodFiles \cup {none} \/ swapped

LEMMA ImportStep == ImportInv /\ [DesksNext]_deskVars => ImportInv'
<1> SUFFICES ASSUME ImportInv, [DesksNext]_deskVars PROVE ImportInv'
  OBVIOUS
<1> USE DEF ImportInv
<1>1. CASE OpenImport \/ CloseImport
  BY <1>1 DEF OpenImport, CloseImport
<1>2. ASSUME NEW f \in Files, ChooseFile(f) PROVE ImportInv'
  BY <1>2 DEF ChooseFile
<1>3. CASE PressValidate
  BY <1>3 DEF PressValidate
<1>4. CASE Validated
  BY <1>4 DEF Validated
<1>5. CASE PressCommit
  BY <1>5 DEF PressCommit
<1>6. CASE Committed
  <2>1. UNCHANGED <<validating, swapped>>
    BY <1>6 DEF Committed
  <2>2. CASE file' = none /\ validated' = FALSE
    BY <2>1, <2>2
  <2>3. CASE UNCHANGED file /\ validated' = validated
    BY <2>1, <2>3
  <2>4. CASE UNCHANGED file /\ validated' = FALSE
    BY <2>1, <2>4
  <2> QED
    BY <1>6, <2>2, <2>3, <2>4 DEF Committed
<1>7. CASE PressEmit
  BY <1>7 DEF PressEmit, importVars
<1>8. ASSUME NEW e \in emissions, Issue(e) \/ ReadBack(e) \/ ShowReceipt(e) \/ EmitFails(e)
      PROVE  ImportInv'
  BY <1>8 DEF Issue, ReadBack, ShowReceipt, EmitFails, importVars
<1>9. CASE UNCHANGED deskVars
  BY <1>9 DEF deskVars
<1> QED
  BY <1>1, <1>2, <1>3, <1>4, <1>5, <1>6, <1>7, <1>8, <1>9 DEF DesksNext

\* No step but the press of the button begins a commit.
LEMMA CommitBegins ==
  ASSUME [DesksNext]_deskVars, committing' \notin {none, committing}
  PROVE  PressCommit
<1>1. CASE OpenImport \/ CloseImport \/ PressValidate \/ Validated \/ PressCommit \/ Committed
  BY <1>1 DEF OpenImport, CloseImport, PressValidate, Validated, Committed
<1>2. ASSUME NEW f \in Files, ChooseFile(f) PROVE FALSE
  BY <1>2 DEF ChooseFile
<1>3. CASE PressEmit
  BY <1>3 DEF PressEmit, importVars
<1>4. ASSUME NEW e \in emissions, Issue(e) \/ ReadBack(e) \/ ShowReceipt(e) \/ EmitFails(e)
      PROVE  FALSE
  BY <1>4 DEF Issue, ReadBack, ShowReceipt, EmitFails, importVars
<1>5. CASE UNCHANGED deskVars
  BY <1>5 DEF deskVars
<1> QED
  BY <1>1, <1>2, <1>3, <1>4, <1>5 DEF DesksNext

\* Only a file that the server found right is committed, unless another was chosen while it was
\* being validated (handleValidateImport, handleCommitImport).
THEOREM ImportsAreValidated == DesksSpec => OnlyValidatedFilesAreImported
<1>1. DesksInit => ImportInv
  BY DEF DesksInit, ImportInv
<1>2. ImportInv /\ [DesksNext]_deskVars
        => (committing' \notin {none, committing} => committing' \in GoodFiles \/ swapped)
  BY CommitBegins DEF PressCommit, ImportInv
<1> QED
  BY <1>1, <1>2, ImportStep, PTL DEF DesksSpec, OnlyValidatedFilesAreImported

\* -------------------------------------------------------- the point of sale
Request == [no : Nat, form : Nat, step : {"issue", "issued", "detail"}]

SaleTypes ==
  /\ form \in Nat
  /\ receipts \in Seq(Nat)
  /\ emissions \in SUBSET Request

\* One request at a time, for the sale on the form; no receipt is of a later sale; and a receipt
\* of the sale on the form that is not known to the user is that of the request under way.
OneAtATime ==
  /\ \A e, f \in emissions : e = f
  /\ emissions # {} => saving
  /\ \A e \in emissions : e.form = form
NoneAhead == \A i \in 1 .. Len(receipts) : receipts[i] <= form
KnownOrUnderWay ==
  \A i \in 1 .. Len(receipts) :
    receipts[i] = form => form \in misled \/ \E e \in emissions : e.step # "issue"

SaleInv == SaleTypes /\ OneAtATime /\ NoneAhead /\ KnownOrUnderWay /\ SoldTwiceOnlyWhenMisled

LEMMA SaleInitInv == DesksInit => SaleInv
BY DEF DesksInit, SaleInv, SaleTypes, OneAtATime, NoneAhead, KnownOrUnderWay, SoldTwiceOnlyWhenMisled

LEMMA PressEmitStep ==
  ASSUME SaleInv, PressEmit
  PROVE  SaleInv'
<1> USE DEF SaleInv
<1>1. emissions = {} /\ emissions' = {Emission("issue")}
  BY DEF PressEmit, OneAtATime
<1>2. Emission("issue") \in Request /\ Emission("issue").form = form
  BY <1>1, FS_EmptySet DEF Emission, Request, SaleTypes
<1>3. SaleTypes' /\ OneAtATime'
  BY <1>1, <1>2 DEF PressEmit, SaleTypes, OneAtATime
<1>4. NoneAhead' /\ KnownOrUnderWay' /\ SoldTwiceOnlyWhenMisled'
  BY <1>1 DEF PressEmit, NoneAhead, KnownOrUnderWay, SoldTwiceOnlyWhenMisled
<1> QED
  BY <1>3, <1>4

\* The receipt issued is the first of its sale, or the user has been misled about the first.
LEMMA IssueStep ==
  ASSUME SaleInv, NEW e \in emissions, Issue(e)
  PROVE  SaleInv'
<1> USE DEF SaleInv
<1> DEFINE issued == [e EXCEPT !.step = "issued"]
<1>1. emissions = {e} /\ emissions' = {issued} /\ e.form = form /\ e.step = "issue"
  BY DEF Issue, OneAtATime
<1>2. issued \in Request /\ issued.form = form /\ issued.step = "issued"
  BY <1>1 DEF SaleTypes, Request
<1>3. /\ receipts' \in Seq(Nat) /\ Len(receipts') = Len(receipts) + 1
      /\ \A i \in 1 .. Len(receipts) : receipts'[i] = receipts[i]
      /\ receipts'[Len(receipts) + 1] = form
  BY <1>1 DEF Issue, SaleTypes
<1>4. SaleTypes' /\ OneAtATime'
  BY <1>1, <1>2, <1>3 DEF Issue, SaleTypes, OneAtATime
<1>5. NoneAhead' /\ KnownOrUnderWay'
  <2>1. form' = form /\ form \in Nat /\ Len(receipts) \in Nat
    BY DEF Issue, SaleTypes
  <2>2. \A i \in 1 .. Len(receipts') : i \in 1 .. Len(receipts) \/ receipts'[i] = form
    BY <1>3, <2>1
  <2>3. NoneAhead'
    BY <1>3, <2>1, <2>2 DEF NoneAhead
  <2>4. KnownOrUnderWay'
    BY <1>1, <1>2 DEF KnownOrUnderWay
  <2> QED
    BY <2>3, <2>4
<1>6. form \in misled \/ \A i \in 1 .. Len(receipts) : receipts[i] # form
  BY <1>1 DEF KnownOrUnderWay
<1>7. SoldTwiceOnlyWhenMisled'
  BY <1>3, <1>6 DEF Issue, SaleTypes, SoldTwiceOnlyWhenMisled
<1> QED
  BY <1>4, <1>5, <1>7

LEMMA ReadBackStep ==
  ASSUME SaleInv, NEW e \in emissions, ReadBack(e)
  PROVE  SaleInv'
<1> USE DEF SaleInv
<1> DEFINE detail == [e EXCEPT !.step = "detail"]
<1>1. emissions = {e} /\ emissions' = {detail} /\ e.form = form
  BY DEF ReadBack, OneAtATime
<1>2. detail \in Request /\ detail.form = form /\ detail.step = "detail"
  BY <1>1 DEF SaleTypes, Request
<1>3. SaleTypes' /\ OneAtATime'
  BY <1>1, <1>2 DEF ReadBack, SaleTypes, OneAtATime
<1>4. NoneAhead' /\ KnownOrUnderWay' /\ SoldTwiceOnlyWhenMisled'
  BY <1>1, <1>2 DEF ReadBack, NoneAhead, KnownOrUnderWay, SoldTwiceOnlyWhenMisled
<1> QED
  BY <1>3, <1>4

\* The form moves on to a sale that has no receipt yet.
LEMMA ShowReceiptStep ==
  ASSUME SaleInv, NEW e \in emissions, ShowReceipt(e)
  PROVE  SaleInv'
<1> USE DEF SaleInv
<1>1. emissions' = {}
  BY DEF ShowReceipt, OneAtATime
<1>2. SaleTypes' /\ OneAtATime' /\ NoneAhead' /\ KnownOrUnderWay'
  BY <1>1 DEF ShowReceipt, SaleTypes, OneAtATime, NoneAhead, KnownOrUnderWay
<1>3. SoldTwiceOnlyWhenMisled'
  BY DEF ShowReceipt, SoldTwiceOnlyWhenMisled
<1> QED
  BY <1>2, <1>3

\* A failure after the receipt was issued misleads the user.
LEMMA EmitFailsStep ==
  ASSUME SaleInv, NEW e \in emissions, EmitFails(e)
  PROVE  SaleInv'
<1> USE DEF SaleInv
<1>1. emissions = {e} /\ emissions' = {} /\ e.form = form
  BY DEF EmitFails, OneAtATime
<1>2. misled \subseteq misled' /\ (e.step # "issue" => form \in misled')
  BY <1>1 DEF EmitFails
<1>3. SaleTypes' /\ OneAtATime' /\ NoneAhead'
  BY <1>1 DEF EmitFails, SaleTypes, OneAtATime, NoneAhead
<1>4. KnownOrUnderWay' /\ SoldTwiceOnlyWhenMisled'
  BY <1>1, <1>2 DEF EmitFails, KnownOrUnderWay, SoldTwiceOnlyWhenMisled
<1> QED
  BY <1>3, <1>4

LEMMA SaleStep == SaleInv /\ [DesksNext]_deskVars => SaleInv'
<1> SUFFICES ASSUME SaleInv, [DesksNext]_deskVars PROVE SaleInv'
  OBVIOUS
<1>1. ASSUME UNCHANGED saleVars PROVE SaleInv'
  BY <1>1 DEF saleVars, SaleInv, SaleTypes, OneAtATime, NoneAhead, KnownOrUnderWay,
              SoldTwiceOnlyWhenMisled
<1>2. CASE OpenImport \/ CloseImport \/ PressValidate \/ Validated \/ PressCommit \/ Committed
  BY <1>1, <1>2 DEF OpenImport, CloseImport, PressValidate, Validated, PressCommit, Committed
<1>3. ASSUME NEW f \in Files, ChooseFile(f) PROVE SaleInv'
  BY <1>1, <1>3 DEF ChooseFile
<1>4. CASE PressEmit
  BY <1>4, PressEmitStep
<1>5. ASSUME NEW e \in emissions, Issue(e) \/ ReadBack(e) \/ ShowReceipt(e) \/ EmitFails(e)
      PROVE  SaleInv'
  BY <1>5, IssueStep, ReadBackStep, ShowReceiptStep, EmitFailsStep
<1>6. CASE UNCHANGED deskVars
  BY <1>1, <1>6 DEF deskVars, saleVars
<1> QED
  BY <1>2, <1>3, <1>4, <1>5, <1>6 DEF DesksNext

\* The point of sale issues two receipts for one form only after it told the user that the first
\* had not been issued (emit, PosSale.tsx).
THEOREM SoldOnce == DesksSpec => []SoldTwiceOnlyWhenMisled
<1>1. SaleInv => SoldTwiceOnlyWhenMisled
  BY DEF SaleInv
<1> QED
  BY <1>1, SaleInitInv, SaleStep, PTL DEF DesksSpec

\* ------------------------------------------------------------- the screens
\* A screen shows what the user chose and its saves go where he meant: for every set of keys and
\* rows and every number of requests, and for the shapes of all the screens of the client.

WantedReads == [no : Nat, key : Keys, change : Nat \cup {Unserved}]
SentWrites == [no : Nat, row : Rows, body : Keys, change : Nat \cup {Unserved}, to : Keys, at : Keys]
HandlerReads == [no : Nat, row : Rows, key : Keys, change : Nat \cup {Unserved}]
ShownThings == {Nothing} \cup [key : Keys, change : Nat, by : {"read", "save"}]

RaceTypes ==
  /\ wanted \in Keys \cup {0} /\ stored \in [Keys -> Nat] /\ mine \in [Keys -> Nat]
  /\ asked \in SUBSET WantedReads /\ made \in Nat /\ again \in SUBSET HandlerReads
  /\ sent \in SUBSET SentWrites /\ saved \in Nat
  /\ shown \in ShownThings
  /\ loading \in BOOLEAN /\ failed \in BOOLEAN /\ mixed \in BOOLEAN /\ crossed \in BOOLEAN
  /\ open \in BOOLEAN

\* Before the first choice there is nothing to answer, to show or to save.
NothingBeforeChoice == wanted = 0 => asked = {} /\ again = {} /\ sent = {} /\ shown = Nothing

\* Requests are numbered in the order they are made.
Numbered ==
  /\ \A request \in asked : request.no <= made
  /\ \A request \in sent : request.no <= saved

\* A guarded screen waits for the read of what is wanted: the latest one.
LatestIsWanted == Guarded => \A request \in asked : request.no = made => request.key = wanted

WantedShown == Guarded /\ ~loading /\ shown # Nothing => shown.key = wanted \/ Kept \/ PutBySave

RaceInv == RaceTypes /\ NothingBeforeChoice /\ Numbered /\ LatestIsWanted /\ WantedShown

LEMMA RaceInitInv == RaceInit(Shapes) => RaceInv
<1>1. Nothing \in ShownThings
  BY DEF ShownThings
<1> SUFFICES ASSUME RaceInit(Shapes) PROVE RaceInv
  OBVIOUS
<1>2. RaceTypes
  BY <1>1 DEF RaceInit, RaceTypes
<1>3. NothingBeforeChoice /\ Numbered /\ LatestIsWanted /\ WantedShown
  BY DEF RaceInit, NothingBeforeChoice, Numbered, LatestIsWanted, WantedShown
<1> QED
  BY <1>2, <1>3 DEF RaceInv

LEMMA RowsOfRows == \A write : RowsOf(write) \subseteq Rows
BY RaceAssumption DEF RowsOf

\* Asking for a key makes it the key of the latest read.
LEMMA AskForStep ==
  ASSUME RaceInv, NEW key \in Keys, AskFor(key)
  PROVE  /\ asked' \in SUBSET WantedReads /\ asked' # {} /\ made' \in Nat /\ loading'
         /\ \A request \in asked' : request.no <= made' /\ (request.no = made' => request.key = key)
         /\ crossed' \in BOOLEAN
<1> DEFINE new == [no |-> made + 1, key |-> key, change |-> Unserved]
<1>1. made \in Nat /\ asked \in SUBSET WantedReads /\ \A request \in asked : request.no <= made
  BY DEF RaceInv, RaceTypes, Numbered
<1>2. made' = made + 1 /\ asked' = asked \cup {new} /\ loading' /\ crossed' \in BOOLEAN
  BY DEF AskFor
<1>3. new \in WantedReads
  BY <1>1 DEF WantedReads
<1>4. \A request \in asked : request.no \in Nat
  BY <1>1 DEF WantedReads
<1> QED
  BY <1>1, <1>2, <1>3, <1>4

LEMMA ChooseInv ==
  ASSUME RaceInv, NEW key \in Keys, Choose(key)
  PROVE  RaceInv'
<1>1. AskFor(key) /\ key # 0
  BY RaceAssumption DEF Choose
<1> QED
  BY <1>1, AskForStep DEF Choose, RaceInv, RaceTypes, NothingBeforeChoice, Numbered,
     LatestIsWanted, WantedShown, Guarded

LEMMA AskAgainInv ==
  ASSUME RaceInv, AskAgain
  PROVE  RaceInv'
<1>1. wanted \in Keys /\ AskFor(wanted)
  BY DEF RaceInv, RaceTypes, AskAgain
<1> QED
  BY <1>1, AskForStep DEF AskAgain, RaceInv, RaceTypes, NothingBeforeChoice, Numbered,
     LatestIsWanted, WantedShown, Guarded

LEMMA ServeInv ==
  ASSUME RaceInv, NEW request \in asked, Serve(request)
  PROVE  RaceInv'
<1> DEFINE served == [request EXCEPT !.change = stored[request.key]]
<1>1. request \in WantedReads /\ stored[request.key] \in Nat
  BY DEF RaceInv, RaceTypes, WantedReads
<1>2. served \in WantedReads /\ served.no = request.no /\ served.key = request.key
  BY <1>1 DEF WantedReads
<1>3. asked' = (asked \ {request}) \cup {served}
  BY DEF Serve
<1> HIDE DEF served
<1> QED
  BY <1>1, <1>2, <1>3 DEF Serve, RaceInv, RaceTypes, NothingBeforeChoice, Numbered,
     LatestIsWanted, WantedShown, Guarded, Kept, PutBySave

\* An answered read, of the effect or of a handler, is something to show.
LEMMA AnswerShown ==
  ASSUME NEW request \in WantedReads \cup HandlerReads, request.change # Unserved,
         NEW who \in {"read", "save"}
  PROVE  /\ Showing(request, who) \in ShownThings
         /\ Showing(request, who).key = request.key /\ Showing(request, who).by = who
<1>1. request.key \in Keys /\ request.change \in Nat
  BY DEF WantedReads, HandlerReads
<1> QED
  BY <1>1 DEF Showing, ShownThings

LEMMA DeliverInv ==
  ASSUME RaceInv, NEW request \in asked, Deliver(request)
  PROVE  RaceInv'
<1> DEFINE new == Showing(request, "read")
<1>1. request \in WantedReads /\ request.change # Unserved /\ wanted # 0
  BY DEF Deliver, RaceInv, RaceTypes, NothingBeforeChoice
<1>2. new \in ShownThings /\ new.key = request.key
  BY <1>1, AnswerShown
<1>3. CASE open /\ Alive(request)
  <2>1. Guarded => request.key = wanted
    BY <1>3 DEF Guarded, Alive, RaceInv, LatestIsWanted
  <2>2. shown' = new /\ ~loading' /\ ~failed' /\ loading' \in BOOLEAN /\ failed' \in BOOLEAN
    BY <1>3 DEF Deliver
  <2> HIDE DEF new
  <2> QED
    BY <1>1, <1>2, <2>1, <2>2 DEF Deliver, RaceInv, RaceTypes, NothingBeforeChoice, Numbered,
       LatestIsWanted, WantedShown, Guarded
<1>4. CASE ~ (open /\ Alive(request))
  BY <1>1, <1>4 DEF Deliver, RaceInv, RaceTypes, NothingBeforeChoice, Numbered,
     LatestIsWanted, WantedShown, Guarded, Kept, PutBySave
<1> QED
  BY <1>3, <1>4

\* A failure clears the screen or leaves it as it was, and says so.
LEMMA FailureShown ==
  ASSUME RaceInv, shown' = AfterFailure, failed', shape' = shape
  PROVE  shown' \in ShownThings /\ (shown' = Nothing \/ (shown' = shown /\ Kept'))
<1>1. Nothing \in ShownThings /\ shown \in ShownThings
  BY DEF RaceInv, RaceTypes, ShownThings
<1>2. CASE shape.read.onFail = "keep"
  <2>1. shown' = shown
    BY <1>2 DEF AfterFailure
  <2>2. Kept'
    BY <1>2, Zenon DEF Kept
  <2> QED
    BY <1>1, <2>1, <2>2
<1>3. CASE shape.read.onFail # "keep"
  <2>1. shown' = Nothing
    BY <1>3 DEF AfterFailure
  <2> QED
    BY <1>1, <2>1
<1> QED
  BY <1>2, <1>3

LEMMA FailInv ==
  ASSUME RaceInv, NEW request \in asked, Fail(request)
  PROVE  RaceInv'
<1>1. wanted # 0 /\ shape' = shape
  BY DEF Fail, RaceInv, NothingBeforeChoice
<1>2. CASE open /\ Alive(request)
  <2>1. shown' = AfterFailure /\ failed' /\ ~loading' /\ failed' \in BOOLEAN /\ loading' \in BOOLEAN
    BY <1>2 DEF Fail
  <2>2. shown' \in ShownThings /\ (shown' = Nothing \/ (shown' = shown /\ Kept'))
    BY <1>1, <2>1, FailureShown
  <2> QED
    BY <1>1, <2>1, <2>2 DEF Fail, RaceInv, RaceTypes, NothingBeforeChoice, Numbered,
       LatestIsWanted, WantedShown, Guarded
<1>3. CASE ~ (open /\ Alive(request))
  BY <1>1, <1>3 DEF Fail, RaceInv, RaceTypes, NothingBeforeChoice, Numbered, LatestIsWanted,
     WantedShown, Guarded, Kept, PutBySave
<1> QED
  BY <1>2, <1>3

LEMMA PressInv ==
  ASSUME RaceInv, NEW row \in Rows, Press(row)
  PROVE  RaceInv'
<1> DEFINE new == [no |-> saved + 1, row |-> row, body |-> shown.key, change |-> Unserved,
                   to |-> IF shape.write.on = "route" THEN wanted ELSE shown.key, at |-> wanted]
<1>1. shown.key \in Keys /\ wanted \in Keys /\ saved \in Nat
  BY DEF Press, RaceInv, RaceTypes, ShownThings, NothingBeforeChoice
<1>2. new \in SentWrites /\ new.no = saved + 1
  BY <1>1 DEF SentWrites
<1>3. sent' = sent \cup {new} /\ saved' = saved + 1
  BY DEF Press
<1>4. wanted # 0 /\ \A request \in sent : request.no \in Nat /\ request.no <= saved
  BY <1>1, RaceAssumption DEF RaceInv, RaceTypes, SentWrites, Numbered
<1>5. mixed' \in BOOLEAN
  BY DEF Press
<1> HIDE DEF new
<1> QED
  BY <1>1, <1>2, <1>3, <1>4, <1>5 DEF Press, RaceInv, RaceTypes, NothingBeforeChoice, Numbered,
     LatestIsWanted, WantedShown, Guarded, Kept, PutBySave

LEMMA SaveInv ==
  ASSUME RaceInv, NEW request \in sent, Save(request)
  PROVE  RaceInv'
<1> DEFINE done == [request EXCEPT !.change = stored[request.to] + 1]
<1>1. request \in SentWrites /\ stored \in [Keys -> Nat] /\ wanted # 0
  BY DEF RaceInv, RaceTypes, NothingBeforeChoice
<1>2. done \in SentWrites /\ done.no = request.no
  BY <1>1 DEF SentWrites
<1>3. sent' = (sent \ {request}) \cup {done} /\ stored' \in [Keys -> Nat]
  BY <1>1 DEF Save, SentWrites
<1> HIDE DEF done
<1> QED
  BY <1>1, <1>2, <1>3 DEF Save, RaceInv, RaceTypes, NothingBeforeChoice, Numbered,
     LatestIsWanted, WantedShown, Guarded, Kept, PutBySave

\* The read of a handler is of the page its button was pressed on.
LEMMA ReadByTyped ==
  ASSUME RaceInv, NEW request \in sent, ReadBy(request)
  PROVE  again' \in SUBSET HandlerReads
<1>1. request \in SentWrites /\ again \in SUBSET HandlerReads
  BY DEF RaceInv, RaceTypes
<1>2. [no |-> request.no, row |-> request.row, key |-> request.at, change |-> Unserved]
        \in HandlerReads
  BY <1>1 DEF SentWrites, HandlerReads
<1> QED
  BY <1>1, <1>2 DEF ReadBy

\* What follows a save leaves the screen waiting for the wanted key, with what it showed, with
\* nothing or with the record saved.
LEMMA SavedInv ==
  ASSUME RaceInv, NEW request \in sent, Saved(request)
  PROVE  RaceInv'
<1>1. request \in SentWrites /\ request.to \in Keys /\ request.change \in Nat /\ wanted \in Keys
  BY DEF Saved, RaceInv, RaceTypes, SentWrites, NothingBeforeChoice
<1>2. wanted # 0 /\ again \in SUBSET HandlerReads
  BY <1>1, RaceAssumption DEF RaceInv, RaceTypes
<1>3. mine' \in [Keys -> Nat]
  BY <1>1 DEF Saved, RaceInv, RaceTypes
<1>4. mixed' \in BOOLEAN
  BY DEF Saved, EndOf, RaceInv, RaceTypes
<1>5. UNCHANGED <<shape, wanted, stored, failed, saved>> /\ sent' \subseteq sent
  BY DEF Saved
<1>6. CASE open /\ shape.write.then = "reread"
  <2>1. AskFor(wanted) /\ UNCHANGED <<again, shown, open>>
    BY <1>6 DEF Saved, AfterSave
  <2> QED
    BY <1>1, <1>2, <1>3, <1>4, <1>5, <2>1, AskForStep DEF RaceInv, RaceTypes, NothingBeforeChoice,
       Numbered, LatestIsWanted, WantedShown, Guarded
<1>7. CASE ~ (open /\ shape.write.then = "reread")
  <2>1. UNCHANGED <<asked, made, loading>> /\ crossed' \in BOOLEAN /\ open' \in BOOLEAN
    BY <1>7 DEF Saved, AfterSave, RaceInv, RaceTypes
  <2>2. again' \in SUBSET HandlerReads
    BY <1>2, <1>7, ReadByTyped DEF Saved, AfterSave
  <2>3. shown' \in ShownThings /\ (shown' = shown \/ shown' = Nothing \/ shown'.by = "save")
    BY <1>1, <1>7 DEF Saved, AfterSave, RaceInv, RaceTypes, ShownThings
  <2> QED
    BY <1>1, <1>2, <1>3, <1>4, <1>5, <2>1, <2>2, <2>3 DEF RaceInv, RaceTypes, NothingBeforeChoice,
       Numbered, LatestIsWanted, WantedShown, Guarded, Kept, PutBySave
<1> QED
  BY <1>6, <1>7

LEMMA RefusedInv ==
  ASSUME RaceInv, NEW request \in sent, Refused(request)
  PROVE  RaceInv'
<1>1. wanted # 0 /\ again' \in SUBSET HandlerReads /\ mixed' \in BOOLEAN
  BY ReadByTyped DEF Refused, EndOf, RaceInv, RaceTypes, NothingBeforeChoice
<1> QED
  BY <1>1 DEF Refused, RaceInv, RaceTypes, NothingBeforeChoice, Numbered, LatestIsWanted,
     WantedShown, Guarded, Kept, PutBySave

LEMMA ServeAgainInv ==
  ASSUME RaceInv, NEW request \in again, ServeAgain(request)
  PROVE  RaceInv'
<1> DEFINE served == [request EXCEPT !.change = stored[request.key]]
<1>1. request \in HandlerReads /\ stored[request.key] \in Nat /\ wanted # 0
  BY DEF RaceInv, RaceTypes, HandlerReads, NothingBeforeChoice
<1>2. served \in HandlerReads
  BY <1>1 DEF HandlerReads
<1>3. again' = (again \ {request}) \cup {served}
  BY DEF ServeAgain
<1> HIDE DEF served
<1> QED
  BY <1>1, <1>2, <1>3 DEF ServeAgain, RaceInv, RaceTypes, NothingBeforeChoice, Numbered,
     LatestIsWanted, WantedShown, Guarded, Kept, PutBySave

LEMMA DeliverAgainInv ==
  ASSUME RaceInv, NEW request \in again, DeliverAgain(request)
  PROVE  RaceInv'
<1> DEFINE new == Showing(request, "save")
<1>1. request \in HandlerReads /\ request.change # Unserved /\ wanted # 0
  BY DEF DeliverAgain, RaceInv, RaceTypes, NothingBeforeChoice
<1>2. new \in ShownThings /\ new.by = "save"
  BY <1>1, AnswerShown
<1>3. /\ (shown' = new /\ ~failed' /\ failed' \in BOOLEAN) \/ UNCHANGED <<shown, failed>>
      /\ again' \subseteq again /\ mixed' \in BOOLEAN
      /\ UNCHANGED <<shape, wanted, stored, asked, made, loading, sent, saved, mine, crossed, open>>
  BY DEF DeliverAgain, EndOf
<1> HIDE DEF new
<1> QED
  BY <1>1, <1>2, <1>3 DEF RaceInv, RaceTypes, NothingBeforeChoice, Numbered, LatestIsWanted,
     WantedShown, Guarded, Kept, PutBySave

LEMMA FailAgainInv ==
  ASSUME RaceInv, NEW request \in again, FailAgain(request)
  PROVE  RaceInv'
<1>1. /\ wanted # 0 /\ again' \subseteq again /\ mixed' \in BOOLEAN
      /\ UNCHANGED <<shape, wanted, stored, asked, made, loading, sent, saved, mine, crossed, open>>
  BY DEF FailAgain, EndOf, RaceInv, NothingBeforeChoice
<1>2. CASE open
  <2>1. shown' = AfterFailure /\ failed' /\ failed' \in BOOLEAN
    BY <1>2 DEF FailAgain
  <2>2. shown' \in ShownThings /\ (shown' = Nothing \/ (shown' = shown /\ Kept'))
    BY <1>1, <2>1, FailureShown
  <2> QED
    BY <1>1, <2>1, <2>2 DEF RaceInv, RaceTypes, NothingBeforeChoice, Numbered,
       LatestIsWanted, WantedShown, Guarded
<1>3. CASE ~ open
  BY <1>1, <1>3 DEF FailAgain, RaceInv, RaceTypes, NothingBeforeChoice, Numbered, LatestIsWanted,
     WantedShown, Guarded, Kept, PutBySave
<1> QED
  BY <1>2, <1>3

LEMMA RaceStep == RaceInv /\ [RaceNext]_raceVars => RaceInv'
<1> SUFFICES ASSUME RaceInv, [RaceNext]_raceVars PROVE RaceInv'
  OBVIOUS
<1>1. CASE RaceNext
  BY <1>1, RowsOfRows, ChooseInv, AskAgainInv, ServeInv, DeliverInv, FailInv, PressInv,
     SaveInv, SavedInv, RefusedInv, ServeAgainInv, DeliverAgainInv, FailAgainInv DEF RaceNext
<1>2. CASE UNCHANGED raceVars
  BY <1>2 DEF raceVars, RaceInv, RaceTypes, NothingBeforeChoice, Numbered, LatestIsWanted,
     WantedShown, Guarded, Kept, PutBySave
<1> QED
  BY <1>1, <1>2

\* Once every answer is in, a screen whose effect has a cleanup shows what was chosen last,
\* whatever was chosen, served, saved and failed before and in whatever order; a failed load that
\* keeps the old data and the unguarded answers of the handlers are the only exceptions.
THEOREM ChosenIsShown == RaceSpec => []ShowsWhatWasChosen
<1>1. RaceInv => ShowsWhatWasChosen
  BY DEF RaceInv, WantedShown, ShowsWhatWasChosen, Settled
<1> QED
  BY <1>1, RaceInitInv, RaceStep, PTL DEF RaceSpec

\* What SavesTheRecordChosen says of one step.
SavesTheWanted ==
  \A request \in sent' : request.no > saved =>
    \/ request.to = wanted /\ request.body = wanted
    \/ ~Guarded \/ (loading /\ ~shape.read.hides) \/ Kept \/ PutBySave

\* Only a press sends a write with a new number.
LEMMA NoNewWrite ==
  ASSUME RaceInv, \A request \in sent' : \E old \in sent : old.no = request.no
  PROVE  SavesTheWanted
<1> SUFFICES ASSUME NEW request \in sent', request.no > saved PROVE FALSE
  BY DEF SavesTheWanted
<1>1. PICK old \in sent : old.no = request.no
  OBVIOUS
<1>2. old.no \in Nat /\ saved \in Nat /\ old.no <= saved
  BY DEF RaceInv, RaceTypes, SentWrites, Numbered
<1> QED
  BY <1>1, <1>2

LEMMA PressSaves ==
  ASSUME RaceInv, NEW row \in Rows, Press(row)
  PROVE  SavesTheWanted
<1> DEFINE new == [no |-> saved + 1, row |-> row, body |-> shown.key, change |-> Unserved,
                   to |-> IF shape.write.on = "route" THEN wanted ELSE shown.key, at |-> wanted]
<1>1. sent' = sent \cup {new} /\ shown # Nothing /\ (shape.read.hides => ~loading)
  BY DEF Press
<1>2. \A request \in sent : request.no \in Nat /\ request.no <= saved
  BY DEF RaceInv, RaceTypes, SentWrites, Numbered
<1>3. saved \in Nat
  BY DEF RaceInv, RaceTypes
<1>4. shown.key = wanted => new.to = wanted /\ new.body = wanted
  OBVIOUS
<1>5. shown.key = wanted \/ ~Guarded \/ (loading /\ ~shape.read.hides) \/ Kept \/ PutBySave
  BY <1>1 DEF RaceInv, WantedShown
<1> HIDE DEF new
<1> QED
  BY <1>1, <1>2, <1>3, <1>4, <1>5 DEF SavesTheWanted

LEMMA RaceStepSaves == RaceInv /\ RaceNext => SavesTheWanted
<1> SUFFICES ASSUME RaceInv, RaceNext PROVE SavesTheWanted
  OBVIOUS
<1>1. ASSUME NEW row \in RowsOf(shape.write), Press(row) PROVE SavesTheWanted
  BY <1>1, PressSaves, RowsOfRows
<1>2. ASSUME NEW request \in sent, Save(request) PROVE SavesTheWanted
  <2>1. request \in SentWrites
    BY DEF RaceInv, RaceTypes
  <2>2. \A old \in sent' : \E write \in sent : write.no = old.no
    BY <1>2, <2>1 DEF Save, SentWrites
  <2> QED
    BY <2>2, NoNewWrite
<1>3. ASSUME sent' \subseteq sent PROVE SavesTheWanted
  BY <1>3, NoNewWrite
<1> QED
  BY <1>1, <1>2, <1>3 DEF RaceNext, Choose, AskAgain, Serve, Deliver, Fail, Saved, Refused,
     ServeAgain, DeliverAgain, FailAgain

\* A save pressed on a guarded screen carries the record the user chose to the address of that
\* record, in every order of answers, unless its buttons stay in reach while another record
\* loads, or a failed load or a late save has left another record on it.
THEOREM TheChosenIsSaved == RaceSpec => SavesTheRecordChosen
<1>1. RaceInv /\ [RaceNext]_raceVars => [SavesTheWanted]_raceVars
  BY RaceStepSaves
<1> QED
  BY <1>1, RaceInitInv, RaceStep, PTL DEF RaceSpec, SavesTheRecordChosen, SavesTheWanted


\* One request of a row at a time: while only one row is being pressed, a flag or a busy row id
\* stands for the one handler that runs; a screen with a busy state per row has one for each. A
\* handler runs until its save, and the read it may make after it, are answered.
OneWrite ==
  shape.write.lock = "busy" \/ (shape.write.lock = "row" /\ ~mixed) =>
    \A a, b \in Running : a = b /\ a.row \in busy

OneWritePerRow ==
  shape.write.lock = "cell" => \A a, b \in Running : a.row \in busy /\ (a.row = b.row => a = b)

SubmitInv == shape \in Shapes /\ OneWrite /\ OneWritePerRow

\* A save and the read after it are different things: the one has a body.
LEMMA SavesAreNotReads == \A write \in SentWrites, read \in HandlerReads : write # read
<1> SUFFICES ASSUME NEW write \in SentWrites, NEW read \in HandlerReads, write = read PROVE FALSE
  OBVIOUS
<1>1. DOMAIN write = {"no", "row", "body", "change", "to", "at"}
  BY DEF SentWrites
<1>2. DOMAIN read = {"no", "row", "key", "change"}
  BY DEF HandlerReads
<1> QED
  BY <1>1, <1>2

LEMMA PressSubmit ==
  ASSUME RaceInv, SubmitInv, NEW row \in RowsOf(shape.write), Press(row)
  PROVE  OneWrite' /\ OneWritePerRow'
<1> DEFINE new == [no |-> saved + 1, row |-> row, body |-> shown.key, change |-> Unserved,
                   to |-> IF shape.write.on = "route" THEN wanted ELSE shown.key, at |-> wanted]
<1>1. /\ Running' = Running \cup {new} /\ new.row = row /\ shape' = shape
      /\ mixed' = (mixed \/ \E other \in Running : other.row # row)
      /\ Pressable(row) /\ busy' = Disabled(row)
  BY DEF Press, Running
<1> HIDE DEF new
<1>2. CASE shape.write.lock = "busy"
  <2>1. busy = {} /\ busy' = {row}
    BY <1>1, <1>2 DEF Pressable, Disabled
  <2>2. Running = {}
    BY <1>2, <2>1 DEF SubmitInv, OneWrite
  <2> QED
    BY <1>1, <1>2, <2>1, <2>2 DEF OneWrite, OneWritePerRow
<1>3. CASE shape.write.lock = "row"
  <2>1. row \notin busy /\ busy' = {row}
    BY <1>1, <1>3 DEF Pressable, Disabled
  <2>2. ASSUME ~mixed' PROVE Running = {}
    <3>1. ~mixed /\ \A other \in Running : other.row = row
      BY <1>1, <2>2 DEF RaceInv, RaceTypes
    <3>2. \A other \in Running : other.row \in busy
      BY <1>3, <3>1 DEF SubmitInv, OneWrite
    <3> QED
      BY <2>1, <3>1, <3>2
  <2> QED
    BY <1>1, <1>3, <2>1, <2>2 DEF OneWrite, OneWritePerRow
<1>4. CASE shape.write.lock = "cell"
  <2>1. row \notin busy /\ busy' = busy \cup {row}
    BY <1>1, <1>4 DEF Pressable, Disabled
  <2> QED
    BY <1>1, <1>4, <2>1 DEF SubmitInv, OneWrite, OneWritePerRow
<1>5. CASE shape.write.lock \notin {"busy", "row", "cell"}
  BY <1>1, <1>5 DEF OneWrite, OneWritePerRow
<1> QED
  BY <1>2, <1>3, <1>4, <1>5

\* A handler that goes on keeps its row and what is disabled.
LEMMA GoesOnSubmit ==
  ASSUME SubmitInv, NEW request \in Running, NEW next, next.row = request.row,
         Running' = (Running \ {request}) \cup {next}, UNCHANGED <<shape, busy, mixed>>
  PROVE  OneWrite' /\ OneWritePerRow'
BY DEF SubmitInv, OneWrite, OneWritePerRow

\* However a handler ends, its row is enabled again and no other one of the row is running.
LEMMA EndedSubmit ==
  ASSUME SubmitInv, NEW request \in Running, Running' = Running \ {request}, shape' = shape,
         EndOf(request.row)
  PROVE  OneWrite' /\ OneWritePerRow'
<1>0. busy' = Enabled(request.row) /\ mixed' = (mixed /\ Running' # {})
  BY DEF EndOf
<1>1. CASE shape.write.lock = "busy" \/ (shape.write.lock = "row" /\ ~mixed)
  <2>1. Running' = {}
    BY <1>1 DEF SubmitInv, OneWrite
  <2> QED
    BY <2>1 DEF OneWrite, OneWritePerRow
<1>2. CASE shape.write.lock = "row" /\ mixed
  <2>1. CASE Running' = {}
    BY <2>1 DEF OneWrite, OneWritePerRow
  <2>2. CASE Running' # {}
    BY <1>0, <1>2, <2>2 DEF OneWrite, OneWritePerRow
  <2> QED
    BY <2>1, <2>2
<1>3. CASE shape.write.lock = "cell"
  BY <1>0, <1>3 DEF Enabled, SubmitInv, OneWrite, OneWritePerRow
<1>4. CASE shape.write.lock \notin {"busy", "row", "cell"}
  BY <1>4 DEF OneWrite, OneWritePerRow
<1> QED
  BY <1>1, <1>2, <1>3, <1>4

LEMMA SaveSubmit ==
  ASSUME RaceInv, SubmitInv, NEW request \in sent, Save(request)
  PROVE  OneWrite' /\ OneWritePerRow'
<1> DEFINE done == [request EXCEPT !.change = stored[request.to] + 1]
<1>1. request \in SentWrites /\ sent \subseteq SentWrites /\ again \subseteq HandlerReads
  BY DEF RaceInv, RaceTypes
<1>2. done.row = request.row
  BY <1>1 DEF SentWrites
<1>3. sent' = (sent \ {request}) \cup {done} /\ UNCHANGED <<shape, busy, mixed, again>>
  BY DEF Save
<1> HIDE DEF done
<1>4. request \in Running /\ Running' = (Running \ {request}) \cup {done}
  BY <1>1, <1>3, SavesAreNotReads DEF Running
<1> QED
  BY <1>2, <1>3, <1>4, GoesOnSubmit

\* An answered save gives way to the read after it, or ends its handler.
LEMMA AnsweredSubmit ==
  ASSUME RaceInv, SubmitInv, NEW request \in sent, Saved(request) \/ Refused(request)
  PROVE  OneWrite' /\ OneWritePerRow'
<1> DEFINE next == [no |-> request.no, row |-> request.row, key |-> request.at, change |-> Unserved]
<1>1. request \in SentWrites /\ sent \subseteq SentWrites /\ again \subseteq HandlerReads
  BY DEF RaceInv, RaceTypes
<1>2. request \in Running /\ sent' = sent \ {request} /\ shape' = shape
  BY DEF Running, Saved, Refused
<1>3. CASE ReadBy(request) /\ UNCHANGED <<busy, mixed>>
  <2>1. again' = again \cup {next} /\ next.row = request.row
    BY <1>3 DEF ReadBy
  <2> HIDE DEF next
  <2>2. Running' = (Running \ {request}) \cup {next}
    BY <1>1, <1>2, <2>1, SavesAreNotReads DEF Running
  <2> QED
    BY <1>2, <1>3, <2>1, <2>2, GoesOnSubmit
<1>4. CASE again' = again /\ EndOf(request.row)
  <2>1. Running' = Running \ {request}
    BY <1>1, <1>2, <1>4, SavesAreNotReads DEF Running
  <2> QED
    BY <1>2, <1>4, <2>1, EndedSubmit
<1>5. (ReadBy(request) /\ UNCHANGED <<busy, mixed>>) \/ (again' = again /\ EndOf(request.row))
  <2>1. CASE open /\ shape.write.then = "reload" /\ Saved(request)
    BY <2>1 DEF Saved, AfterSave
  <2>2. CASE ~ (open /\ shape.write.then = "reload") /\ Saved(request)
    <3>1. EndOf(request.row)
      BY <2>2 DEF Saved
    <3>2. again' = again
      BY <2>2 DEF Saved, AfterSave
    <3> QED
      BY <3>1, <3>2
  <2>3. CASE Refused(request)
    BY <2>3 DEF Refused
  <2> QED
    BY <2>1, <2>2, <2>3
<1> QED
  BY <1>3, <1>4, <1>5

LEMMA AgainSubmit ==
  ASSUME RaceInv, SubmitInv, NEW request \in again,
         ServeAgain(request) \/ DeliverAgain(request) \/ FailAgain(request)
  PROVE  OneWrite' /\ OneWritePerRow'
<1> DEFINE served == [request EXCEPT !.change = stored[request.key]]
<1>1. request \in HandlerReads /\ sent \subseteq SentWrites /\ again \subseteq HandlerReads
  BY DEF RaceInv, RaceTypes
<1>2. request \in Running /\ sent' = sent /\ shape' = shape
  BY DEF Running, ServeAgain, DeliverAgain, FailAgain
<1>3. CASE ServeAgain(request)
  <2>1. again' = (again \ {request}) \cup {served} /\ UNCHANGED <<busy, mixed>>
    BY <1>3 DEF ServeAgain
  <2>2. served.row = request.row
    BY <1>1 DEF HandlerReads
  <2> HIDE DEF served
  <2>3. Running' = (Running \ {request}) \cup {served}
    BY <1>1, <1>2, <2>1, SavesAreNotReads DEF Running
  <2> QED
    BY <1>2, <2>1, <2>2, <2>3, GoesOnSubmit
<1>4. CASE DeliverAgain(request) \/ FailAgain(request)
  <2>1. again' = again \ {request} /\ EndOf(request.row)
    BY <1>4 DEF DeliverAgain, FailAgain
  <2>2. Running' = Running \ {request}
    BY <1>1, <1>2, <2>1, SavesAreNotReads DEF Running
  <2> QED
    BY <1>2, <2>1, <2>2, EndedSubmit
<1> QED
  BY <1>3, <1>4

LEMMA ShapeStays == [RaceNext]_raceVars => shape' = shape
<1>1. /\ \A key : Choose(key) => shape' = shape
      /\ AskAgain => shape' = shape
      /\ \A request : Serve(request) \/ Deliver(request) \/ Fail(request) => shape' = shape
  BY DEF Choose, AskAgain, Serve, Deliver, Fail
<1>2. /\ \A row : Press(row) => shape' = shape
      /\ \A request : Save(request) \/ Saved(request) \/ Refused(request) => shape' = shape
  BY DEF Press, Save, Saved, Refused
<1>3. \A request : ServeAgain(request) \/ DeliverAgain(request) \/ FailAgain(request)
                     => shape' = shape
  BY DEF ServeAgain, DeliverAgain, FailAgain
<1> QED
  BY <1>1, <1>2, <1>3 DEF RaceNext, raceVars

LEMMA SubmitStep == RaceInv /\ SubmitInv /\ [RaceNext]_raceVars => SubmitInv'
<1> SUFFICES ASSUME RaceInv, SubmitInv, [RaceNext]_raceVars PROVE OneWrite' /\ OneWritePerRow'
  BY ShapeStays DEF SubmitInv
<1>1. ASSUME UNCHANGED <<shape, sent, again, busy, mixed>> PROVE OneWrite' /\ OneWritePerRow'
  BY <1>1 DEF SubmitInv, OneWrite, OneWritePerRow, Running
<1>2. CASE \/ \E key \in Keys : Choose(key)
           \/ AskAgain
           \/ \E request \in asked : Serve(request) \/ Deliver(request) \/ Fail(request)
           \/ UNCHANGED raceVars
  BY <1>1, <1>2 DEF Choose, AskAgain, Serve, Deliver, Fail, raceVars
<1>3. CASE \E row \in RowsOf(shape.write) : Press(row)
  BY <1>3, PressSubmit
<1>4. CASE \E request \in sent : Save(request) \/ Saved(request) \/ Refused(request)
  BY <1>4, SaveSubmit, AnsweredSubmit
<1>5. CASE \E request \in again : ServeAgain(request) \/ DeliverAgain(request) \/ FailAgain(request)
  BY <1>5, AgainSubmit
<1> QED
  BY <1>2, <1>3, <1>4, <1>5 DEF RaceNext

\* While a save of a row is on its way no second one of that row is sent, on every screen of the
\* catalogue that locks its buttons, for every number of rows; a screen with one busy row id
\* (linkingDebtId, setBusyId) lets it happen only after another row has taken the id's place.
THEOREM SubmittedOnce == RaceSpec => []NoDoubleSubmit
<1>1. RaceInit(Shapes) => SubmitInv
  BY DEF RaceInit, SubmitInv, OneWrite, OneWritePerRow, Running
<1>2. SubmitInv => NoDoubleSubmit
  <2> SUFFICES ASSUME SubmitInv, NEW a \in sent, NEW b \in sent, a # b, a.row = b.row
               PROVE  shape.write.lock = "none" \/ (shape.write.lock = "row" /\ mixed)
    BY DEF NoDoubleSubmit
  <2>1. shape.write.lock \in Locks /\ a \in Running /\ b \in Running
    BY ShapesAssumption DEF SubmitInv, Running
  <2> QED
    BY <2>1 DEF Locks, SubmitInv, OneWrite, OneWritePerRow
<1> QED
  BY <1>1, <1>2, RaceInitInv, RaceStep, SubmitStep, PTL DEF RaceSpec

\* No answer is older than what the user was told: what the server has stored is the latest change,
\* and a write that was saved carries it.
ToldIsStored ==
  /\ \A key \in Keys : mine[key] <= stored[key]
  /\ \A request \in sent : request.change # Unserved => request.change <= stored[request.to]

\* Handlers read where a save is followed by a read, or a refusal is.
HandlersRead == again # {} => shape.write.then = "reload" \/ shape.write.again

ReadsAgain == Guarded /\ open /\ ~crossed /\ shape.write.then \in {"patch", "reload", "reread"}

\* Until a save has crossed other requests, the latest read of the effect and every read of a
\* handler, once served, carry what the user was told, and an answer to be shown as it comes is
\* the one change not yet told.
LatestIsCurrent ==
  ReadsAgain => \A request \in asked :
    request.no = made /\ request.change # Unserved => request.change >= mine[request.key]

AgainIsCurrent ==
  ReadsAgain => \A request \in again :
    request.change # Unserved => request.change >= mine[request.key]

PatchIsCurrent ==
  ReadsAgain /\ shape.write.then = "patch" => \A request \in sent :
    request.change # Unserved => request.change >= mine[request.to]

CurrentShown ==
  ReadsAgain /\ ~loading /\ again = {} /\ ~failed /\ shown # Nothing =>
    shown.change >= mine[shown.key]

OwnInv ==
  /\ shape \in Shapes /\ ToldIsStored /\ HandlersRead
  /\ LatestIsCurrent /\ AgainIsCurrent /\ PatchIsCurrent /\ CurrentShown

\* Asking again leaves nothing to show until the answer comes; requests that crossed before are
\* forgotten only when none is on its way.
LEMMA AskForOwn ==
  ASSUME RaceInv, OwnInv, NEW key \in Keys, AskFor(key),
         UNCHANGED <<shape, stored, again, sent, mine, open>>
  PROVE  OwnInv'
<1> DEFINE new == [no |-> made + 1, key |-> key, change |-> Unserved]
<1>1. made \in Nat /\ asked \in SUBSET WantedReads /\ \A request \in asked : request.no <= made
  BY DEF RaceInv, RaceTypes, Numbered
<1>2. \A request \in asked : request.no \in Nat
  BY <1>1 DEF WantedReads
<1>3. made' = made + 1 /\ asked' = asked \cup {new} /\ loading'
      /\ crossed' = (crossed /\ asked \cup Running # {})
  BY DEF AskFor
<1>4. \A request \in asked' : request.no = made' => request.change = Unserved
  BY <1>1, <1>2, <1>3
<1>5. LatestIsCurrent' /\ CurrentShown'
  BY <1>3, <1>4 DEF LatestIsCurrent, CurrentShown
<1>6. ReadsAgain' => ReadsAgain \/ (sent = {} /\ again = {})
  BY <1>3 DEF ReadsAgain, Guarded, Running
<1>7. AgainIsCurrent' /\ PatchIsCurrent'
  BY <1>6 DEF OwnInv, AgainIsCurrent, PatchIsCurrent
<1> QED
  BY <1>5, <1>7 DEF OwnInv, ToldIsStored, HandlersRead

LEMMA ServeOwn ==
  ASSUME RaceInv, OwnInv, NEW request \in asked, Serve(request)
  PROVE  OwnInv'
<1> DEFINE served == [request EXCEPT !.change = stored[request.key]]
<1>1. request \in WantedReads /\ mine[request.key] \in Nat /\ stored[request.key] \in Nat
  BY DEF RaceInv, RaceTypes, WantedReads
<1>2. served.change >= mine[served.key]
  BY <1>1 DEF OwnInv, ToldIsStored, WantedReads
<1>3. asked' = (asked \ {request}) \cup {served}
      /\ UNCHANGED <<shape, stored, made, again, shown, loading, failed, sent, mine, crossed, open>>
  BY DEF Serve
<1> HIDE DEF served
<1> QED
  BY <1>2, <1>3 DEF OwnInv, ToldIsStored, HandlersRead, LatestIsCurrent, AgainIsCurrent,
     PatchIsCurrent, CurrentShown, ReadsAgain, Guarded

LEMMA DeliverOwn ==
  ASSUME RaceInv, OwnInv, NEW request \in asked, Deliver(request)
  PROVE  OwnInv'
<1> DEFINE new == Showing(request, "read")
<1>1. asked' \subseteq asked /\ request.change # Unserved
      /\ UNCHANGED <<shape, stored, made, again, sent, mine, crossed, open>>
  BY DEF Deliver
<1>2. /\ shape' \in Shapes /\ ToldIsStored' /\ HandlersRead'
      /\ LatestIsCurrent' /\ AgainIsCurrent' /\ PatchIsCurrent'
  BY <1>1 DEF OwnInv, ToldIsStored, HandlersRead, LatestIsCurrent, AgainIsCurrent, PatchIsCurrent,
     ReadsAgain, Guarded
<1>3. ASSUME ReadsAgain /\ Alive(request) PROVE CurrentShown'
  <2>1. request.change >= mine[request.key]
    BY <1>1, <1>3 DEF OwnInv, LatestIsCurrent, ReadsAgain, Guarded, Alive
  <2>2. shown' = new /\ mine' = mine
    BY <1>3 DEF Deliver, ReadsAgain
  <2> QED
    BY <2>1, <2>2 DEF CurrentShown, Showing
<1>4. ASSUME ReadsAgain /\ ~ Alive(request) PROVE CurrentShown'
  BY <1>1, <1>4 DEF Deliver, OwnInv, CurrentShown, ReadsAgain, Guarded
<1>5. ASSUME ~ ReadsAgain PROVE CurrentShown'
  BY <1>1, <1>5 DEF CurrentShown, ReadsAgain, Guarded
<1> QED
  BY <1>2, <1>3, <1>4, <1>5 DEF OwnInv

LEMMA FailOwn ==
  ASSUME RaceInv, OwnInv, NEW request \in asked, Fail(request)
  PROVE  OwnInv'
BY DEF Fail, OwnInv, ToldIsStored, HandlersRead, LatestIsCurrent, AgainIsCurrent, PatchIsCurrent,
       CurrentShown, ReadsAgain, Guarded

LEMMA PressOwn ==
  ASSUME RaceInv, OwnInv, NEW row \in Rows, Press(row)
  PROVE  OwnInv'
<1> DEFINE new == [no |-> saved + 1, row |-> row, body |-> shown.key, change |-> Unserved,
                   to |-> IF shape.write.on = "route" THEN wanted ELSE shown.key, at |-> wanted]
<1>1. sent' = sent \cup {new} /\ new.change = Unserved
      /\ UNCHANGED <<shape, stored, asked, made, again, shown, loading, failed, mine, crossed, open>>
  BY DEF Press
<1> HIDE DEF new
<1> QED
  BY <1>1 DEF OwnInv, ToldIsStored, HandlersRead, LatestIsCurrent, AgainIsCurrent, PatchIsCurrent,
     CurrentShown, ReadsAgain, Guarded

LEMMA SaveOwn ==
  ASSUME RaceInv, OwnInv, NEW request \in sent, Save(request)
  PROVE  OwnInv'
<1> DEFINE done == [request EXCEPT !.change = stored[request.to] + 1]
<1>1. request \in SentWrites /\ request.to \in Keys /\ stored \in [Keys -> Nat] /\ mine \in [Keys -> Nat]
      /\ sent \in SUBSET SentWrites
  BY DEF RaceInv, RaceTypes, SentWrites
<1>2. done.to = request.to /\ done.change = stored[request.to] + 1 /\ done.change \in Nat
  BY <1>1 DEF SentWrites
<1>3. /\ sent' = (sent \ {request}) \cup {done}
      /\ stored' = [stored EXCEPT ![request.to] = @ + 1]
      /\ UNCHANGED <<shape, asked, made, again, shown, loading, failed, mine, crossed, open>>
  BY DEF Save
<1> HIDE DEF done
<1>4. \A key \in Keys : stored'[key] \in Nat /\ stored[key] <= stored'[key]
  BY <1>1, <1>3
<1>5. stored'[request.to] = stored[request.to] + 1
  BY <1>1, <1>3
<1>6. \A other \in sent : other.to \in Keys /\ other.change \in Nat \cup {Unserved}
  BY <1>1 DEF SentWrites
<1>7. ToldIsStored'
  <2>1. \A key \in Keys : mine'[key] <= stored'[key]
    BY <1>1, <1>3, <1>4 DEF OwnInv, ToldIsStored
  <2>2. \A other \in sent : other.change # Unserved => other.change <= stored'[other.to]
    <3> SUFFICES ASSUME NEW other \in sent, other.change # Unserved
                 PROVE  other.change <= stored'[other.to]
      OBVIOUS
    <3>1. other.change \in Nat /\ stored[other.to] \in Nat /\ other.change <= stored[other.to]
      BY <1>1, <1>6 DEF OwnInv, ToldIsStored
    <3> QED
      BY <1>4, <1>6, <3>1
  <2> QED
    BY <1>2, <1>3, <1>5, <2>1, <2>2 DEF ToldIsStored
<1>8. PatchIsCurrent'
  <2>1. mine[request.to] \in Nat /\ stored[request.to] \in Nat /\ mine[request.to] <= stored[request.to]
    BY <1>1 DEF OwnInv, ToldIsStored
  <2>2. done.change >= mine[done.to]
    BY <1>2, <2>1
  <2> QED
    BY <1>3, <2>2 DEF OwnInv, PatchIsCurrent, ReadsAgain, Guarded
<1>9. shape' \in Shapes /\ HandlersRead' /\ LatestIsCurrent' /\ AgainIsCurrent' /\ CurrentShown'
  BY <1>3 DEF OwnInv, HandlersRead, LatestIsCurrent, AgainIsCurrent, CurrentShown, ReadsAgain, Guarded
<1> QED
  BY <1>7, <1>8, <1>9 DEF OwnInv

\* The change the answer tells is the only one that grows.
LEMMA ToldGrows ==
  ASSUME RaceInv, OwnInv, NEW request \in sent, Saved(request)
  PROVE  /\ ToldIsStored'
         /\ request.to \in Keys /\ request.change \in Nat
         /\ mine'[request.to] = (IF mine[request.to] > request.change THEN mine[request.to]
                                 ELSE request.change)
<1>1. request \in SentWrites /\ request.to \in Keys /\ request.change \in Nat
      /\ stored \in [Keys -> Nat] /\ mine \in [Keys -> Nat]
  BY DEF Saved, RaceInv, RaceTypes, SentWrites
<1>2. mine' = [mine EXCEPT ![request.to] = IF @ > request.change THEN @ ELSE request.change]
      /\ stored' = stored /\ sent' \subseteq sent
  BY DEF Saved
<1>3. request.change <= stored[request.to]
  BY DEF Saved, OwnInv, ToldIsStored
<1>4. ToldIsStored'
  BY <1>1, <1>2, <1>3 DEF OwnInv, ToldIsStored
<1> QED
  BY <1>1, <1>2, <1>4

\* The answer of a save is shown as it comes: it is the latest change, or it has crossed another.
LEMMA PatchedOwn ==
  ASSUME RaceInv, OwnInv, NEW request \in sent, Saved(request), open, shape.write.then = "patch"
  PROVE  LatestIsCurrent' /\ AgainIsCurrent' /\ PatchIsCurrent' /\ CurrentShown'
<1>1. /\ shape' = shape /\ UNCHANGED <<asked, made, again, loading, open>>
      /\ shown' = [key |-> request.to, change |-> request.change, by |-> "save"]
      /\ crossed' = (crossed \/ asked \cup again \cup sent' # {})
  BY DEF Saved, AfterSave
<1> SUFFICES ASSUME ReadsAgain' PROVE asked' = {} /\ again' = {} /\ sent' = {}
                                      /\ shown'.change >= mine'[shown'.key]
  BY DEF LatestIsCurrent, AgainIsCurrent, PatchIsCurrent, CurrentShown
<1>2. ~crossed' /\ Guarded
  BY <1>1 DEF ReadsAgain, Guarded
<1>3. ~crossed /\ asked = {} /\ again = {} /\ sent' = {}
  BY <1>1, <1>2
<1>4. ReadsAgain
  BY <1>2, <1>3 DEF ReadsAgain
<1>5. request.change >= mine[request.to]
  BY <1>4 DEF Saved, OwnInv, PatchIsCurrent
<1>6. mine[request.to] \in Nat /\ mine'[request.to] = request.change
  BY <1>5, ToldGrows DEF RaceInv, RaceTypes
<1>7. shown'.key = request.to /\ shown'.change = request.change
  BY <1>1
<1> QED
  BY <1>1, <1>3, <1>6, <1>7, ToldGrows

\* The read a handler makes starts after the save: unless others are on their way, it is the only
\* one that will be shown.
LEMMA ReloadedOwn ==
  ASSUME RaceInv, OwnInv, NEW request \in sent, Saved(request), open, shape.write.then = "reload"
  PROVE  LatestIsCurrent' /\ AgainIsCurrent' /\ PatchIsCurrent' /\ CurrentShown'
<1>1. /\ shape' = shape /\ UNCHANGED <<asked, made, shown, loading, open>> /\ ReadBy(request)
      /\ crossed' = (crossed \/ asked \cup again # {})
  BY DEF Saved, AfterSave
<1>2. ASSUME ReadsAgain' PROVE asked' = {} /\ again = {}
  BY <1>1, <1>2 DEF ReadsAgain
<1>3. \A read \in again' : read \in again \/ read.change = Unserved
  BY <1>1 DEF ReadBy
<1>4. again' # {}
  BY <1>1 DEF ReadBy
<1> QED
  BY <1>1, <1>2, <1>3, <1>4 DEF LatestIsCurrent, AgainIsCurrent, PatchIsCurrent, CurrentShown

\* The effect runs again: its read starts after the save and retires the earlier ones.
LEMMA RereadOwn ==
  ASSUME RaceInv, OwnInv, NEW request \in sent, Saved(request), open, shape.write.then = "reread"
  PROVE  LatestIsCurrent' /\ AgainIsCurrent' /\ PatchIsCurrent' /\ CurrentShown'
<1> DEFINE new == [no |-> made + 1, key |-> wanted, change |-> Unserved]
<1>1. AskFor(wanted) /\ UNCHANGED <<again, shown, open>> /\ shape' = shape
  BY DEF Saved, AfterSave
<1>2. again' = {}
  BY <1>1, ShapesAssumption DEF OwnInv, HandlersRead
<1>3. made' = made + 1 /\ asked' = asked \cup {new} /\ loading'
  BY <1>1 DEF AskFor
<1>4. made \in Nat /\ \A read \in asked : read.no \in Nat /\ read.no <= made
  BY DEF RaceInv, RaceTypes, Numbered, WantedReads
<1>5. \A read \in asked' : read.no = made' => read.change = Unserved
  BY <1>3, <1>4
<1> QED
  BY <1>1, <1>2, <1>3, <1>5 DEF LatestIsCurrent, AgainIsCurrent, PatchIsCurrent, CurrentShown

LEMMA SavedOwn ==
  ASSUME RaceInv, OwnInv, NEW request \in sent, Saved(request)
  PROVE  OwnInv'
<1>1. shape' = shape
  BY DEF Saved
<1>2. HandlersRead'
  <2>1. again' = again \/ shape.write.then = "reload"
    BY DEF Saved, AfterSave
  <2> QED
    BY <1>1, <2>1 DEF OwnInv, HandlersRead
<1>3. LatestIsCurrent' /\ AgainIsCurrent' /\ PatchIsCurrent' /\ CurrentShown'
  <2>1. CASE open /\ shape.write.then \in {"patch", "reload", "reread"}
    BY <2>1, PatchedOwn, ReloadedOwn, RereadOwn
  <2>2. CASE ~ (open /\ shape.write.then \in {"patch", "reload", "reread"})
    <3>1. ~ ReadsAgain'
      BY <1>1, <2>2 DEF Saved, ReadsAgain
    <3> QED
      BY <3>1 DEF LatestIsCurrent, AgainIsCurrent, PatchIsCurrent, CurrentShown
  <2> QED
    BY <2>1, <2>2
<1> QED
  BY <1>1, <1>2, <1>3, ToldGrows DEF OwnInv

LEMMA RefusedOwn ==
  ASSUME RaceInv, OwnInv, NEW request \in sent, Refused(request)
  PROVE  OwnInv'
<1>1. /\ sent' \subseteq sent
      /\ UNCHANGED <<shape, stored, asked, made, shown, loading, failed, mine, crossed, open>>
  BY DEF Refused
<1>2. again' = again \/ (shape.write.again /\ ReadBy(request))
  BY DEF Refused
<1>3. HandlersRead'
  BY <1>1, <1>2 DEF OwnInv, HandlersRead
<1>4. ASSUME ReadsAgain' PROVE again' = again /\ ReadsAgain
  BY <1>1, <1>2, <1>4, ShapesAssumption DEF OwnInv, ReadsAgain, Guarded
<1> QED
  BY <1>1, <1>3, <1>4 DEF OwnInv, ToldIsStored, LatestIsCurrent, AgainIsCurrent, PatchIsCurrent,
     CurrentShown

LEMMA ServeAgainOwn ==
  ASSUME RaceInv, OwnInv, NEW request \in again, ServeAgain(request)
  PROVE  OwnInv'
<1> DEFINE served == [request EXCEPT !.change = stored[request.key]]
<1>1. request \in HandlerReads /\ mine[request.key] \in Nat /\ stored[request.key] \in Nat
  BY DEF RaceInv, RaceTypes, HandlerReads
<1>2. served.change >= mine[served.key]
  BY <1>1 DEF OwnInv, ToldIsStored, HandlerReads
<1>3. again' = (again \ {request}) \cup {served}
      /\ UNCHANGED <<shape, stored, asked, made, shown, loading, failed, sent, mine, crossed, open>>
  BY DEF ServeAgain
<1> HIDE DEF served
<1> QED
  BY <1>2, <1>3 DEF OwnInv, ToldIsStored, HandlersRead, LatestIsCurrent, AgainIsCurrent,
     PatchIsCurrent, CurrentShown, ReadsAgain, Guarded

LEMMA DeliverAgainOwn ==
  ASSUME RaceInv, OwnInv, NEW request \in again, DeliverAgain(request)
  PROVE  OwnInv'
<1> DEFINE new == Showing(request, "save")
<1>1. again' \subseteq again /\ request.change # Unserved
      /\ UNCHANGED <<shape, stored, asked, made, sent, mine, crossed, open>>
  BY DEF DeliverAgain
<1>2. /\ shape' \in Shapes /\ ToldIsStored' /\ HandlersRead'
      /\ LatestIsCurrent' /\ AgainIsCurrent' /\ PatchIsCurrent'
  BY <1>1 DEF OwnInv, ToldIsStored, HandlersRead, LatestIsCurrent, AgainIsCurrent, PatchIsCurrent,
     ReadsAgain, Guarded
<1>3. ASSUME ReadsAgain PROVE CurrentShown'
  <2>1. request.change >= mine[request.key]
    BY <1>1, <1>3 DEF OwnInv, AgainIsCurrent
  <2>2. shown' = new /\ mine' = mine
    BY <1>3 DEF DeliverAgain, ReadsAgain
  <2> QED
    BY <2>1, <2>2 DEF CurrentShown, Showing
<1>4. ASSUME ~ ReadsAgain PROVE CurrentShown'
  BY <1>1, <1>4 DEF CurrentShown, ReadsAgain, Guarded
<1> QED
  BY <1>2, <1>3, <1>4 DEF OwnInv

LEMMA FailAgainOwn ==
  ASSUME RaceInv, OwnInv, NEW request \in again, FailAgain(request)
  PROVE  OwnInv'
<1>1. again' \subseteq again
      /\ UNCHANGED <<shape, stored, asked, made, sent, mine, crossed, open>>
  BY DEF FailAgain
<1>2. ~ open \/ failed'
  BY DEF FailAgain
<1>3. CurrentShown'
  BY <1>1, <1>2 DEF CurrentShown, ReadsAgain
<1> QED
  BY <1>1, <1>3 DEF OwnInv, ToldIsStored, HandlersRead, LatestIsCurrent, AgainIsCurrent,
     PatchIsCurrent, ReadsAgain, Guarded

LEMMA OwnStep == RaceInv /\ OwnInv /\ [RaceNext]_raceVars => OwnInv'
<1> SUFFICES ASSUME RaceInv, OwnInv, [RaceNext]_raceVars PROVE OwnInv'
  OBVIOUS
<1>1. ASSUME NEW key \in Keys, Choose(key) PROVE OwnInv'
  BY <1>1, AskForOwn DEF Choose
<1>2. ASSUME AskAgain PROVE OwnInv'
  <2>1. wanted \in Keys /\ AskFor(wanted)
    BY <1>2 DEF RaceInv, RaceTypes, AskAgain
  <2> QED
    BY <1>2, <2>1, AskForOwn DEF AskAgain
<1>3. CASE RaceNext
  BY <1>1, <1>2, <1>3, RowsOfRows, ServeOwn, DeliverOwn, FailOwn, PressOwn, SaveOwn, SavedOwn,
     RefusedOwn, ServeAgainOwn, DeliverAgainOwn, FailAgainOwn DEF RaceNext
<1>4. CASE UNCHANGED raceVars
  BY <1>4 DEF raceVars, OwnInv, ToldIsStored, HandlersRead, LatestIsCurrent, AgainIsCurrent,
     PatchIsCurrent, CurrentShown, ReadsAgain, Guarded
<1> QED
  BY <1>3, <1>4

\* A user who was told that his change is saved sees it or a later one: the answer of the save, the
\* record its handler reads again or the effect that runs again, unless the answer of a save met
\* other requests on their way, which the unguarded answers may then overtake.
THEOREM OwnChangeIsSeen == RaceSpec => []OwnChangeStays
<1>1. RaceInit(Shapes) => OwnInv
  BY RaceAssumption DEF RaceInit, OwnInv, ToldIsStored, HandlersRead, LatestIsCurrent,
     AgainIsCurrent, PatchIsCurrent, CurrentShown
<1>2. OwnInv => OwnChangeStays
  BY DEF OwnInv, CurrentShown, ReadsAgain, OwnChangeStays, Settled
<1> QED
  BY <1>1, <1>2, RaceInitInv, RaceStep, OwnStep, PTL DEF RaceSpec
-----------------------------------------------------------------------------
(* Permission codes across the client and the server. Nothing below says    *)
(* what a role may be: it holds for every set of codes, where the runs try  *)
(* the least sets that meet a demand.                                       *)

\* Codes that meet a demand meet every demand it covers.
LEMMA CoversGrants ==
    ASSUME NEW held, NEW met, NEW demand, Grants(held, met), Covers(met, demand)
    PROVE  Grants(held, demand)
BY DEF Grants, Covers

LEMMA GrantsJoins ==
    ASSUME NEW held, NEW one, NEW other, Grants(held, one), Grants(held, other)
    PROVE  Grants(held, one \cup other)
BY DEF Grants

\* The link of a page that is shown leads to a page that opens.
LEMMA FollowLeads ==
    ASSUME desk \in Desks, Follow, at' = "turned away"
    PROVE  desk.known
<1>1. desk.to # "" /\ Admits(codes, desk.guard) /\ Visible(desk) /\ ~ Admits(codes, desk.beyond)
  BY CodesAssumption DEF Follow
<1>2. desk.gate = "live"
  BY <1>1, CodesAssumption
<1>3. Grants(codes, desk.guard) /\ Grants(codes, desk.asks) /\ ~ Grants(codes, desk.beyond)
  BY <1>1, <1>2 DEF Admits, Visible, Consulted
<1>4. Grants(codes, desk.guard \cup desk.asks)
  BY <1>3, GrantsJoins
<1>5. ~ Covers(desk.guard \cup desk.asks, desk.beyond)
  BY <1>3, <1>4, CoversGrants
<1> QED
  BY <1>1, <1>5, CodesAssumption

\* A use of a control is served when the codes are those of the role and the page is as new.
LEMMA UseServed ==
    ASSUME desk \in Desks, NEW way \in desk.ways, Use(way),
           ~ desk.known, codes = role, captured = codes, codes # {}
    PROVE  outcome' = "served"
<1>1. /\ Grants(role, desk.guard) /\ Grants(role, desk.asks) /\ Grants(role, way.asks)
  BY DEF Use, Admits, Visible, Consulted
<1>2. Grants(role, desk.guard \cup desk.asks)
  BY <1>1, GrantsJoins
<1>3. Grants(role, desk.guard \cup desk.asks \cup way.asks)
  BY <1>1, <1>2, GrantsJoins
<1>4. Covers(desk.guard \cup desk.asks \cup way.asks, way.needs)
  BY CodesAssumption
<1>5. Grants(role, way.needs)
  BY <1>3, <1>4, CoversGrants
<1> QED
  BY <1>5 DEF Use

AccessInv == desk \in Desks /\ LinksLead

LEMMA AccessInvKept == AccessInv /\ [AccessNext]_accessVars => AccessInv'
<1> SUFFICES ASSUME AccessInv, [AccessNext]_accessVars PROVE AccessInv'
    OBVIOUS
<1>1. CASE ChangeRole \/ RefreshCodes \/ OpenPage \/ SendHome
  BY <1>1 DEF AccessInv, LinksLead, ChangeRole, RefreshCodes, OpenPage, SendHome
<1>2. CASE Follow
  <2>1. desk' = desk
    BY <1>2 DEF Follow
  <2> QED
    BY <1>2, <2>1, FollowLeads DEF AccessInv, LinksLead
<1>3. ASSUME NEW way \in desk.ways, Use(way) PROVE AccessInv'
  BY <1>3 DEF AccessInv, LinksLead, Use
<1>4. CASE UNCHANGED accessVars
  BY <1>4 DEF AccessInv, LinksLead, accessVars
<1> QED
  BY <1>1, <1>2, <1>3, <1>4 DEF AccessNext

LEMMA AccessInvAlways == AccessSpec => []AccessInv
<1>1. AccessInit(Desks) => AccessInv
  BY DEF AccessInit, AccessInv, LinksLead
<1> QED
  BY <1>1, AccessInvKept, PTL DEF AccessSpec

\* A link that is shown for a code leads to a page which that code opens, but for
\* the known dead ones (Sidebar, Home and the pages against App.tsx), whatever
\* codes the user holds.
THEOREM LinksOpen == AccessSpec => []LinksLead
<1>1. AccessInv => LinksLead
  BY DEF AccessInv
<1> QED
  BY <1>1, AccessInvAlways, PTL

\* A control that a page offers is one the server serves, but for the known
\* refusals (routes.go against the pages), whatever codes the role has, when the
\* client's codes are the role's and the page has appeared since they were read.
THEOREM OfferedServed == AccessSpec => OfferedIsServed
<1>1. ASSUME AccessInv, [AccessNext]_accessVars
      PROVE  [outcome' = "refused" /\ outcome # "refused" =>
                 desk.known \/ codes # role \/ captured # codes \/ codes = {}]_accessVars
  <2> SUFFICES ASSUME AccessNext, outcome' = "refused", outcome # "refused",
                      ~ desk.known, codes = role, captured = codes, codes # {}
               PROVE  FALSE
    BY <1>1
  <2>1. PICK way \in desk.ways : Use(way)
    BY DEF AccessNext, ChangeRole, RefreshCodes, OpenPage, SendHome, Follow
  <2>2. outcome' = "served"
    BY <1>1, <2>1, UseServed DEF AccessInv
  <2> QED
    BY <2>2
<1> QED
  BY <1>1, AccessInvAlways, PTL DEF AccessSpec, OfferedIsServed

=============================================================================
