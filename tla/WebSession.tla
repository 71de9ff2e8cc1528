------------------------------ MODULE WebSession ------------------------------
(* The session a browser tab keeps (auth.ts, client.ts): the token, the permission codes and the
   cache of receipt series in sessionStorage, and the requests that fill them. A request carries
   the token of when it was made; its answer is stored whoever is logged in by then. *)
EXTENDS Naturals, FiniteSets

CONSTANTS Users,        \* the people who use the tab in turn
          MaxCalls      \* bound on the requests made

ASSUME SessionAssumption == MaxCalls \in Nat

VARIABLES token,        \* whose token is stored, or nobody
          granted,      \* whose permission codes are stored, or nobody's
          series,       \* on whose token the cached series were read, or nobody's
          calls,        \* requests on their way: what they ask for and whose token they carry
          number,       \* number of the last request
          filling,      \* the module's inflight promise: a fill of the series is on its way
          overtaken,    \* an answer to an earlier session landed in a later one
          unrefreshed   \* a login over a live session could not read the new codes

sessionVars == <<token, granted, series, calls, number, filling, overtaken, unrefreshed>>

nobody == "nobody"

Call(kind, user) == [no |-> number + 1, kind |-> kind, user |-> user]

Send(kind, user, left) ==
  /\ number < MaxCalls
  /\ number' = number + 1
  /\ calls' = left \cup {Call(kind, user)}

Answered(kind) == {call \in calls : call.kind = kind}

\* The form of /login, which is a page like any other: a session may be live.
PressLogin(user) ==
  /\ Answered("login") = {}
  /\ Send("login", user, calls)
  /\ UNCHANGED <<token, granted, series, filling, overtaken, unrefreshed>>

\* auth.login: the series go, the token and the user are stored, the codes are read anew. The
\* codes of before stay stored until then.
LoggedIn(call) ==
  /\ call.kind = "login"
  /\ token' = call.user
  /\ series' = nobody
  /\ Send("codes", call.user, calls \ {call})
  /\ UNCHANGED <<granted, filling, overtaken, unrefreshed>>

\* Layout appears: it reads the codes only if none are stored, and the roles page reads them
\* again after it has saved a role.
ReadCodes ==
  /\ token # nobody
  /\ Send("codes", token, calls)
  /\ UNCHANGED <<token, granted, series, filling, overtaken, unrefreshed>>

LayoutAppears == granted = nobody /\ ReadCodes
RoleSaved == granted = token /\ ReadCodes

\* refreshPermissions stores the codes of the answer and tells the page.
CodesRead(call) ==
  /\ call.kind = "codes"
  /\ granted' = call.user
  /\ overtaken' = (overtaken \/ call.user # token)
  /\ calls' = calls \ {call}
  /\ UNCHANGED <<token, series, number, filling, unrefreshed>>

\* ensureTukifacSeriesCached: one fill at a time, none if the key is there.
EnsureSeries ==
  /\ token # nobody /\ series = nobody /\ ~filling
  /\ Send("series", token, calls)
  /\ filling' = TRUE
  /\ UNCHANGED <<token, granted, series, overtaken, unrefreshed>>

SeriesRead(call) ==
  /\ call.kind = "series"
  /\ series' = call.user /\ filling' = FALSE
  /\ overtaken' = (overtaken \/ call.user # token)
  /\ calls' = calls \ {call}
  /\ UNCHANGED <<token, granted, number, unrefreshed>>

\* A request fails without a 401: a login leaves things as they are, a read of the codes is
\* forgotten until Layout appears again.
CallFails(call) ==
  /\ call.kind # "logout"
  /\ calls' = calls \ {call}
  /\ filling' = (filling /\ call.kind # "series")
  /\ unrefreshed' = (unrefreshed \/ (call.kind = "codes" /\ call.user = token
                                       /\ granted \notin {nobody, token}))
  /\ UNCHANGED <<token, granted, series, number, overtaken>>

PressLogout ==
  /\ token # nobody /\ Answered("logout") = {}
  /\ Send("logout", token, calls)
  /\ UNCHANGED <<token, granted, series, filling, overtaken, unrefreshed>>

\* Mutant of Forget: the permission codes outlive the session.
ForgetKeepingCodes ==
  /\ token' = nobody /\ granted' = granted /\ series' = nobody
  /\ overtaken' = FALSE /\ unrefreshed' = FALSE

Forget ==
  /\ token' = nobody /\ granted' = nobody /\ series' = nobody
  /\ overtaken' = FALSE /\ unrefreshed' = FALSE

\* auth.logout clears the storage when its request ends, well or badly.
LoggedOut(call) ==
  /\ call.kind = "logout"
  /\ Forget
  /\ calls' = calls \ {call}
  /\ UNCHANGED <<number, filling>>

\* A 401: the interceptor clears the storage and loads /login anew, which ends every request and
\* the module's state.
Expire(call) ==
  /\ call.kind \in {"codes", "series"}
  /\ Forget
  /\ calls' = {} /\ filling' = FALSE
  /\ UNCHANGED number

SessionInit ==
  /\ token = nobody /\ granted = nobody /\ series = nobody
  /\ calls = {} /\ number = 0 /\ filling = FALSE
  /\ overtaken = FALSE /\ unrefreshed = FALSE

SessionNext ==
  \/ \E user \in Users : PressLogin(user)
  \/ LayoutAppears \/ RoleSaved \/ EnsureSeries \/ PressLogout
  \/ \E call \in calls : \/ LoggedIn(call) \/ CodesRead(call) \/ SeriesRead(call)
                         \/ CallFails(call) \/ LoggedOut(call) \/ Expire(call)

SessionSpec == SessionInit /\ [][SessionNext]_sessionVars
\* -------------------------------------------------------------- properties
\* When no request is on its way, the codes and the series a tab has stored are those read on
\* the token it holds: nobody sees the buttons of the user before him. Two ways round it remain
\* in auth.ts: an answer that comes after another login, and a login over a live session whose
\* refreshPermissions fails, which Layout does not retry because codes are stored.
StorageBelongsToSession ==
  calls = {} =>
    \/ granted \in {nobody, token} /\ series \in {nobody, token}
    \/ overtaken \/ unrefreshed
=============================================================================
