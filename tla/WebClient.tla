------------------------------ MODULE WebClient ------------------------------
(* The web client: its screens (ScreenRace), the codes that open them (WebAccess), the session of
   the tab (WebSession) and the desks whose saves take two requests (WebDesks). The parts keep
   their state apart, each in the components of its own page or in sessionStorage, so a
   behaviour follows one of them and leaves the others as they began. *)
EXTENDS ScreenRace, WebAccess, WebSession, WebDesks

VARIABLE focus      \* the part that is followed

vars == <<focus, raceVars, accessVars, sessionVars, deskVars>>

Parts == {"screen", "access", "session", "desks"}

\* A part that is not followed begins in one way.
OneShape == CHOOSE s \in Shapes : TRUE
OneDesk == CHOOSE d \in Desks : TRUE

Init ==
  /\ focus \in Parts
  /\ RaceInit(IF focus = "screen" THEN Shapes ELSE {OneShape})
  /\ AccessInit(IF focus = "access" THEN Desks ELSE {OneDesk})
  /\ SessionInit
  /\ DesksInit

Next ==
  \/ focus = "screen" /\ RaceNext /\ UNCHANGED <<focus, accessVars, sessionVars, deskVars>>
  \/ focus = "access" /\ AccessNext /\ UNCHANGED <<focus, raceVars, sessionVars, deskVars>>
  \/ focus = "session" /\ SessionNext /\ UNCHANGED <<focus, raceVars, accessVars, deskVars>>
  \/ focus = "desks" /\ DesksNext /\ UNCHANGED <<focus, raceVars, accessVars, sessionVars>>

Spec == Init /\ [][Next]_vars
=============================================================================
