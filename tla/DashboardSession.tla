-------------------------- MODULE DashboardSession --------------------------
(***************************************************************************)
(* Who the App believes is signed in, and the headers every request takes  *)
(* with it: one object, changed in place, that signing out leaves as it    *)
(* is. The refresh sent when the App mounts answers with the session of    *)
(* the mount, whatever has happened since.                                 *)
(***************************************************************************)
EXTENDS DashboardViews

CONSTANTS
    Users,
    Starts,      \* <<view, stored session or None, refresh in flight>> of the App
    Permits,     \* user -> the views its permissions open
    ActorTypes   \* user -> the actor types of the roles it may be given

Sessions(w, id) == {[who |-> w, sid |-> id, type |-> t] : t \in ActorTypes[w]}

ASSUME StartAssumption ==
    \A s \in Starts : /\ s[1] \in Menu /\ s[3] \in BOOLEAN
                      /\ s[2] = None \/ \E w \in Users : s[2] \in Sessions(w, 1)

VARIABLES
    session,     \* [who, sid, type] signed in, or None; localStorage holds the same
    headers,     \* x-actor-id, x-session-id, x-actor-type, and whose x-permissions
    renewing,    \* the session whose refresh is in flight, or None
    signing,     \* user -> how many of its sign-ins are in flight
    out,         \* isLoggedOut
    crossed      \* the refresh answered another session than it was sent for
sessionVars == <<session, headers, renewing, signing, out, crossed>>

PERMITTED_VIEW_ORDER == <<"summary", "trends", "portfolio", "investments", "wealth-managers",
                          "commissions", "uploads", "reports", "users", "settings">>
Default == [who |-> None, sid |-> 0, type |-> "admin", rights |-> None]
HeadersOf(s) == [who |-> s.who, sid |-> s.sid, type |-> s.type, rights |-> s.who]

SessionInit ==
    /\ \E s \in Starts : /\ Mounted(FirstScreen(s[1]))
                         /\ session = s[2]
                         /\ renewing = IF s[3] THEN session ELSE None
    /\ headers = IF session = None THEN Default ELSE HeadersOf(session)
    /\ signing = [w \in Users |-> 0] /\ out = FALSE /\ crossed = FALSE

(* The view is not one the session may see: an effect replaces it by the   *)
(* first that is, before the user can do anything.                         *)
FirstView(w) ==
    LET open == SelectSeq(PERMITTED_VIEW_ORDER, LAMBDA v : v \in Permits[w])
    IN IF open = <<>> THEN "summary" ELSE Head(open)
Forbidden == session # None /\ View(ui) \notin Permits[session.who] /\ ui.path # FirstView(session.who)
Redirect ==
    /\ Forbidden
    /\ Shows(Moved(FirstView(session.who)), {})
    /\ UNCHANGED <<clicks, sessionVars>>
Usable == session # None /\ ~out /\ ~Forbidden

(* The role of the user may be another by now: its actor type comes into   *)
(* the session, and not into the headers.                                  *)
Refreshed ==
    /\ renewing # None
    /\ renewing' = None
    /\ \/ /\ session' \in Sessions(renewing.who, renewing.sid)
          /\ headers' = [headers EXCEPT !.rights = renewing.who]
          /\ crossed' = (crossed \/ session # renewing)
       \/ session' = None /\ UNCHANGED <<headers, crossed>>
    /\ UNCHANGED <<views, signing, out>>
SignOut ==
    /\ Usable /\ Click
    /\ session' = None /\ out' = TRUE
    /\ UNCHANGED <<ui, res, req, now, told, errors, headers, renewing, signing, crossed>>

(* The button waits for an answer, the Enter key does not.                 *)
SignIn(w) ==
    /\ session = None /\ Click
    /\ signing' = [signing EXCEPT ![w] = @ + 1]
    /\ UNCHANGED <<ui, res, req, now, told, errors, session, headers, renewing, out, crossed>>

(* Mutant: signing in leaves the session id in the headers. *)
SignedInAs(w) ==
    /\ signing[w] > 0
    /\ signing' = [signing EXCEPT ![w] = @ - 1]
    /\ \/ /\ session' \in Sessions(w, headers.sid + 1)
          /\ headers' = [headers EXCEPT !.who = w, !.type = session'.type, !.rights = w]
          /\ out' = FALSE
       \/ UNCHANGED <<session, headers, out>>
    /\ UNCHANGED <<views, renewing, crossed>>

SignedIn(w) ==
    /\ signing[w] > 0
    /\ signing' = [signing EXCEPT ![w] = @ - 1]
    /\ \/ /\ session' \in Sessions(w, headers.sid + 1)
          /\ headers' = HeadersOf(session')
          /\ out' = FALSE
       \/ UNCHANGED <<session, headers, out>>
    /\ UNCHANGED <<views, renewing, crossed>>

(* Eight hours without a gesture show the screen of a user signed out; its *)
(* button goes back to the session, which never ended.                     *)
IdleTimeout ==
    /\ Click /\ ~out /\ out' = TRUE
    /\ UNCHANGED <<ui, res, req, now, told, errors, session, headers, renewing, signing, crossed>>
SignInAgain ==
    /\ Click /\ session # None /\ out /\ out' = FALSE
    /\ UNCHANGED <<ui, res, req, now, told, errors, session, headers, renewing, signing, crossed>>

SessionSteps ==
    \/ Redirect \/ Refreshed \/ SignOut \/ IdleTimeout \/ SignInAgain
    \/ \E w \in Users : SignIn(w) \/ SignedIn(w)
=============================================================================
