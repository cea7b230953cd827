-------------------------------- MODULE SignIn --------------------------------
(* Where the browser ends up: the middleware that guards every page, the sign-in and
   registration forms, and the session cookie that all tabs share, which ends while
   pages are open, forms are being submitted and redirects are followed. *)
EXTENDS Naturals, FiniteSets

CONSTANTS
  Tabs,
  Pages,     \* pages of the app behind the sign-in, besides home
  Public,    \* pages that need no session, besides the two forms
  Foreign,   \* callback URLs that do not resolve to a page of the app
  NoUrl

VARIABLES
  session,   \* the cookie holds a session
  tabs       \* what each tab shows, where it is going, and what its form is doing

signInVars == <<session, tabs>>

Forms == {"login", "register"}
Paths == {"home"} \cup Pages \cup Public \cup Forms
Callbacks == Paths \cup Foreign \cup {NoUrl}

ASSUME SignInAssumption == Foreign \cap Paths = {} /\ NoUrl \notin Paths

Address(path, callback) == [path |-> path, callback |-> callback]
Nowhere == Address(NoUrl, NoUrl)
Blank == [at |-> Nowhere, going |-> Nowhere, form |-> "rest", wanted |-> NoUrl]

SignInInit == session \in BOOLEAN /\ tabs = [t \in Tabs |-> Blank]

(* Mutant: only a missing URL is replaced. *)
safeCallbackMissing(raw) == IF raw = NoUrl THEN "home" ELSE raw

(* A path of the app, or home. *)
safeCallback(raw) == IF raw \in Foreign \cup {NoUrl} THEN "home" ELSE raw

----------------------------------------------------------------------------
Becomes(t, s) == tabs' = [tabs EXCEPT ![t] = s]
Goes(t, address) == [tabs[t] EXCEPT !.going = address, !.form = "rest"]

(* A link, a bookmark or the address bar. *)
Visit(t, address) ==
  /\ Becomes(t, [Goes(t, address) EXCEPT !.wanted = NoUrl])
  /\ UNCHANGED session

(* Mutant: the page that was asked for is not kept. *)
LoginUrlBare(path) == Address("login", NoUrl)

(* Where the middleware sends a visitor without a session. *)
LoginUrl(path) == Address("login", IF path = "home" THEN NoUrl ELSE path)

(* The middleware: a page, or a redirect that the browser follows with a request
   of its own. What was asked for is kept only here (history: wanted), and given up
   for a visitor who is signed in by the time the form is requested. *)
Request(t) ==
  LET to == tabs[t].going
  IN /\ to # Nowhere
     /\ Becomes(t,
          IF session /\ to.path \in Forms
            THEN [Goes(t, Address("home", NoUrl)) EXCEPT !.wanted = NoUrl]
          ELSE IF session \/ to.path \in Public \cup Forms
            THEN [tabs[t] EXCEPT !.at = to, !.going = Nowhere]
          ELSE [Goes(t, LoginUrl(to.path)) EXCEPT !.wanted = to.path])
     /\ UNCHANGED session

(* The layout's own check: a session that has ended since then sends to the form,
   which knows of no page. *)
ChatLayout(t) ==
  /\ tabs[t].going.path \in {"home"} \cup Pages /\ ~session
  /\ Becomes(t, [Goes(t, Address("login", NoUrl)) EXCEPT !.wanted = NoUrl])
  /\ UNCHANGED session

----------------------------------------------------------------------------
(* LoginForm and RegisterForm; the button is disabled while one is pending. *)
Submit(t) ==
  /\ tabs[t].at.path \in Forms /\ tabs[t].form = "rest" /\ tabs[t].going = Nowhere
  /\ Becomes(t, [tabs[t] EXCEPT !.form = "pending"])
  /\ UNCHANGED session

(* authorize: wrong credentials, an address that is taken, or an account without a
   password leave the form as it was. *)
Rejected(t) ==
  /\ tabs[t].form = "pending"
  /\ Becomes(t, [tabs[t] EXCEPT !.form = "rest"])
  /\ UNCHANGED session

Authorized(t) ==
  /\ tabs[t].form = "pending"
  /\ session' = TRUE
  /\ Becomes(t, [tabs[t] EXCEPT !.form = "done"])

(* The form goes on: the login form to its callback, that of registration home. *)
Proceed(t) ==
  /\ tabs[t].form = "done"
  /\ Becomes(t, [Goes(t, Address(IF tabs[t].at.path = "login" THEN safeCallback(tabs[t].at.callback)
                                                             ELSE "home", NoUrl))
                  EXCEPT !.wanted = IF tabs[t].at.path = "login" THEN @ ELSE NoUrl])
  /\ UNCHANGED session

(* The menu's "Sign out", in any tab; the others learn of it with their next
   request. *)
SignOut(t) ==
  /\ session /\ session' = FALSE
  /\ tabs[t].at.path \in {"home"} \cup Pages
  /\ Becomes(t, [Goes(t, Address("login", NoUrl)) EXCEPT !.wanted = NoUrl])

(* The session's time is over. *)
SessionEnds == session /\ session' = FALSE /\ UNCHANGED tabs

SignInNext ==
  \/ SessionEnds
  \/ \E t \in Tabs :
       \/ \E path \in Paths, raw \in Callbacks :
            (path \notin Forms => raw = NoUrl) /\ Visit(t, Address(path, raw))
       \/ Request(t) \/ ChatLayout(t)
       \/ Submit(t) \/ Rejected(t) \/ Authorized(t) \/ Proceed(t) \/ SignOut(t)

SignInSpec == SignInInit /\ [][SignInNext]_signInVars

----------------------------------------------------------------------------
(* However often the session ends while redirects are followed, whoever the
   middleware has sent to the login form signs in to the page asked for, unless
   another tab has signed in before the form was there; and no tab is ever taken out
   of the app, whatever the URL it was opened with says. *)
SignInReturns ==
  \A t \in Tabs :
    /\ {tabs[t].at.path, tabs[t].going.path} \subseteq Paths \cup {NoUrl}
    /\ tabs[t].wanted # NoUrl =>
         \E address \in {tabs[t].at, tabs[t].going} :
           \/ address.path = tabs[t].wanted
           \/ address.path = "login" /\ safeCallback(address.callback) = tabs[t].wanted
=============================================================================
