--------------------------- MODULE ConsoleSession ---------------------------
(***************************************************************************)
(* The session of the web console: one browser, its tabs and the server.   *)
(* The tabs share the session cookie and two entries of localStorage (uid, *)
(* which every request carries as TF-User, and the saved user); each tab   *)
(* has the user of its auth store, its sessionVerified flag and its        *)
(* requests in flight.                                                     *)
(*                                                                         *)
(* Sessions live in the cookie itself (a cookie store), so what the server *)
(* answers is settled by the cookie and the header a request was sent      *)
(* with; the answer arrives any time later.  A handler runs whole when its *)
(* answer arrives; a navigation is a step of its own (page "entering").    *)
(* Third-party sign-in pages and the wording of errors are left out.       *)
(***************************************************************************)
EXTENDS Integers, FiniteSets

CONSTANTS
  Tabs,          \* the tabs of the browser
  Users,         \* accounts that sign in
  Owner,         \* the account that keeps signing in once the others stop
  None,          \* no user, no cookie, or a request that is refused with 401
  MaxTroubles,   \* bound: expiries, reloads, sign-outs, lost answers, sign-ins
                 \* by others or while an earlier request is in flight
  MaxAmongTabs   \* bound: as many of them when several tabs are open

ASSUME ConsoleAssumption ==
  /\ Owner \in Users
  /\ None \notin Users
  /\ MaxAmongTabs \in Nat /\ MaxTroubles \in Nat
  /\ MaxAmongTabs <= MaxTroubles

VARIABLES
  cookie,        \* the user of the session cookie, or None
  uid,           \* localStorage "uid", or None
  saved,         \* localStorage "user", or None
  open,          \* the tabs that are open
  user,          \* auth.user of each tab's store, or None
  verified,      \* sessionVerified of each tab
  page,          \* what each tab shows, or "entering" and "guard" on the way
  task,          \* the form the tab is working on
  pending,       \* the user whose sign-in is under way in the tab
  self,          \* GET /api/user/self in flight: its answer and who awaits it
  data,          \* the answers of the other requests in flight
  vouched,       \* history: users the server has named to this load of a tab
  troubles       \* how many of the MaxTroubles are left

shared == <<cookie, uid, saved>>
vars == <<cookie, uid, saved, open, user, verified, page, task, pending,
          self, data, vouched, troubles>>

NoFlight == [answer |-> None, waiters |-> {}]
Waiters == {"guard", "login", "page"}

(* The type invariant. *)
TypeOK ==
  /\ cookie \in Users \cup {None}
  /\ uid \in Users \cup {None}
  /\ saved \in Users \cup {None}
  /\ open \in SUBSET Tabs
  /\ user \in [Tabs -> Users \cup {None}]
  /\ verified \in [Tabs -> BOOLEAN]
  /\ page \in [Tabs -> {"signin", "entering", "guard", "console"}]
  /\ task \in [Tabs -> {"idle", "login", "self", "logout"}]
  /\ pending \in [Tabs -> Users \cup {None}]
  /\ self \in [Tabs -> [answer : Users \cup {None}, waiters : SUBSET Waiters]]
  /\ data \in [Tabs -> SUBSET (Users \cup {None})]
  /\ vouched \in [Tabs -> SUBSET Users]
  /\ troubles \in 0..MaxTroubles

Init ==
  /\ cookie = None /\ uid = None /\ saved = None
  /\ open \in SUBSET Tabs \ {{}}
  /\ user = [t \in Tabs |-> None]
  /\ verified = [t \in Tabs |-> FALSE]
  /\ page = [t \in Tabs |-> "entering"]
  /\ task = [t \in Tabs |-> "idle"]
  /\ pending = [t \in Tabs |-> None]
  /\ self = [t \in Tabs |-> NoFlight]
  /\ data = [t \in Tabs |-> {}]
  /\ vouched = [t \in Tabs |-> {}]
  /\ troubles = IF Cardinality(open) = 1 THEN MaxTroubles ELSE MaxAmongTabs

Trouble == troubles > 0 /\ troubles' = troubles - 1
------------------------------------------------------------------------------
(* What authHelper makes of a request with this cookie and this header. *)
Answer(c, header) == IF c # None /\ header = c THEN c ELSE None

(* api.get: a second GET of the same URL joins the one in flight. *)
Joined(t, who, answer) ==
  IF self[t] = NoFlight
  THEN [self EXCEPT ![t] = [answer |-> answer, waiters |-> {who}]]
  ELSE [self EXCEPT ![t].waiters = @ \cup {who}]

(* auth.setUser in a tab's store. *)
SetUser(t, u) ==
  /\ user' = [user EXCEPT ![t] = u]
  /\ saved' = u

(* Mutant: the uid is blanked instead of removed. *)
ResetBlank(t) ==
  /\ user' = [user EXCEPT ![t] = None]
  /\ saved' = None
  /\ uid' = ""

(* auth.reset in a tab's store. *)
Reset(t) ==
  /\ user' = [user EXCEPT ![t] = None]
  /\ saved' = None
  /\ uid' = None

(* The page is loaded anew, with s in localStorage: the store is restored  *)
(* from it and everything else of the tab is gone.                         *)
Load(t, s) ==
  /\ user' = [user EXCEPT ![t] = s]
  /\ verified' = [verified EXCEPT ![t] = FALSE]
  /\ page' = [page EXCEPT ![t] = "entering"]
  /\ task' = [task EXCEPT ![t] = "idle"]
  /\ pending' = [pending EXCEPT ![t] = None]
  /\ self' = [self EXCEPT ![t] = NoFlight]
  /\ data' = [data EXCEPT ![t] = {}]
  /\ vouched' = [vouched EXCEPT ![t] = {}]
------------------------------------------------------------------------------
(* The user turns to a page of the console, or to the sign-in page, which  *)
(* sends a signed-in user back to the console.                             *)
Visit(t) ==
  /\ page[t] \in {"signin", "console"}
  /\ page' = [page EXCEPT ![t] = "entering"]
  /\ UNCHANGED <<shared, open, user, verified, task, pending, self, data,
                 vouched, troubles>>

(* Mutant: a saved user is taken at its word. *)
EnterUnverified(t) ==
  /\ page[t] = "entering"
  /\ page' = [page EXCEPT ![t] = IF user[t] = None THEN "signin" ELSE "console"]
  /\ UNCHANGED <<shared, open, user, verified, task, pending, self, data,
                 vouched, troubles>>

(* beforeLoad of the authenticated routes, up to its await. *)
Enter(t) ==
  /\ page[t] = "entering"
  /\ \/ /\ user[t] = None
        /\ page' = [page EXCEPT ![t] = "signin"]
        /\ UNCHANGED self
     \/ /\ user[t] # None /\ verified[t]
        /\ page' = [page EXCEPT ![t] = "console"]
        /\ UNCHANGED self
     \/ /\ user[t] # None /\ ~verified[t]
        /\ page' = [page EXCEPT ![t] = "guard"]
        /\ self' = Joined(t, "guard", Answer(cookie, uid))
  /\ UNCHANGED <<shared, open, user, verified, task, pending, data, vouched,
                 troubles>>

(* onSubmit of the sign-in form: POST /api/user/login.  That a request is  *)
(* still in flight when the user has come back to sign in is a trouble.    *)
StartSignIn(t, u) ==
  /\ page[t] = "signin" /\ task[t] = "idle"
  /\ IF u = Owner /\ self[t] = NoFlight /\ data[t] = {}
     THEN UNCHANGED troubles ELSE Trouble
  /\ task' = [task EXCEPT ![t] = "login"]
  /\ pending' = [pending EXCEPT ![t] = u]
  /\ UNCHANGED <<shared, open, user, verified, page, self, data, vouched>>

(* Mutant: the uid is saved only once getSelf has answered. *)
LoginAnsweredUidLater(t) ==
  /\ task[t] = "login"
  /\ cookie' = pending[t]
  /\ task' = [task EXCEPT ![t] = "self"]
  /\ self' = Joined(t, "login", Answer(pending[t], uid))
  /\ UNCHANGED <<uid, saved, open, user, verified, page, pending, data,
                 vouched, troubles>>

(* setupLogin's answer, and handleLoginSuccess up to its await: the uid is *)
(* saved before getSelf is sent.                                           *)
LoginAnswered(t) ==
  /\ task[t] = "login"
  /\ cookie' = pending[t]
  /\ uid' = pending[t]
  /\ task' = [task EXCEPT ![t] = "self"]
  /\ self' = Joined(t, "login", Answer(pending[t], pending[t]))
  /\ UNCHANGED <<saved, open, user, verified, page, pending, data, vouched,
                 troubles>>

(* The sign-in is refused or its answer lost: the form is shown again. *)
LoginFailed(t) ==
  /\ task[t] = "login"
  /\ Trouble
  /\ task' = [task EXCEPT ![t] = "idle"]
  /\ pending' = [pending EXCEPT ![t] = None]
  /\ UNCHANGED <<shared, open, user, verified, page, self, data, vouched>>

(* A sign-in with a second factor: the user comes with the answer and is   *)
(* not asked for again; the sign-in page then leads to the console.        *)
CodeAnswered(t) ==
  /\ task[t] = "login"
  /\ cookie' = pending[t]
  /\ uid' = pending[t]
  /\ SetUser(t, pending[t])
  /\ vouched' = [vouched EXCEPT ![t] = @ \cup {pending[t]}]
  /\ page' = [page EXCEPT ![t] = "entering"]
  /\ task' = [task EXCEPT ![t] = "idle"]
  /\ pending' = [pending EXCEPT ![t] = None]
  /\ UNCHANGED <<open, verified, self, data, troubles>>
------------------------------------------------------------------------------
(* Where a tab goes when GET /self ends: the sign-in form's continuation   *)
(* navigates to the console whatever came, the guard lets the tab in only  *)
(* with a user, a page of the console stays.                               *)
PageAfterSelf(t, in) ==
  [page EXCEPT ![t] = IF "login" \in self[t].waiters THEN "entering"
                      ELSE IF "guard" \notin self[t].waiters THEN @
                      ELSE IF in THEN "console" ELSE "signin"]

(* The request is over: forgotten by api.get, and the form is done. *)
SelfOver(t) ==
  /\ self' = [self EXCEPT ![t] = NoFlight]
  /\ IF "login" \in self[t].waiters
     THEN /\ task' = [task EXCEPT ![t] = "idle"]
          /\ pending' = [pending EXCEPT ![t] = None]
     ELSE UNCHANGED <<task, pending>>
  /\ UNCHANGED <<cookie, open, data>>

(* Mutant: the sign-in form trusts the uid it saved before. *)
SelfAnsweredUidKept(t) ==
  /\ self[t].waiters # {} /\ self[t].answer \in Users
  /\ vouched' = [vouched EXCEPT ![t] = @ \cup {self[t].answer}]
  /\ IF self[t].waiters \cap {"guard", "login"} # {}
     THEN SetUser(t, self[t].answer) ELSE UNCHANGED <<user, saved>>
  /\ verified' = [verified EXCEPT ![t] = @ \/ "guard" \in self[t].waiters]
  /\ page' = PageAfterSelf(t, TRUE)
  /\ SelfOver(t)
  /\ UNCHANGED <<uid, troubles>>

(* GET /self names a user: the guard and the form store it, the form saves *)
(* its uid as well.                                                        *)
SelfAnswered(t) ==
  /\ self[t].waiters # {} /\ self[t].answer \in Users
  /\ vouched' = [vouched EXCEPT ![t] = @ \cup {self[t].answer}]
  /\ IF self[t].waiters \cap {"guard", "login"} # {}
     THEN SetUser(t, self[t].answer) ELSE UNCHANGED <<user, saved>>
  /\ uid' = IF "login" \in self[t].waiters THEN self[t].answer ELSE uid
  /\ verified' = [verified EXCEPT ![t] = @ \/ "guard" \in self[t].waiters]
  /\ page' = PageAfterSelf(t, TRUE)
  /\ SelfOver(t)
  /\ UNCHANGED troubles

(* GET /self is refused: the interceptor resets the store, then every      *)
(* awaiting caller has its error.                                          *)
SelfRefused(t) ==
  /\ self[t].waiters # {} /\ self[t].answer = None
  /\ Reset(t)
  /\ page' = PageAfterSelf(t, FALSE)
  /\ SelfOver(t)
  /\ UNCHANGED <<verified, vouched, troubles>>

(* GET /self is lost: only the guard resets the store. *)
SelfLost(t) ==
  /\ self[t].waiters # {}
  /\ Trouble
  /\ IF "guard" \in self[t].waiters THEN Reset(t)
     ELSE UNCHANGED <<user, saved, uid>>
  /\ page' = PageAfterSelf(t, FALSE)
  /\ SelfOver(t)
  /\ UNCHANGED <<verified, vouched>>
------------------------------------------------------------------------------
(* A page of the console asks for its data. *)
Query(t) ==
  /\ page[t] = "console"
  /\ data' = [data EXCEPT ![t] = @ \cup {Answer(cookie, uid)}]
  /\ UNCHANGED <<shared, open, user, verified, page, task, pending, self,
                 vouched, troubles>>

(* A page of the console asks for the user's own record. *)
QuerySelf(t) ==
  /\ page[t] = "console"
  /\ self' = Joined(t, "page", Answer(cookie, uid))
  /\ UNCHANGED <<shared, open, user, verified, page, task, pending, data,
                 vouched, troubles>>

(* A page has its data. *)
DataAnswered(t) ==
  \E a \in data[t] \ {None} :
    /\ data' = [data EXCEPT ![t] = @ \ {a}]
    /\ UNCHANGED <<shared, open, user, verified, page, task, pending, self,
                   vouched, troubles>>

(* A 401: the interceptor resets the store; after a query, not after a     *)
(* mutation, the tab turns to the sign-in page.                            *)
DataRefused(t, query) ==
  /\ None \in data[t]
  /\ data' = [data EXCEPT ![t] = @ \ {None}]
  /\ Reset(t)
  /\ page' = [page EXCEPT ![t] = IF query THEN "signin" ELSE @]
  /\ UNCHANGED <<cookie, open, verified, task, pending, self, vouched, troubles>>

(* The sign-out dialog: GET /api/user/logout. *)
SignOut(t) ==
  /\ page[t] = "console" /\ task[t] = "idle"
  /\ Trouble
  /\ task' = [task EXCEPT ![t] = "logout"]
  /\ UNCHANGED <<shared, open, user, verified, page, pending, self, data, vouched>>

(* It ends, well or not: the store is reset and the page loaded anew. *)
LogoutAnswered(t) ==
  /\ task[t] = "logout"
  /\ cookie' \in {None, cookie}
  /\ saved' = None
  /\ uid' = None
  /\ Load(t, None)
  /\ UNCHANGED <<open, troubles>>

(* The user reloads a tab.  The answer of a sign-in under way is not seen  *)
(* any more, though its cookie may be set.                                 *)
Reload(t) ==
  /\ Trouble
  /\ cookie' \in {cookie} \cup (IF task[t] = "login" THEN {pending[t]} ELSE {})
  /\ Load(t, saved)
  /\ UNCHANGED <<uid, saved, open>>

(* The cookie is gone: MaxAge has passed or the browser was cleaned. *)
Expire ==
  /\ cookie # None
  /\ Trouble
  /\ cookie' = None
  /\ UNCHANGED <<uid, saved, open, user, verified, page, task, pending, self,
                 data, vouched>>

Handle(t) ==
  \/ LoginAnswered(t) \/ CodeAnswered(t) \/ LoginFailed(t)
  \/ SelfAnswered(t) \/ SelfRefused(t) \/ SelfLost(t)
  \/ DataAnswered(t) \/ LogoutAnswered(t)
  \/ DataRefused(t, TRUE) \/ DataRefused(t, FALSE)

Next ==
  \/ \E t \in open :
       \/ Visit(t) \/ Enter(t) \/ Query(t) \/ QuerySelf(t)
       \/ Handle(t) \/ SignOut(t) \/ Reload(t)
       \/ \E u \in Users : StartSignIn(t, u)
  \/ Expire

Spec == Init /\ [][Next]_vars

(* Every request ends, a navigation is carried out, a page of the console  *)
(* keeps asking for its data (on focus, on an interval, on the next click) *)
(* and a mutation is not repeated for ever: in the end it is a query that  *)
(* is refused.  Whoever wants in keeps signing in.                         *)
Fairness ==
  \A t \in Tabs :
    /\ WF_vars(t \in open /\ Enter(t))
    /\ WF_vars(t \in open /\ (LoginAnswered(t) \/ CodeAnswered(t) \/ LoginFailed(t)))
    /\ WF_vars(t \in open /\ (SelfAnswered(t) \/ SelfRefused(t) \/ SelfLost(t)))
    /\ WF_vars(t \in open /\ LogoutAnswered(t))
    /\ SF_vars(t \in open /\ Query(t))
    /\ WF_vars(t \in open /\ DataAnswered(t))
    /\ SF_vars(t \in open /\ DataRefused(t, TRUE))
    /\ SF_vars(t \in open /\ StartSignIn(t, Owner))

FairSpec == Spec /\ Fairness
------------------------------------------------------------------------------
(* A console page is never shown to a user that the server has not named   *)
(* since the page was loaded: the one restored from localStorage may be of *)
(* a session that is over, or of another user who has signed in in another *)
(* tab meanwhile.                                                          *)
ShownUserWasVouchedFor ==
  \A t \in open : page[t] = "console" => user[t] \in vouched[t] \cup {None}

(* With one tab, requests that the server accepts are made in the name of  *)
(* the user the tab shows.  A GET /self of the former session may still be *)
(* in flight when the next user signs in and is then joined by the sign-in *)
(* form: the uid the form saves from the answer makes the server refuse    *)
(* what would be asked under the wrong name.                               *)
ActsAsShown ==
  \A t \in open :
    open = {t} /\ page[t] = "console" /\ Answer(cookie, uid) # None
      => user[t] \in {cookie, None}

(* With one tab, the user who wants in gets in and stays in, with cookie,  *)
(* uid and store agreed, whatever was left in localStorage and in flight   *)
(* by earlier sessions: no 401 loop, in which every sign-in is undone.     *)
SignInWorks ==
  Cardinality(open) = 1 =>
    <>[](\A t \in open : /\ page[t] \in {"console", "entering"}
                         /\ user[t] = cookie /\ uid = cookie /\ cookie # None)
=============================================================================
