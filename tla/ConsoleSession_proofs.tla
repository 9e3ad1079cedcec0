------------------------ MODULE ConsoleSession_proofs ------------------------
(***************************************************************************)
(* Theorems about ConsoleSession, for any number of tabs, accounts and     *)
(* troubles: the types, that no page is shown to a user the server has not *)
(* named, and that a single tab acts under the name it shows.              *)
(***************************************************************************)
EXTENDS ConsoleSession, TLAPS

(* The server has named the user of a tab that was let in. *)
Known(t) ==
  verified[t] \/ page[t] = "console" => user[t] \in vouched[t] \cup {None}

(* A tab that signs in has no user, and its form awaits GET /self or not. *)
Forms(t) ==
  /\ task[t] \in {"login", "self"} => user[t] = None /\ pending[t] \in Users
  /\ page[t] = "signin" => user[t] = None
  /\ "login" \in self[t].waiters <=> task[t] = "self"
  /\ self[t].waiters = {} => self[t] = NoFlight

(* Pages ask for data only behind the guard, which a load passes once, with *)
(* nothing else in flight.                                                  *)
Guarded(t) ==
  /\ data[t] # {} \/ page[t] = "console" \/ task[t] = "logout" => verified[t]
  /\ "page" \in self[t].waiters => verified[t]
  /\ "guard" \in self[t].waiters => page[t] = "guard" /\ ~verified[t]
  /\ page[t] = "guard" => user[t] # None /\ "guard" \in self[t].waiters

(* What localStorage holds for a single tab is what the tab has put there. *)
Alone(t) ==
  open = {t} =>
    /\ saved = user[t]
    /\ user[t] # None => uid \in {None, user[t]}
    /\ "guard" \in self[t].waiters => self[t].answer \in {None, user[t]}

TabInv(t) == Known(t) /\ Forms(t) /\ Guarded(t) /\ Alone(t)

IInv == TypeOK /\ \A t \in Tabs : TabInv(t)
------------------------------------------------------------------------------
Flight == [answer : Users \cup {None}, waiters : SUBSET Waiters]

(* What joining a request in flight does to the tabs' requests. *)
LEMMA JoinedIs ==
  ASSUME TypeOK, NEW t \in Tabs, Forms(t), NEW who \in Waiters,
         NEW a \in Users \cup {None}
  PROVE  /\ Joined(t, who, a) \in [Tabs -> Flight]
         /\ Joined(t, who, a)[t].waiters = self[t].waiters \cup {who}
         /\ Joined(t, who, a)[t].answer =
              IF self[t].waiters = {} THEN a ELSE self[t].answer
         /\ \A s \in Tabs \ {t} : Joined(t, who, a)[s] = self[s]
<1>0. self \in [Tabs -> Flight] /\ self[t] \in Flight
  BY DEF TypeOK, Flight
<1>1. CASE self[t].waiters = {}
  <2>1. self[t] = NoFlight
    BY <1>1 DEF Forms
  <2>2. Joined(t, who, a) = [self EXCEPT ![t] = [answer |-> a, waiters |-> {who}]]
    BY <2>1 DEF Joined
  <2> QED
    BY <1>0, <1>1, <2>2 DEF Flight, Waiters
<1>2. CASE self[t].waiters # {}
  <2>1. self[t] # NoFlight
    BY <1>2 DEF NoFlight
  <2>2. Joined(t, who, a) = [self EXCEPT ![t].waiters = @ \cup {who}]
    BY <2>1 DEF Joined
  <2> QED
    BY <1>0, <1>2, <2>2 DEF Flight, Waiters
<1> QED
  BY <1>1, <1>2

(* Where a tab goes when its GET /self ends. *)
LEMMA PageAfterSelfIs ==
  ASSUME TypeOK, NEW t \in Tabs, NEW in \in BOOLEAN
  PROVE  /\ PageAfterSelf(t, in) \in [Tabs -> {"signin", "entering", "guard", "console"}]
         /\ "login" \in self[t].waiters => PageAfterSelf(t, in)[t] = "entering"
         /\ "login" \notin self[t].waiters /\ "guard" \in self[t].waiters =>
              PageAfterSelf(t, in)[t] = IF in THEN "console" ELSE "signin"
         /\ "login" \notin self[t].waiters /\ "guard" \notin self[t].waiters =>
              PageAfterSelf(t, in)[t] = page[t]
         /\ \A s \in Tabs \ {t} : PageAfterSelf(t, in)[s] = page[s]
<1>0. page \in [Tabs -> {"signin", "entering", "guard", "console"}]
  BY DEF TypeOK
<1>1. CASE "login" \in self[t].waiters
  <2>1. PageAfterSelf(t, in) = [page EXCEPT ![t] = "entering"]
    BY <1>1 DEF PageAfterSelf
  <2> QED
    BY <1>0, <1>1, <2>1
<1>2. CASE "login" \notin self[t].waiters /\ "guard" \in self[t].waiters
  <2>1. PageAfterSelf(t, in) =
          [page EXCEPT ![t] = IF in THEN "console" ELSE "signin"]
    BY <1>2 DEF PageAfterSelf
  <2> QED
    BY <1>0, <1>2, <2>1
<1>3. CASE "login" \notin self[t].waiters /\ "guard" \notin self[t].waiters
  <2>1. PageAfterSelf(t, in) = [page EXCEPT ![t] = page[t]]
    BY <1>3 DEF PageAfterSelf
  <2> QED
    BY <1>0, <1>3, <2>1
<1> QED
  BY <1>1, <1>2, <1>3

(* The server answers a user or refuses. *)
LEMMA AnswerType ==
  ASSUME TypeOK, NEW h
  PROVE  Answer(cookie, h) \in Users \cup {None}
BY DEF TypeOK, Answer

(* Init establishes the invariant. *)
LEMMA InitInv == Init => IInv
<1> SUFFICES ASSUME Init
             PROVE  IInv
  OBVIOUS
<1>1. TypeOK
  <2>1. troubles \in 0..MaxTroubles
    BY ConsoleAssumption DEF Init
  <2> QED
    BY <2>1 DEF Init, TypeOK, NoFlight, Waiters
<1>2. ASSUME NEW t \in Tabs
      PROVE  TabInv(t)
  BY ConsoleAssumption DEF Init, TabInv, Known, Forms, Guarded, Alone, NoFlight
<1> QED
  BY <1>1, <1>2 DEF IInv

(* The types, by what each action assigns. *)
LEMMA TypeStep ==
  ASSUME IInv, Next
  PROVE  TypeOK'
<1> USE DEF TypeOK
<1>0. /\ TypeOK /\ \A t \in Tabs : Forms(t)
      /\ NoFlight \in Flight /\ open \subseteq Tabs
  BY DEF IInv, TabInv, NoFlight, Flight, Waiters
<1>1. Trouble => troubles' \in 0..MaxTroubles
  BY <1>0, ConsoleAssumption DEF Trouble
<1>2. ASSUME NEW t \in open, Visit(t) \/ QuerySelf(t) \/ Enter(t)
      PROVE  TypeOK'
  <2>1. t \in Tabs
    BY <1>0
  <2>2. /\ Joined(t, "guard", Answer(cookie, uid)) \in [Tabs -> Flight]
        /\ Joined(t, "page", Answer(cookie, uid)) \in [Tabs -> Flight]
    BY <1>0, <2>1, JoinedIs, AnswerType DEF Waiters
  <2>3. CASE Visit(t)
    BY <1>0, <2>1, <2>3 DEF Visit, shared
  <2>4. CASE QuerySelf(t)
    BY <1>0, <2>1, <2>2, <2>4 DEF QuerySelf, shared, Flight
  <2>5. CASE Enter(t)
    BY <1>0, <2>1, <2>2, <2>5 DEF Enter, shared, Flight
  <2> QED
    BY <1>2, <2>3, <2>4, <2>5
<1>3. ASSUME NEW t \in open, NEW u \in Users, StartSignIn(t, u)
      PROVE  TypeOK'
  <2>1. t \in Tabs /\ troubles' \in 0..MaxTroubles
    BY <1>0, <1>1, <1>3 DEF StartSignIn
  <2> QED
    BY <1>0, <1>3, <2>1 DEF StartSignIn, shared
<1>4. ASSUME NEW t \in open, Query(t) \/ SignOut(t) \/ Reload(t) \/ LogoutAnswered(t)
      PROVE  TypeOK'
  <2>1. t \in Tabs /\ Answer(cookie, uid) \in Users \cup {None}
    BY <1>0, AnswerType
  <2>2. CASE Query(t)
    BY <1>0, <2>1, <2>2 DEF Query, shared
  <2>3. CASE SignOut(t)
    BY <1>0, <1>1, <2>1, <2>3 DEF SignOut, shared
  <2>4. CASE Reload(t)
    BY <1>0, <1>1, <2>1, <2>4 DEF Reload, Load, Flight
  <2>5. CASE LogoutAnswered(t)
    BY <1>0, <2>1, <2>5 DEF LogoutAnswered, Load, Flight
  <2> QED
    BY <1>4, <2>2, <2>3, <2>4, <2>5
<1>5. ASSUME NEW t \in open, LoginAnswered(t) \/ CodeAnswered(t) \/ LoginFailed(t)
      PROVE  TypeOK'
  <2>1. t \in Tabs
    BY <1>0
  <2>2. task[t] = "login" /\ pending[t] \in Users
    BY <1>0, <1>5, <2>1 DEF LoginAnswered, CodeAnswered, LoginFailed, Forms
  <2>3. Answer(pending[t], pending[t]) \in Users \cup {None}
    BY <2>2 DEF Answer
  <2>4. Joined(t, "login", Answer(pending[t], pending[t])) \in [Tabs -> Flight]
    BY <1>0, <2>1, <2>3, JoinedIs DEF Waiters
  <2>5. CASE LoginAnswered(t)
    BY <1>0, <2>1, <2>2, <2>4, <2>5 DEF LoginAnswered, Flight
  <2>6. CASE CodeAnswered(t)
    BY <1>0, <2>1, <2>2, <2>6 DEF CodeAnswered, SetUser
  <2>7. CASE LoginFailed(t)
    BY <1>0, <1>1, <2>1, <2>7 DEF LoginFailed, shared
  <2> QED
    BY <1>5, <2>5, <2>6, <2>7
<1>6. ASSUME NEW t \in open, SelfAnswered(t) \/ SelfRefused(t) \/ SelfLost(t)
      PROVE  TypeOK'
  <2>1. t \in Tabs
    BY <1>0
  <2>2. /\ PageAfterSelf(t, TRUE) \in [Tabs -> {"signin", "entering", "guard", "console"}]
        /\ PageAfterSelf(t, FALSE) \in [Tabs -> {"signin", "entering", "guard", "console"}]
    BY <1>0, <2>1, PageAfterSelfIs
  <2>3. SelfOver(t) => /\ self' \in [Tabs -> Flight]
                       /\ task' \in [Tabs -> {"idle", "login", "self", "logout"}]
                       /\ pending' \in [Tabs -> Users \cup {None}]
                       /\ UNCHANGED <<cookie, open, data>>
    <3> SUFFICES ASSUME SelfOver(t)
                 PROVE  /\ self' \in [Tabs -> Flight]
                        /\ task' \in [Tabs -> {"idle", "login", "self", "logout"}]
                        /\ pending' \in [Tabs -> Users \cup {None}]
      BY DEF SelfOver
    <3>1. self \in [Tabs -> Flight] /\ self' = [self EXCEPT ![t] = NoFlight]
      BY <1>0 DEF SelfOver, Flight
    <3>2. self' \in [Tabs -> Flight]
      BY <1>0, <3>1
    <3>3. CASE "login" \in self[t].waiters
      BY <1>0, <2>1, <3>2, <3>3 DEF SelfOver
    <3>4. CASE "login" \notin self[t].waiters
      BY <1>0, <3>2, <3>4 DEF SelfOver
    <3> QED
      BY <3>3, <3>4
  <2>4. CASE SelfAnswered(t)
    BY <1>0, <2>1, <2>2, <2>3, <2>4 DEF SelfAnswered, SetUser, Flight
  <2>5. CASE SelfRefused(t)
    BY <1>0, <2>1, <2>2, <2>3, <2>5 DEF SelfRefused, Reset, Flight
  <2>6. CASE SelfLost(t)
    BY <1>0, <1>1, <2>1, <2>2, <2>3, <2>6 DEF SelfLost, Reset, Flight
  <2> QED
    BY <1>6, <2>4, <2>5, <2>6
<1>7. ASSUME NEW t \in open, NEW query \in BOOLEAN, DataRefused(t, query)
      PROVE  TypeOK'
  BY <1>0, <1>7 DEF DataRefused, Reset
<1>8. ASSUME NEW t \in open, DataAnswered(t)
      PROVE  TypeOK'
  BY <1>0, <1>8 DEF DataAnswered, shared
<1>9. CASE Expire
  BY <1>0, <1>1, <1>9 DEF Expire
<1> QED
  BY <1>2, <1>3, <1>4, <1>5, <1>6, <1>7, <1>8, <1>9 DEF Next, Handle

(* An action of another tab leaves a tab alone; none opens or closes one. *)
Untouched(t) ==
  /\ user'[t] = user[t] /\ verified'[t] = verified[t] /\ page'[t] = page[t]
  /\ task'[t] = task[t] /\ pending'[t] = pending[t] /\ self'[t] = self[t]
  /\ data'[t] = data[t] /\ vouched'[t] = vouched[t]

TabStep(t) ==
  \/ Visit(t) \/ Enter(t) \/ Query(t) \/ QuerySelf(t)
  \/ Handle(t) \/ SignOut(t) \/ Reload(t)
  \/ \E u \in Users : StartSignIn(t, u)

(* Each action belongs to one tab. *)
LEMMA Locality ==
  ASSUME IInv, NEW t \in open, TabStep(t)
  PROVE  open' = open /\ \A s \in Tabs \ {t} : Untouched(s)
<1> USE DEF Untouched
<1>0. t \in Tabs /\ TypeOK /\ Forms(t)
  BY DEF IInv, TabInv, TypeOK
<1>1. CASE Visit(t) \/ Query(t) \/ SignOut(t) \/ \E u \in Users : StartSignIn(t, u)
  BY <1>0, <1>1 DEF Visit, Query, SignOut, StartSignIn, TypeOK
<1>2. CASE Enter(t) \/ QuerySelf(t) \/ LoginAnswered(t)
  <2>1. \A who \in {"guard", "page"} : \A s \in Tabs \ {t} :
          Joined(t, who, Answer(cookie, uid))[s] = self[s]
    BY <1>0, JoinedIs, AnswerType DEF Waiters
  <2>2. LoginAnswered(t) => \A s \in Tabs \ {t} :
          Joined(t, "login", Answer(pending[t], pending[t]))[s] = self[s]
    <3>1. LoginAnswered(t) => Answer(pending[t], pending[t]) \in Users \cup {None}
      BY <1>0 DEF LoginAnswered, Forms, Answer
    <3> QED
      BY <1>0, <3>1, JoinedIs DEF Waiters
  <2> QED
    BY <1>0, <1>2, <2>1, <2>2 DEF Enter, QuerySelf, LoginAnswered, TypeOK
<1>3. CASE CodeAnswered(t) \/ LoginFailed(t) \/ DataAnswered(t)
           \/ DataRefused(t, TRUE) \/ DataRefused(t, FALSE)
  BY <1>0, <1>3 DEF CodeAnswered, LoginFailed, DataAnswered, DataRefused, SetUser,
       Reset, TypeOK
<1>4. CASE SelfAnswered(t) \/ SelfRefused(t) \/ SelfLost(t)
  <2>1. \A s \in Tabs \ {t} : /\ PageAfterSelf(t, TRUE)[s] = page[s]
                              /\ PageAfterSelf(t, FALSE)[s] = page[s]
    BY <1>0, PageAfterSelfIs
  <2>2. SelfOver(t) /\ page' \in {PageAfterSelf(t, TRUE), PageAfterSelf(t, FALSE)}
    BY <1>4 DEF SelfAnswered, SelfRefused, SelfLost
  <2>3. /\ open' = open
        /\ \A s \in Tabs \ {t} : /\ self'[s] = self[s] /\ data'[s] = data[s]
                                 /\ task'[s] = task[s] /\ pending'[s] = pending[s]
                                 /\ page'[s] = page[s]
    BY <1>0, <2>1, <2>2 DEF SelfOver, TypeOK
  <2>4. \A s \in Tabs \ {t} : /\ user'[s] = user[s] /\ verified'[s] = verified[s]
                              /\ vouched'[s] = vouched[s]
    BY <1>0, <1>4 DEF SelfAnswered, SelfRefused, SelfLost, SetUser, Reset, TypeOK
  <2> QED
    BY <2>3, <2>4
<1>5. CASE LogoutAnswered(t) \/ Reload(t)
  BY <1>0, <1>5 DEF LogoutAnswered, Reload, Load, TypeOK
<1> QED
  BY <1>1, <1>2, <1>3, <1>4, <1>5 DEF TabStep, Handle

(* A tab that no action of its own touches keeps its invariant, unless it   *)
(* is alone and its localStorage changes.                                  *)
LEMMA UntouchedKeeps ==
  ASSUME NEW t \in Tabs, TabInv(t), Untouched(t), open' # {t} \/ UNCHANGED <<open, saved, uid>>
  PROVE  TabInv(t)'
BY DEF TabInv, Known, Forms, Guarded, Alone, Untouched, NoFlight

(* The tab that moves keeps its invariant. *)
LEMMA TabKeeps ==
  ASSUME IInv, NEW t \in open, TabStep(t)
  PROVE  TabInv(t)'
<1>0. t \in Tabs /\ TypeOK /\ Known(t) /\ Forms(t) /\ Guarded(t) /\ Alone(t)
  BY DEF IInv, TabInv, TypeOK
<1> USE DEF TabInv, Known, Forms, Guarded, Alone
<1>1. CASE Visit(t) \/ Query(t) \/ SignOut(t) \/ \E u \in Users : StartSignIn(t, u)
  BY <1>0, <1>1 DEF Visit, Query, SignOut, StartSignIn, TypeOK, shared
<1>2. CASE Enter(t)
  <2>1. CASE user[t] = None \/ verified[t]
    BY <1>0, <1>2, <2>1 DEF Enter, TypeOK, shared
  <2>2. CASE user[t] # None /\ ~verified[t]
    <3>1. self' = Joined(t, "guard", Answer(cookie, uid)) /\ page'[t] = "guard"
      BY <1>0, <1>2, <2>2 DEF Enter, TypeOK
    <3>2. /\ UNCHANGED <<cookie, uid, saved, open, user, verified, task, pending, data, vouched>>
          /\ page[t] = "entering"
      BY <1>2 DEF Enter, shared
    <3>3. "login" \notin self[t].waiters /\ "page" \notin self[t].waiters
          /\ "guard" \notin self[t].waiters
      BY <1>0, <2>2, <3>2
    <3>4. self[t].waiters = {}
      BY <1>0, <3>3 DEF TypeOK, Waiters
    <3>5. self'[t].waiters = {"guard"} /\ self'[t].answer = Answer(cookie, uid)
      BY <1>0, <3>1, <3>4, JoinedIs, AnswerType DEF Waiters
    <3>6. open = {t} => Answer(cookie, uid) \in {None, user[t]}
      BY <1>0, <2>2 DEF Answer
    <3> QED
      BY <1>0, <2>2, <3>1, <3>2, <3>5, <3>6
  <2> QED
    BY <2>1, <2>2
<1>3. CASE QuerySelf(t)
  <2>1. /\ UNCHANGED <<cookie, uid, saved, open, user, verified, page, task, pending, data, vouched>>
        /\ page[t] = "console" /\ self' = Joined(t, "page", Answer(cookie, uid))
    BY <1>3 DEF QuerySelf, shared
  <2>2. self'[t].waiters = self[t].waiters \cup {"page"}
    BY <1>0, <2>1, JoinedIs, AnswerType DEF Waiters
  <2>3. verified[t] /\ "guard" \notin self[t].waiters
    BY <1>0, <2>1
  <2> QED
    BY <1>0, <2>1, <2>2, <2>3
<1>4. CASE LoginAnswered(t)
  BY <1>0, <1>4, JoinedIs DEF LoginAnswered, TypeOK, Waiters, Answer
<1>5. CASE CodeAnswered(t) \/ LoginFailed(t) \/ DataAnswered(t)
  BY <1>0, <1>5 DEF CodeAnswered, LoginFailed, DataAnswered, SetUser, TypeOK, shared
<1>6. CASE DataRefused(t, TRUE) \/ DataRefused(t, FALSE)
  BY <1>0, <1>6 DEF DataRefused, Reset, TypeOK
<1>7. CASE SelfAnswered(t)
  <2>1. /\ self'[t] = NoFlight /\ NoFlight.waiters = {}
        /\ UNCHANGED <<open, cookie, data>>
        /\ vouched'[t] = vouched[t] \cup {self[t].answer}
        /\ verified'[t] = (verified[t] \/ "guard" \in self[t].waiters)
        /\ page' = PageAfterSelf(t, TRUE)
        /\ self[t].answer \in Users
    BY <1>0, <1>7 DEF SelfAnswered, SelfOver, TypeOK, NoFlight
  <2>2. CASE "login" \in self[t].waiters
    <3>1. /\ task'[t] = "idle" /\ user'[t] = self[t].answer
          /\ saved' = self[t].answer /\ uid' = self[t].answer
      BY <1>0, <1>7, <2>2 DEF SelfAnswered, SelfOver, SetUser, TypeOK
    <3>2. page'[t] = "entering"
      BY <1>0, <2>1, <2>2, PageAfterSelfIs
    <3>3. task[t] = "self" /\ user[t] = None
      BY <1>0, <2>2
    <3>4. data[t] # {} => verified[t]
      BY <1>0
    <3> QED
      BY <2>1, <3>1, <3>2, <3>4
  <2>3. CASE "login" \notin self[t].waiters /\ "guard" \in self[t].waiters
    <3>1. /\ UNCHANGED <<task, pending, uid>>
          /\ user'[t] = self[t].answer /\ saved' = self[t].answer
      BY <1>0, <1>7, <2>3 DEF SelfAnswered, SelfOver, SetUser, TypeOK
    <3>2. page'[t] = "console"
      BY <1>0, <2>1, <2>3, PageAfterSelfIs
    <3>3. user[t] # None /\ task[t] \notin {"login", "self"}
      BY <1>0, <2>3
    <3>4. open = {t} => self[t].answer = user[t]
      BY <1>0, <2>1, <2>3, ConsoleAssumption
    <3> QED
      BY <1>0, <2>1, <2>3, <3>1, <3>2, <3>3, <3>4
  <2>4. CASE "login" \notin self[t].waiters /\ "guard" \notin self[t].waiters
    <3>1. UNCHANGED <<task, pending, uid, user, saved>>
      BY <1>0, <1>7, <2>4 DEF SelfAnswered, SelfOver
    <3>2. page'[t] = page[t]
      BY <1>0, <2>1, <2>4, PageAfterSelfIs
    <3> QED
      BY <1>0, <2>1, <2>4, <3>1, <3>2
  <2> QED
    BY <2>2, <2>3, <2>4
<1>8. CASE SelfRefused(t) \/ SelfLost(t)
  <2>1. /\ self'[t] = NoFlight /\ NoFlight.waiters = {}
        /\ UNCHANGED <<open, cookie, data, verified, vouched>>
        /\ page' = PageAfterSelf(t, FALSE)
        /\ \/ user'[t] = None /\ saved' = None /\ uid' = None
           \/ UNCHANGED <<user, saved, uid>> /\ "guard" \notin self[t].waiters
    BY <1>0, <1>8 DEF SelfRefused, SelfLost, SelfOver, Reset, TypeOK, NoFlight
  <2>2. /\ "login" \in self[t].waiters => task'[t] = "idle"
        /\ "login" \notin self[t].waiters => UNCHANGED <<task, pending>>
    BY <1>0, <1>8 DEF SelfRefused, SelfLost, SelfOver, TypeOK
  <2>3. \/ "login" \in self[t].waiters /\ page'[t] = "entering"
        \/ /\ "login" \notin self[t].waiters /\ "guard" \in self[t].waiters
           /\ page'[t] = "signin" /\ user'[t] = None
        \/ /\ "login" \notin self[t].waiters /\ "guard" \notin self[t].waiters
           /\ page'[t] = page[t]
    BY <1>0, <2>1, PageAfterSelfIs
  <2>4. Known(t)'
    BY <1>0, <2>1, <2>3
  <2>5. Forms(t)'
    BY <1>0, <2>1, <2>2, <2>3
  <2>6. Guarded(t)'
    BY <1>0, <2>1, <2>2, <2>3
  <2>7. Alone(t)'
    BY <1>0, <2>1
  <2> QED
    BY <2>4, <2>5, <2>6, <2>7
<1>9. CASE LogoutAnswered(t) \/ Reload(t)
  <2>1. /\ self'[t] = NoFlight /\ NoFlight.waiters = {} /\ NoFlight.answer = None
        /\ verified'[t] = FALSE /\ page'[t] = "entering" /\ task'[t] = "idle"
        /\ data'[t] = {} /\ open' = open
        /\ \/ user'[t] = saved /\ UNCHANGED <<uid, saved>>
           \/ user'[t] = None /\ saved' = None
    BY <1>0, <1>9 DEF LogoutAnswered, Reload, Load, TypeOK, NoFlight
  <2> QED
    BY <1>0, <2>1
<1> QED
  BY <1>1, <1>2, <1>3, <1>4, <1>5, <1>6, <1>7, <1>8, <1>9 DEF TabStep, Handle

(* Together: the invariant holds in every reachable state. *)
LEMMA Inductive == Spec => []IInv
<1>1. ASSUME IInv, Next
      PROVE  IInv'
  <2>1. TypeOK'
    BY <1>1, TypeStep
  <2>2. ASSUME NEW t \in Tabs
        PROVE  TabInv(t)'
    <3>0. TypeOK /\ TabInv(t)
      BY <1>1 DEF IInv
    <3>1. CASE \E s \in open : TabStep(s)
      <4>1. PICK s \in open : TabStep(s)
        BY <3>1
      <4>2. CASE s = t
        BY <1>1, <4>1, <4>2, TabKeeps
      <4>3. CASE s # t
        <5>1. open' = open /\ Untouched(t)
          BY <1>1, <4>1, <4>3, Locality
        <5>2. open' # {t}
          BY <4>3, <5>1
        <5> QED
          BY <3>0, <5>1, <5>2, UntouchedKeeps
      <4> QED
        BY <4>2, <4>3
    <3>2. CASE Expire
      <4>1. Untouched(t) /\ UNCHANGED <<open, saved, uid>>
        BY <3>2 DEF Expire, Untouched
      <4> QED
        BY <3>0, <4>1, UntouchedKeeps
    <3> QED
      BY <1>1, <3>1, <3>2 DEF Next, TabStep
  <2> QED
    BY <2>1, <2>2 DEF IInv
<1>2. IInv /\ UNCHANGED vars => IInv'
  BY DEF IInv, TypeOK, TabInv, Known, Forms, Guarded, Alone, vars, shared
<1> QED
  BY InitInv, <1>1, <1>2, PTL DEF Spec

(* Every variable keeps its type; in particular the uid of localStorage is  *)
(* a user's or nothing, since reset() removes it instead of blanking it.    *)
THEOREM TypeCorrect == Spec => []TypeOK
<1>1. IInv => TypeOK
  BY DEF IInv
<1> QED
  BY <1>1, Inductive, PTL

(* The guard of the authenticated routes lets nobody see a page under a     *)
(* name the server has not given since the load (route.tsx's beforeLoad).   *)
THEOREM ShownUserVouchedFor == Spec => []ShownUserWasVouchedFor
<1>1. IInv => ShownUserWasVouchedFor
  BY DEF IInv, TypeOK, TabInv, Known, ShownUserWasVouchedFor
<1> QED
  BY <1>1, Inductive, PTL

(* In a browser with one tab, what the server accepts is asked under the    *)
(* name the tab shows, however late the answers of earlier sessions come    *)
(* (api.ts's joined GETs, handleLoginSuccess).                              *)
THEOREM SingleTabActsAsShown == Spec => []ActsAsShown
<1>1. IInv => ActsAsShown
  <2> SUFFICES ASSUME IInv, NEW t \in open, open = {t}, page[t] = "console",
                      Answer(cookie, uid) # None
               PROVE  user[t] \in {cookie, None}
    BY DEF ActsAsShown
  <2>1. Alone(t)
    BY DEF IInv, TypeOK, TabInv
  <2>2. cookie # None /\ uid = cookie
    BY DEF Answer
  <2> QED
    BY <2>1, <2>2 DEF Alone
<1> QED
  BY <1>1, Inductive, PTL
==============================================================================
