------------------------- MODULE ElectronShell_proofs -------------------------
(***************************************************************************)
(* Theorems about ElectronShell, for any number of probes.                 *)
(***************************************************************************)
EXTENDS ElectronShell, TLAPS

(* Whoever still has a server to end knows it: serverProcess is forgotten, *)
(* and the close event comes, only when it has ended.                      *)
Held ==
  /\ ~handle => server = "exited"
  /\ closing => server = "exited"

(* A start that was decided has left an icon or a dialog; a dialog goes    *)
(* only with a quit.                                                       *)
Told == startup # "starting" => tray \/ dialogs # {} \/ quitting

(* The inductive invariant. *)
IInv == TypeOK /\ Held /\ NoOrphanServer /\ Told

(* A rejection decides the start with a dialog, or comes too late. *)
LEMMA RejectedKeeps ==
  ASSUME startup \in {"starting", "up", "failed"},
         dialogs \in SUBSET {"startup", "crash"}, Told, Rejected,
         UNCHANGED <<tray, quitting>>
  PROVE  /\ startup' \in {"starting", "up", "failed"}
         /\ dialogs' \in SUBSET {"startup", "crash"}
         /\ Told'
<1>1. CASE startup = "starting"
  <2>1. startup' = "failed" /\ dialogs' = dialogs \cup {"startup"}
    BY <1>1 DEF Rejected
  <2> QED
    BY <2>1 DEF Told
<1>2. CASE startup # "starting"
  BY <1>2 DEF Rejected, Told
<1> QED
  BY <1>1, <1>2

(* A probe that ended leaves the counts natural numbers. *)
LEMMA RetryKeeps ==
  ASSUME IInv, NEW p \in [open : Nat, dying : Nat, waiting : Nat], RetryOrReject(p),
         UNCHANGED <<tray, quitting>>
  PROVE  /\ probes' \in [open : Nat, dying : Nat, waiting : Nat]
         /\ startup' \in {"starting", "up", "failed"}
         /\ dialogs' \in SUBSET {"startup", "crash"}
         /\ Told'
<1>1. CASE GivesUp
  <2>1. probes' = p /\ Rejected
    BY <1>1 DEF RetryOrReject
  <2> QED
    BY <2>1, RejectedKeeps DEF IInv, TypeOK
<1>2. CASE ~GivesUp
  <2>1. /\ probes' = [p EXCEPT !.waiting = @ + 1]
        /\ UNCHANGED <<startup, dialogs>>
    BY <1>2 DEF RetryOrReject
  <2> QED
    BY <2>1 DEF IInv, TypeOK, Told
<1> QED
  BY <1>1, <1>2

(* Two of the counts of probes change at once. *)
LEMMA TwoCounts ==
  ASSUME NEW p \in [open : Nat, dying : Nat, waiting : Nat], NEW m \in Nat, NEW n \in Nat
  PROVE  /\ [p EXCEPT !.open = m, !.dying = n] \in [open : Nat, dying : Nat, waiting : Nat]
         /\ [p EXCEPT !.waiting = n, !.open = m] \in [open : Nat, dying : Nat, waiting : Nat]
<1> DEFINE q == [p EXCEPT !.open = m]
<1>1. q \in [open : Nat, dying : Nat, waiting : Nat]
  OBVIOUS
<1>2. /\ [q EXCEPT !.dying = n] \in [open : Nat, dying : Nat, waiting : Nat]
      /\ [q EXCEPT !.waiting = n] \in [open : Nat, dying : Nat, waiting : Nat]
  BY <1>1
<1>3. /\ [p EXCEPT !.open = m, !.dying = n] = [q EXCEPT !.dying = n]
      /\ [p EXCEPT !.waiting = n, !.open = m] = [q EXCEPT !.waiting = n]
  OBVIOUS
<1> QED
  BY <1>2, <1>3

(* Whatever a window does, mainWindow stays one of the three. *)
LEMMA WindowType ==
  ASSUME window \in {"none", "shown", "hidden"}
  PROVE  WindowAfterClose \in {"none", "shown", "hidden"}
  BY DEF WindowAfterClose

(* The start is open, and its server is there. *)
LEMMA InitInv == Init => IInv
<1> SUFFICES ASSUME Init
             PROVE  IInv
  OBVIOUS
<1>1. probes \in [open : Nat, dying : Nat, waiting : Nat]
  BY DEF Init
<1> QED
  BY <1>1 DEF Init, IInv, TypeOK, Held, NoOrphanServer, Running, Told

(* The probes know nothing of the server but whether somebody answers. *)
LEMMA ProbeStep == IInv /\ (Probe \/ Reconnect) => IInv'
<1> SUFFICES ASSUME IInv, Probe \/ Reconnect
             PROVE  IInv'
  OBVIOUS
<1>0. probes \in [open : Nat, dying : Nat, waiting : Nat]
  BY DEF IInv, TypeOK
<1>1. CASE ProbeAnswered
  <2>1. probes' \in [open : Nat, dying : Nat, waiting : Nat]
    BY <1>0, <1>1 DEF ProbeAnswered
  <2>2. UNCHANGED <<app, attempts, procVars, dialogs, quitVars>>
    BY <1>1 DEF ProbeAnswered
  <2>3. \/ startup' = "up" /\ tray' = TRUE /\ window' = "shown"
           /\ stray' = (stray \/ window # "none")
        \/ UNCHANGED <<startup, uiVars>>
    BY <1>1 DEF ProbeAnswered, CreateWindow
  <2>4. TypeOK'
    BY <2>1, <2>2, <2>3 DEF IInv, TypeOK, procVars, uiVars, quitVars
  <2>5. Told'
    BY <2>2, <2>3 DEF IInv, Told, uiVars, quitVars
  <2> QED
    BY <2>2, <2>4, <2>5 DEF IInv, Held, NoOrphanServer, Running, procVars
<1>2. CASE ProbeRefused
  <2> DEFINE p == [probes EXCEPT !.open = @ - 1]
  <2>1. p \in [open : Nat, dying : Nat, waiting : Nat] /\ RetryOrReject(p)
    BY <1>0, <1>2 DEF ProbeRefused
  <2>2. UNCHANGED <<app, attempts, procVars, uiVars, quitVars>>
    BY <1>2 DEF ProbeRefused
  <2> QED
    BY <2>1, <2>2, RetryKeeps DEF IInv, TypeOK, Held, NoOrphanServer, Running, procVars,
       uiVars, quitVars
<1>3. CASE ProbeTimeout
  <2> DEFINE p == [probes EXCEPT !.open = @ - 1, !.dying = @ + 1]
  <2>1. p \in [open : Nat, dying : Nat, waiting : Nat] /\ RetryOrReject(p)
    <3>1. probes.open - 1 \in Nat /\ probes.dying + 1 \in Nat
      BY <1>0, <1>3 DEF ProbeTimeout
    <3> QED
      BY <1>0, <1>3, <3>1, TwoCounts DEF ProbeTimeout
  <2>2. UNCHANGED <<app, attempts, procVars, uiVars, quitVars>>
    BY <1>3 DEF ProbeTimeout
  <2> QED
    BY <2>1, <2>2, RetryKeeps DEF IInv, TypeOK, Held, NoOrphanServer, Running, procVars,
       uiVars, quitVars
<1>4. CASE ProbeDestroyed
  <2> DEFINE p == [probes EXCEPT !.dying = @ - 1]
  <2>1. p \in [open : Nat, dying : Nat, waiting : Nat] /\ RetryOrReject(p)
    BY <1>0, <1>4 DEF ProbeDestroyed
  <2>2. UNCHANGED <<app, attempts, procVars, uiVars, quitVars>>
    BY <1>4 DEF ProbeDestroyed
  <2> QED
    BY <2>1, <2>2, RetryKeeps DEF IInv, TypeOK, Held, NoOrphanServer, Running, procVars,
       uiVars, quitVars
<1>5. CASE Reconnect
  <2>1. probes.waiting - 1 \in Nat /\ probes.open + 1 \in Nat
    BY <1>0, <1>5 DEF Reconnect
  <2>2. probes' \in [open : Nat, dying : Nat, waiting : Nat]
    BY <1>0, <1>5, <2>1, TwoCounts DEF Reconnect
  <2>3. /\ attempts' = attempts + 1
        /\ UNCHANGED <<app, startup, procVars, uiVars, dialogs, quitVars>>
    BY <1>5 DEF Reconnect
  <2> QED
    BY <2>2, <2>3 DEF IInv, TypeOK, Held, NoOrphanServer, Told, Running, procVars, uiVars,
       quitVars
<1> QED
  BY <1>1, <1>2, <1>3, <1>4, <1>5 DEF Probe

(* The server may end at any moment; the application ends with its close   *)
(* event only after it has ended.                                          *)
LEMMA ServerStep ==
  IInv /\ (ServerListens \/ ServerExits \/ SpawnFails \/ ServerClosed) => IInv'
<1> SUFFICES ASSUME IInv, ServerListens \/ ServerExits \/ SpawnFails \/ ServerClosed
             PROVE  IInv'
  OBVIOUS
<1> USE DEF IInv, Held, NoOrphanServer, Running
<1>1. CASE ServerListens
  BY <1>1 DEF ServerListens, TypeOK, Told, probeVars, uiVars, quitVars
<1>2. CASE ServerExits
  BY <1>2 DEF ServerExits, TypeOK, Told, probeVars, uiVars, quitVars
<1>3. CASE SpawnFails
  BY <1>3, RejectedKeeps DEF SpawnFails, TypeOK, probeVars, uiVars, quitVars
<1>4. CASE ServerClosed
  <2>1. window' \in {"none", "shown", "hidden"}
    BY <1>4, WindowType DEF ServerClosed, TypeOK
  <2>2. dialogs' \in SUBSET {"startup", "crash"} /\ dialogs \subseteq dialogs'
    BY <1>4 DEF ServerClosed, TypeOK
  <2>3. handle' \in BOOLEAN /\ app' \in {"running", "exited"}
    BY <1>4 DEF ServerClosed, TypeOK
  <2>4. server = "exited" /\ server' = "exited" /\ closing' = FALSE
    BY <1>4 DEF ServerClosed
  <2>5. UNCHANGED <<startup, probeVars, server, code, portTaken, tray, stray, quitVars>>
    BY <1>4 DEF ServerClosed
  <2>6. TypeOK'
    BY <2>1, <2>2, <2>3, <2>4, <2>5 DEF TypeOK, probeVars, quitVars
  <2>7. Told'
    BY <2>2, <2>5 DEF Told, quitVars
  <2> QED
    BY <2>4, <2>6, <2>7
<1> QED
  BY <1>1, <1>2, <1>3, <1>4

(* A quit ends the application at once only if there is no server. *)
LEMMA QuitStep ==
  IInv /\ (GraceOver \/ TrayQuit \/ MenuQuit
             \/ \E d \in {"startup", "crash"} : DialogAnswered(d)) => IInv'
<1> SUFFICES ASSUME IInv, \/ GraceOver \/ TrayQuit \/ MenuQuit
                          \/ \E d \in {"startup", "crash"} : DialogAnswered(d)
             PROVE  IInv'
  OBVIOUS
<1> USE DEF IInv, TypeOK, Held, NoOrphanServer, Told, Running, probeVars, procVars, uiVars
<1>1. CASE GraceOver
  BY <1>1 DEF GraceOver, quitVars
<1>2. CASE TrayQuit
  BY <1>2 DEF TrayQuit, Quit
<1>3. CASE MenuQuit
  BY <1>3 DEF MenuQuit, Quit
<1>4. ASSUME NEW d \in {"startup", "crash"}, DialogAnswered(d)
      PROVE  IInv'
  BY <1>4 DEF DialogAnswered, Quit
<1> QED
  BY <1>1, <1>2, <1>3, <1>4

(* Windows end nothing. *)
LEMMA WindowStep == IInv /\ (CloseWindow \/ CloseStray \/ ShowWindow \/ Activate) => IInv'
<1> SUFFICES ASSUME IInv, CloseWindow \/ CloseStray \/ ShowWindow \/ Activate
             PROVE  IInv'
  OBVIOUS
<1>1. /\ UNCHANGED <<app, startup, probeVars, procVars, tray, dialogs, quitVars>>
      /\ window' \in {"none", "shown", "hidden"}
      /\ stray' \in BOOLEAN
  BY WindowType DEF CloseWindow, CloseStray, ShowWindow, Activate, CreateWindow, IInv, TypeOK
<1> QED
  BY <1>1 DEF IInv, TypeOK, Held, NoOrphanServer, Told, Running, probeVars, procVars, quitVars

LEMMA Invariant == Spec => []IInv
<1>1. IInv /\ [Next]_vars => IInv'
  <2> SUFFICES ASSUME IInv, [Next]_vars
               PROVE  IInv'
    OBVIOUS
  <2>1. CASE UNCHANGED vars
    BY <2>1 DEF vars, IInv, TypeOK, Held, NoOrphanServer, Told, Running, probeVars, procVars,
       uiVars, quitVars
  <2> QED
    BY <2>1, ProbeStep, ServerStep, QuitStep, WindowStep DEF Next, Gone
<1> QED
  BY InitInv, <1>1, PTL DEF Spec

(* Every variable keeps its type: each request of a probe that was sent    *)
(* ends once, by an answer or an error, and by one more error after its    *)
(* timeout.                                                                *)
THEOREM TypeCorrect == Spec => []TypeOK
<1>1. IInv => TypeOK
  BY DEF IInv
<1> QED
  BY <1>1, Invariant, PTL

(* However the start, a crash and several quits meet, the application does *)
(* not end before its server: before-quit waits, or kills.                 *)
THEOREM NoServerLeft == Spec => []NoOrphanServer
<1>1. IInv => NoOrphanServer
  BY DEF IInv
<1> QED
  BY <1>1, Invariant, PTL

(* A start that has ended, however many probes were sent, leaves an icon,  *)
(* a dialog or a quit under way.                                           *)
THEOREM UserAlwaysHasAHandle == Spec => []UserHasAHandle
<1>1. IInv => UserHasAHandle
  BY DEF IInv, Told, UserHasAHandle
<1> QED
  BY <1>1, Invariant, PTL
===============================================================================
