---------------------------- MODULE ElectronShell ----------------------------
(***************************************************************************)
(* The main process of the desktop shell, in a production build: it spawns *)
(* the server, probes its port until it answers, then shows a tray icon    *)
(* and a window; a dialog ends it when the start fails or the server       *)
(* crashes; a quit waits for the server to end, for five seconds at most.  *)
(*                                                                         *)
(* Every event handler of electron/main.js is an action.  Dialog texts,    *)
(* log files and the dock icon are left out.                               *)
(***************************************************************************)
EXTENDS Integers

CONSTANT MaxRetries    \* maxRetries of checkServerAvailability (30)

ASSUME ShellAssumption == MaxRetries \in Nat \ {0}

VARIABLES
  app,          \* "running" or "exited"
  startup,      \* what whenReady awaits: "starting", "up" or "failed"
  attempts,     \* currentAttempt, shared by all chains of probes
  probes,       \* number of probes open, destroyed by a timeout, and waiting
  server,       \* the child process: "booting", "serving" or "exited"
  code,         \* its exit code: "ok" for 0 and for a signal, "error", "none"
  closing,      \* its close event is still to be handled
  handle,       \* serverProcess is set
  portTaken,    \* another program listens on the port
  tray,         \* the tray icon is there
  window,       \* mainWindow: "none", "shown" or "hidden"
  stray,        \* a window that mainWindow does not name any more
  dialogs,      \* message boxes that wait for the user
  isQuitting,   \* app.isQuitting
  quitting,     \* history: app.quit was called
  grace,        \* a five-second timer of before-quit runs
  exitOnClose   \* before-quit listens for the close event

procVars == <<server, code, closing, handle, portTaken>>
probeVars == <<attempts, probes>>
uiVars == <<tray, window, stray>>
quitVars == <<isQuitting, quitting, grace, exitOnClose>>
vars == <<app, startup, probeVars, procVars, uiVars, dialogs, quitVars>>

(* The type invariant. *)
TypeOK ==
  /\ app \in {"running", "exited"}
  /\ startup \in {"starting", "up", "failed"}
  /\ attempts \in Nat
  /\ probes \in [open : Nat, dying : Nat, waiting : Nat]
  /\ server \in {"booting", "serving", "exited"}
  /\ code \in {"none", "ok", "error"}
  /\ window \in {"none", "shown", "hidden"}
  /\ dialogs \in SUBSET {"startup", "crash"}
  /\ {closing, handle, portTaken, tray, stray, isQuitting, quitting, grace,
      exitOnClose} \subseteq BOOLEAN

(* startServer has spawned the server and sent the first probe. *)
Init ==
  /\ app = "running" /\ startup = "starting"
  /\ attempts = 1
  /\ probes = [open |-> 1, dying |-> 0, waiting |-> 0]
  /\ server = "booting" /\ code = "none" /\ closing = FALSE /\ handle = TRUE
  /\ portTaken \in BOOLEAN
  /\ tray = FALSE /\ window = "none" /\ stray = FALSE
  /\ dialogs = {}
  /\ isQuitting = FALSE /\ quitting = FALSE
  /\ grace = FALSE /\ exitOnClose = FALSE

Running == app = "running"
------------------------------------------------------------------------------
(* createWindow: mainWindow names the new window, whatever it named before. *)
CreateWindow ==
  /\ window' = "shown"
  /\ stray' = (stray \/ window # "none")

(* mainWindow.close(): hidden, not closed, unless the application quits. *)
WindowAfterClose ==
  CASE window = "none" -> "none"
    [] isQuitting -> "none"
    [] OTHER -> "hidden"

(* The promise of startServer is rejected: the first outcome counts. *)
Rejected ==
  IF startup = "starting"
  THEN startup' = "failed" /\ dialogs' = dialogs \cup {"startup"}
  ELSE UNCHANGED <<startup, dialogs>>

GivesUp == attempts >= MaxRetries

(* The end of the error and of the timeout handler of a probe, p being the *)
(* probes without it: give up or try again after a delay.                  *)
RetryOrReject(p) ==
  IF GivesUp
  THEN probes' = p /\ Rejected
  ELSE /\ probes' = [p EXCEPT !.waiting = @ + 1]
       /\ UNCHANGED <<startup, dialogs>>

(* The server, or whatever listens on the port, answers a probe. *)
ProbeAnswered ==
  /\ Running /\ probes.open > 0
  /\ server = "serving" \/ portTaken
  /\ probes' = [probes EXCEPT !.open = @ - 1]
  /\ IF startup = "starting"
     THEN startup' = "up" /\ tray' = TRUE /\ CreateWindow
     ELSE UNCHANGED <<startup, uiVars>>
  /\ UNCHANGED <<app, attempts, procVars, dialogs, quitVars>>

(* Nobody listens. *)
ProbeRefused ==
  /\ Running /\ probes.open > 0
  /\ server # "serving" /\ ~portTaken
  /\ RetryOrReject([probes EXCEPT !.open = @ - 1])
  /\ UNCHANGED <<app, attempts, procVars, uiVars, quitVars>>

(* Mutant: a timeout is ignored. *)
ProbeTimeoutIgnored ==
  /\ Running /\ probes.open > 0
  /\ server = "serving" \/ portTaken
  /\ probes' = [probes EXCEPT !.open = @ - 1]
  /\ UNCHANGED <<app, startup, attempts, procVars, uiVars, dialogs, quitVars>>

(* No answer for ten seconds: the request is destroyed, which will emit an *)
(* error of its own, and the timeout handler tries again by itself.        *)
ProbeTimeout ==
  /\ Running /\ probes.open > 0
  /\ server = "serving" \/ portTaken
  /\ RetryOrReject([probes EXCEPT !.open = @ - 1, !.dying = @ + 1])
  /\ UNCHANGED <<app, attempts, procVars, uiVars, quitVars>>

(* Mutant: every request has a second error. *)
ProbeDestroyedTwice ==
  /\ Running /\ probes.open > 0
  /\ RetryOrReject([probes EXCEPT !.dying = @ - 1])
  /\ UNCHANGED <<app, attempts, procVars, uiVars, quitVars>>

(* The error of a request destroyed by its timeout. *)
ProbeDestroyed ==
  /\ Running /\ probes.dying > 0
  /\ RetryOrReject([probes EXCEPT !.dying = @ - 1])
  /\ UNCHANGED <<app, attempts, procVars, uiVars, quitVars>>

(* tryConnect again. *)
Reconnect ==
  /\ Running /\ probes.waiting > 0
  /\ probes' = [probes EXCEPT !.waiting = @ - 1, !.open = @ + 1]
  /\ attempts' = attempts + 1
  /\ UNCHANGED <<app, startup, procVars, uiVars, dialogs, quitVars>>
------------------------------------------------------------------------------
(* The server listens. *)
ServerListens ==
  /\ server = "booting" /\ ~portTaken
  /\ server' = "serving"
  /\ UNCHANGED <<app, startup, probeVars, code, closing, handle, portTaken,
                 uiVars, dialogs, quitVars>>

(* The server ends: of its own, by the SIGTERM of before-quit, or with an  *)
(* error.                                                                  *)
ServerExits ==
  /\ Running /\ server # "exited"
  /\ server' = "exited"
  /\ code' \in {"ok", "error"}
  /\ closing' = TRUE
  /\ UNCHANGED <<app, startup, probeVars, handle, portTaken, uiVars, dialogs,
                 quitVars>>

(* The binary cannot be started: the error event rejects the start, the    *)
(* close event follows.                                                    *)
SpawnFails ==
  /\ Running /\ server = "booting"
  /\ server' = "exited" /\ code' = "error" /\ closing' = TRUE
  /\ Rejected
  /\ UNCHANGED <<app, probeVars, handle, portTaken, uiVars, quitVars>>

(* Mutant: a crash is told only while a window is shown. *)
ServerClosedSilently ==
  /\ Running /\ closing
  /\ closing' = FALSE
  /\ IF code = "error" /\ window = "shown"
     THEN dialogs' = dialogs \cup {"crash"} /\ UNCHANGED window
     ELSE window' = WindowAfterClose /\ UNCHANGED dialogs
  /\ IF exitOnClose
     THEN handle' = FALSE /\ app' = "exited"
     ELSE UNCHANGED <<handle, app>>
  /\ UNCHANGED <<startup, probeVars, server, code, portTaken, tray, stray,
                 quitVars>>

(* The close event: the listener of startServer, then that of before-quit. *)
ServerClosed ==
  /\ Running /\ closing
  /\ closing' = FALSE
  /\ IF code = "error"
     THEN dialogs' = dialogs \cup {"crash"} /\ UNCHANGED window
     ELSE window' = WindowAfterClose /\ UNCHANGED dialogs
  /\ IF exitOnClose
     THEN handle' = FALSE /\ app' = "exited"
     ELSE UNCHANGED <<handle, app>>
  /\ UNCHANGED <<startup, probeVars, server, code, portTaken, tray, stray,
                 quitVars>>
------------------------------------------------------------------------------
(* Mutant: without the timer, a quit waits for the server alone. *)
QuitWithoutTimer ==
  /\ quitting' = TRUE
  /\ IF handle
     THEN exitOnClose' = TRUE /\ UNCHANGED <<app, grace>>
     ELSE app' = "exited" /\ UNCHANGED <<grace, exitOnClose>>

(* app.quit, up to the end of the before-quit handler.  Its SIGTERM may    *)
(* end the server (ServerExits), or not in time.                           *)
Quit ==
  /\ quitting' = TRUE
  /\ IF handle
     THEN grace' = TRUE /\ exitOnClose' = TRUE /\ UNCHANGED app
     ELSE app' = "exited" /\ UNCHANGED <<grace, exitOnClose>>

(* Mutant: the timer leaves the server alone. *)
GraceOverWithoutKill ==
  /\ Running /\ grace
  /\ app' = "exited"
  /\ UNCHANGED <<startup, probeVars, procVars, uiVars, dialogs, quitVars>>

(* The five seconds are over: SIGKILL, and the application exits. *)
GraceOver ==
  /\ Running /\ grace
  /\ server' = IF handle THEN "exited" ELSE server
  /\ app' = "exited"
  /\ UNCHANGED <<startup, probeVars, code, closing, handle, portTaken, uiVars,
                 dialogs, quitVars>>

(* Mutant: only the crash dialog quits, the start dialog is just closed. *)
DialogAnsweredOnly(d) ==
  /\ Running /\ d \in dialogs
  /\ dialogs' = dialogs \ {d}
  /\ IF d = "crash" THEN isQuitting' = TRUE /\ Quit
     ELSE UNCHANGED <<app, quitVars>>
  /\ UNCHANGED <<startup, probeVars, procVars, uiVars>>

(* The user has read a dialog, and the log if they asked for it. *)
DialogAnswered(d) ==
  /\ Running /\ d \in dialogs
  /\ dialogs' = dialogs \ {d}
  /\ isQuitting' = (isQuitting \/ d = "crash")
  /\ Quit
  /\ UNCHANGED <<startup, probeVars, procVars, uiVars>>

(* Quit in the tray menu. *)
TrayQuit ==
  /\ Running /\ tray
  /\ isQuitting' = TRUE
  /\ Quit
  /\ UNCHANGED <<startup, probeVars, procVars, uiVars, dialogs>>

(* Quit in the application menu, or by the system at log-out. *)
MenuQuit ==
  /\ Running
  /\ Quit
  /\ UNCHANGED <<startup, probeVars, procVars, uiVars, dialogs, isQuitting>>

(* The user closes the window. *)
CloseWindow ==
  /\ Running /\ window = "shown"
  /\ window' = WindowAfterClose
  /\ UNCHANGED <<app, startup, probeVars, procVars, tray, stray, dialogs, quitVars>>

(* A window the shell has lost is closed: the handler vetoes it and hides  *)
(* mainWindow instead; when the application quits, the window is gone and  *)
(* its handler forgets mainWindow, which is lost in its turn.              *)
CloseStray ==
  /\ Running /\ stray
  /\ window' = WindowAfterClose
  /\ stray' = (~isQuitting \/ window # "none")
  /\ UNCHANGED <<app, startup, probeVars, procVars, tray, dialogs, quitVars>>

(* Show in the tray menu, or a click on the icon, which also hides. *)
ShowWindow ==
  /\ Running /\ tray
  /\ IF window = "none" THEN CreateWindow
     ELSE window' \in {"shown", "hidden"} /\ UNCHANGED stray
  /\ UNCHANGED <<app, startup, probeVars, procVars, tray, dialogs, quitVars>>

(* macOS activates the application while it has no window. *)
Activate ==
  /\ Running /\ window = "none" /\ ~stray
  /\ CreateWindow
  /\ UNCHANGED <<app, startup, probeVars, procVars, tray, dialogs, quitVars>>

Probe == ProbeAnswered \/ ProbeRefused \/ ProbeTimeout \/ ProbeDestroyed

(* The application is gone. *)
Gone == ~Running /\ UNCHANGED vars

Next ==
  \/ Probe \/ Reconnect
  \/ ServerListens \/ ServerExits \/ SpawnFails \/ ServerClosed
  \/ GraceOver \/ TrayQuit \/ MenuQuit
  \/ \E d \in {"startup", "crash"} : DialogAnswered(d)
  \/ CloseWindow \/ CloseStray \/ ShowWindow \/ Activate
  \/ Gone

Spec == Init /\ [][Next]_vars

(* Timers run out, requests and processes report back, and the user reads  *)
(* a dialog.  Nobody need ever quit, and a server need never end.          *)
Fairness ==
  /\ WF_vars(Probe) /\ WF_vars(Reconnect)
  /\ WF_vars(ServerClosed)
  /\ WF_vars(GraceOver)
  /\ \A d \in {"startup", "crash"} : WF_vars(DialogAnswered(d))

FairSpec == Spec /\ Fairness
------------------------------------------------------------------------------
(* The application never leaves its server behind: a quit, whenever it     *)
(* comes, ends the child before or together with the application.          *)
NoOrphanServer == ~Running => server = "exited"

(* Once the start is decided the user has a way out: an icon, a dialog, or *)
(* a quit that is under way.  A window alone can only be hidden.           *)
UserHasAHandle ==
  Running /\ startup # "starting" => tray \/ dialogs # {} \/ quitting

(* The start is decided, though the probes that time out split into two    *)
(* chains that count their attempts together.                              *)
StartupSettles == startup = "starting" ~> startup # "starting" \/ ~Running

(* A quit ends the application, even if the server died before and its     *)
(* close event, which the handler listens for, will never come again.      *)
QuitFinishes == quitting ~> ~Running

(* A crash of the server ends the application. *)
CrashEndsApp == server = "exited" /\ code = "error" ~> ~Running

=============================================================================
