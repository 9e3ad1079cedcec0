----------------------------- MODULE RouteBreaker -----------------------------
(***************************************************************************)
(* The circuit breaker of pkg/routehealth/breaker.go and the relay         *)
(* attempts that drive it: an attempt picks a channel and a key among      *)
(* those not cooling down, is in flight for as long as it likes, and       *)
(* reports how it ended.  Attempts run concurrently.  A report looks its   *)
(* entry up and reads the clock before it takes the entry's lock, so that  *)
(* other reports, a reconfiguration or a pruning of the table may come in  *)
(* between.                                                                *)
(***************************************************************************)
EXTENDS Integers, FiniteSets, FiniteSetsExt, Functions

CONSTANTS
  Attempts,        \* relay attempts that may be in flight at once
  Channels,        \* candidate channels, of one model and priority
  KeysOf,          \* indexes of the keys of a multi-key channel, {} otherwise
  Configs,         \* configurations an administrator may set
  PruneThreshold,  \* pruneThreshold
  IdleCutoff,      \* idleCutoff, in seconds
  MaxSkew,         \* bound: seconds between reading the clock and locking
  MaxClock,        \* bound: the last second
  MaxConfigures    \* bound: number of reconfigurations

\* The key index that stands for the channel itself
NoIndex == -1

\* What an attempt not yet sent uses
NoScope == <<>>

ChannelScope(c) == <<c, NoIndex>>
KeyScopes(c) == {<<c, k>> : k \in KeysOf[c]}
Scopes == UNION {{ChannelScope(c)} \union KeyScopes(c) : c \in Channels}

\* Configure: values that make no sense are replaced
Sanitised(c) ==
  LET cooldown == IF c.cooldown < 1 THEN 30 ELSE c.cooldown IN
  [c EXCEPT !.threshold   = IF @ < 1 THEN 1 ELSE @,
            !.window      = IF @ < 1 THEN 60 ELSE @,
            !.cooldown    = cooldown,
            !.maxCooldown = IF @ < cooldown THEN cooldown ELSE @]

Config == [enabled : BOOLEAN, keyLevel : BOOLEAN, threshold : Int,
           window : Int, cooldown : Int, maxCooldown : Int]

ASSUME BreakerAssumption ==
  /\ KeysOf \in [Channels -> SUBSET Nat]
  /\ Configs \subseteq Config /\ Configs # {} /\ IsFiniteSet(Configs)
  /\ PruneThreshold \in Nat /\ IdleCutoff \in Nat
  /\ MaxSkew \in Nat /\ MaxClock \in Nat \ {0} /\ MaxConfigures \in Nat
  \* The wait for an entry's lock is short against a cool-down
  /\ \A c \in Configs : MaxSkew < Sanitised(c).cooldown

\* A power of two is positive, which the provers do not know
ASSUME PowerAssumption == \A n \in 0..MaxClock : 2^n \in Nat \ {0}

Settings == {Sanitised(c) : c \in Configs}

\* In place of the configuration of an attempt that has read none
Unread == CHOOSE c \in Settings : TRUE

VARIABLES
  clock,      \* the time, in seconds
  cfg,        \* mgr.cfg
  configured, \* reconfigurations so far
  tracked,    \* scopes with an entry in mgr.entries
  entry,      \* the entry of each scope
  pc,         \* where each attempt is
  scope,      \* the scope it uses, then the one it reports about
  snapshot,   \* the configuration it read
  stamp,      \* the time it read
  held,       \* the entry it looked up is still in the table
  counted     \* auxiliary: failures counted at each second, per scope

vars == <<clock, cfg, configured, tracked, entry, pc, scope, snapshot, stamp,
          held, counted>>

Entry == [open : BOOLEAN, fails : Nat, windowStart : Nat, until : Nat,
          trips : Nat, lastChange : Nat]

\* An entry closed at some time, and one just created
ClosedAt(t) == [open |-> FALSE, fails |-> 0, windowStart |-> 0, until |-> 0,
                trips |-> 0, lastChange |-> t]
Fresh == ClosedAt(0)

NoneCounted == [t \in 1..MaxClock |-> 0]

TypeOK ==
  /\ clock \in 1..MaxClock
  /\ cfg \in Settings
  /\ configured \in 0..MaxConfigures
  /\ tracked \in SUBSET Scopes
  /\ entry \in [Scopes -> Entry]
  /\ pc \in [Attempts -> {"idle", "sent", "fail", "closeKey", "closeChannel"}]
  /\ scope \in [Attempts -> Scopes \union {NoScope}]
  /\ snapshot \in [Attempts -> Settings]
  /\ stamp \in [Attempts -> 0..MaxClock]
  /\ held \in [Attempts -> BOOLEAN]
  /\ counted \in [Scopes -> [1..MaxClock -> Nat]]

Init ==
  /\ clock = 1
  /\ cfg \in Settings
  /\ configured = 0
  /\ tracked = {}
  /\ entry = [s \in Scopes |-> Fresh]
  /\ pc = [a \in Attempts |-> "idle"]
  /\ scope = [a \in Attempts |-> NoScope]
  /\ snapshot = [a \in Attempts |-> Unread]
  /\ stamp = [a \in Attempts |-> 0]
  /\ held = [a \in Attempts |-> FALSE]
  /\ counted = [s \in Scopes |-> NoneCounted]

-------------------------------------------------------------------------------
(* Selection *)

Cooling(s, now) == entry[s].open /\ now < entry[s].until

\* IsAvailable
IsAvailable(s) ==
  \/ ~cfg.enabled
  \/ s[2] # NoIndex /\ ~cfg.keyLevel
  \/ ~Cooling(s, clock)

\* Those not cooling down, or all when there is none
Preferred(S) ==
  LET available == {s \in S : IsAvailable(s)} IN
  IF available # {} THEN available ELSE S

\* An attempt picks a channel, then one of its keys, and is sent
Select(a) ==
  /\ pc[a] = "idle"
  /\ \E s \in Preferred({ChannelScope(c) : c \in Channels}) :
       \E used \in IF KeysOf[s[1]] = {} THEN {s} ELSE Preferred(KeyScopes(s[1])) :
         scope' = [scope EXCEPT ![a] = used]
  /\ pc' = [pc EXCEPT ![a] = "sent"]
  /\ UNCHANGED <<clock, cfg, configured, tracked, entry, snapshot, stamp, held, counted>>

-------------------------------------------------------------------------------
(* Reports *)

\* pruneLocked: what it removes, and what an entry held by a report is then
\* Never tripped means lastChange = 0, idle since the beginning of time
Idle(s) == ~entry[s].open /\ (entry[s].lastChange = 0 \/ clock - entry[s].lastChange > IdleCutoff)

\* manager.get: prunes the table when it is full and creates the entry
Get(s, holds) ==
  LET pruned == IF s \notin tracked /\ Cardinality(tracked) >= PruneThreshold
                THEN {t \in tracked : Idle(t)} ELSE {} IN
  /\ tracked' = (tracked \ pruned) \union {s}
  /\ entry' = [t \in Scopes |-> IF t \in pruned THEN Fresh ELSE entry[t]]
  /\ counted' = [t \in Scopes |-> IF t \in pruned THEN NoneCounted ELSE counted[t]]
  /\ held' = [b \in Attempts |-> holds[b] /\ scope'[b] \notin pruned]

\* The scope a failure is charged to
Charged(s) == IF cfg.keyLevel THEN s ELSE ChannelScope(s[1])

\* RecordFailure up to the entry's lock, for a status code that trips
ReportFailure(a) ==
  /\ pc[a] = "sent" /\ cfg.enabled
  /\ scope' = [scope EXCEPT ![a] = Charged(@)]
  /\ Get(scope'[a], [held EXCEPT ![a] = TRUE])
  /\ snapshot' = [snapshot EXCEPT ![a] = cfg]
  /\ stamp' = [stamp EXCEPT ![a] = clock]
  /\ pc' = [pc EXCEPT ![a] = "fail"]
  /\ UNCHANGED <<clock, cfg, configured>>

\* RecordFailure or RecordSuccess that returns at once: the breaker is off,
\* or the status code does not count
ReportNothing(a) ==
  /\ pc[a] = "sent"
  /\ pc' = [pc EXCEPT ![a] = "idle"]
  /\ scope' = [scope EXCEPT ![a] = NoScope]
  /\ UNCHANGED <<clock, cfg, configured, tracked, entry, snapshot, stamp, held, counted>>

\* Mutant: the cool-down doubles without end
BackoffUncapped(c, n) == c.cooldown * 2^(n - 1)

\* backoffNanos
Backoff(c, n) ==
  LET doubled == c.cooldown * 2^(n - 1) IN
  IF doubled > c.maxCooldown THEN c.maxCooldown ELSE doubled

Done(a) ==
  /\ pc' = [pc EXCEPT ![a] = "idle"]
  /\ scope' = [scope EXCEPT ![a] = NoScope]
  /\ held' = [held EXCEPT ![a] = FALSE]
  /\ stamp' = [stamp EXCEPT ![a] = 0]
  /\ snapshot' = [snapshot EXCEPT ![a] = Unread]
  /\ UNCHANGED <<clock, cfg, configured, tracked>>

\* Mutant: failures that pile up during a cool-down extend it
RetrippedAlways(e, now, c) ==
  [e EXCEPT !.trips = @ + 1, !.until = now + Backoff(c, e.trips + 1), !.lastChange = now]

\* recordFailureEntry on an open entry: ignored, or the probe has failed
Retripped(e, now, c) ==
  IF now < e.until THEN e
  ELSE [e EXCEPT !.trips = @ + 1, !.until = now + Backoff(c, e.trips + 1),
                 !.lastChange = now]

\* Mutant: the window never ends
WindowedForever(e, now, c) ==
  [e EXCEPT !.windowStart = IF @ = 0 THEN now ELSE @, !.fails = @ + 1]

\* Mutant: the failure that begins a window is not counted
WindowedLate(e, now, c) ==
  IF e.windowStart = 0 \/ now - e.windowStart > c.window
  THEN [e EXCEPT !.windowStart = now, !.fails = 0]
  ELSE [e EXCEPT !.fails = @ + 1]

\* recordFailureEntry on a closed entry
Windowed(e, now, c) ==
  IF e.windowStart = 0 \/ now - e.windowStart > c.window
  THEN [e EXCEPT !.windowStart = now, !.fails = 1]
  ELSE [e EXCEPT !.fails = @ + 1]

Counted(e, now, c) ==
  LET w == Windowed(e, now, c) IN
  IF w.fails >= c.threshold
  THEN [w EXCEPT !.open = TRUE, !.trips = 1, !.until = now + Backoff(c, 1),
                 !.fails = 0, !.lastChange = now]
  ELSE w

Failed(e, now, c) == IF e.open THEN Retripped(e, now, c) ELSE Counted(e, now, c)

OneMore(count, t) == [count EXCEPT ![t] = @ + 1]

\* recordFailureEntry, under the entry's lock
CountFailure(a) ==
  /\ pc[a] = "fail"
  /\ Done(a)
  /\ IF held[a]
     THEN LET s == scope[a] IN
          /\ entry' = [entry EXCEPT ![s] = Failed(@, stamp[a], snapshot[a])]
          /\ counted' = [counted EXCEPT ![s] =
               IF entry'[s].open THEN NoneCounted ELSE OneMore(@, stamp[a])]
     ELSE UNCHANGED <<entry, counted>>

\* RecordSuccess looks an entry up and reads the clock
Look(a, s, where) ==
  /\ pc' = [pc EXCEPT ![a] = where]
  /\ scope' = [scope EXCEPT ![a] = s]
  /\ held' = [held EXCEPT ![a] = s \in tracked]
  /\ stamp' = [stamp EXCEPT ![a] = clock]

\* RecordSuccess up to the lock of the first entry
ReportSuccess(a) ==
  /\ pc[a] = "sent" /\ cfg.enabled
  /\ Look(a, scope[a], IF scope[a][2] # NoIndex THEN "closeKey" ELSE "closeChannel")
  /\ UNCHANGED <<clock, cfg, configured, tracked, entry, snapshot, counted>>

\* Mutant: a success that was in flight when the scope tripped closes it
CloseAnyway(a) ==
  LET s == scope[a] IN
  IF held[a]
  THEN /\ entry' = [entry EXCEPT ![s] = ClosedAt(stamp[a])]
       /\ counted' = [counted EXCEPT ![s] = NoneCounted]
  ELSE UNCHANGED <<entry, counted>>

\* recordSuccessEntry, under the entry's lock
Close(a) ==
  LET s == scope[a] IN
  IF held[a] /\ ~Cooling(s, stamp[a])
  THEN /\ entry' = [entry EXCEPT ![s] = ClosedAt(stamp[a])]
       /\ counted' = [counted EXCEPT ![s] = NoneCounted]
  ELSE UNCHANGED <<entry, counted>>

\* The key is closed, then the channel
CloseKey(a) ==
  /\ pc[a] = "closeKey"
  /\ Close(a)
  /\ Look(a, ChannelScope(scope[a][1]), "closeChannel")
  /\ UNCHANGED <<clock, cfg, configured, tracked, snapshot>>

CloseChannel(a) ==
  /\ pc[a] = "closeChannel"
  /\ Close(a)
  /\ Done(a)

-------------------------------------------------------------------------------
\* Mutant: Configure stores what it is given
ConfigureAsGiven ==
  /\ configured < MaxConfigures
  /\ configured' = configured + 1
  /\ cfg' \in Configs
  /\ UNCHANGED <<clock, tracked, entry, pc, scope, snapshot, stamp, held, counted>>

\* ApplyRouteBreakerConfig
Configure ==
  /\ configured < MaxConfigures
  /\ configured' = configured + 1
  /\ \E c \in Configs : cfg' = Sanitised(c)
  /\ UNCHANGED <<clock, tracked, entry, pc, scope, snapshot, stamp, held, counted>>

\* A second passes; no report waits for a lock longer than MaxSkew
Tick ==
  /\ clock < MaxClock
  /\ clock' = clock + 1
  /\ \A a \in Attempts : pc[a] \notin {"idle", "sent"} => clock' - stamp[a] <= MaxSkew
  /\ UNCHANGED <<cfg, configured, tracked, entry, pc, scope, snapshot, stamp, held, counted>>

Next ==
  \/ \E a \in Attempts : \/ Select(a) \/ ReportNothing(a)
                         \/ ReportFailure(a) \/ CountFailure(a)
                         \/ ReportSuccess(a) \/ CloseKey(a) \/ CloseChannel(a)
  \/ Configure
  \/ Tick

Spec == Init /\ [][Next]_vars

-------------------------------------------------------------------------------
(* Properties *)

\* The state of a scope as StateOf and Snapshot derive it
StateOf(s) == IF ~entry[s].open THEN "closed"
              ELSE IF clock < entry[s].until THEN "open" ELSE "half_open"

phases == [s \in Scopes |-> StateOf(s)]

Documented == INSTANCE BreakerStates WITH phase <- phases

\* Whatever reports, lookups, prunings and reconfigurations overlap, each scope
\* follows the documented state machine: a cooling scope is left alone until its
\* time has elapsed, one trip takes one step, and only a probed one closes.
\* The reports read the clock and look their entry up before they lock it.
FollowsDocument == Documented!Spec

\* No report reaches an entry while it is cooling down, the ones that were in
\* flight when it tripped included: however many attempts fail at once, they
\* cost one trip, and the cool-down ends when it was set to end.
CoolDownStands ==
  [][\A s \in Scopes : Cooling(s, clock) => entry'[s] = entry[s]]_vars

\* A cool-down never outlasts the greatest one ever configured: no
\* configuration, old snapshot or number of trips wedges a scope
\* (Configure's "so a misconfiguration can never wedge the breaker").
NeverWedged ==
  \A s \in Scopes : entry[s].open =>
    \E c \in Settings : entry[s].until - entry[s].lastChange \in 1..c.maxCooldown

\* Failures counted for a scope from second t to second u
CountedBetween(s, t, u) ==
  SumFunctionOnSet(counted[s], {x \in 1..MaxClock : t <= x /\ x <= u})

Thresholds == {c.threshold : c \in Settings}
Windows    == {c.window : c \in Settings}

\* A burst is shorter than a window, also with the wait for the lock at both ends
Burst == Min(Windows) - 2 * MaxSkew

\* The failures of a burst may fall into two of the windows that failures are
\* counted in, but not into three: of 2 * threshold - 2 failures enough are in
\* one window to trip the scope, unless it succeeded or was pruned meanwhile.
BurstTrips ==
  LET threshold == Max(Thresholds) IN
  \A s \in Scopes, t \in 1..MaxClock :
    CountedBetween(s, t, t + Burst) < Max({threshold, 2 * threshold - 2})

\* A scope trips only on as many failures as the threshold says, none of which
\* is older than a window (and the wait for the entry's lock) at the last one,
\* and none of which was followed by a success of the scope.
TripsOnRecentFailures ==
  [][\A s \in Scopes : ~entry[s].open /\ entry'[s].open =>
       LET last == entry'[s].lastChange IN
       1 + CountedBetween(s, last - Max(Windows) - MaxSkew, MaxClock)
         >= Min(Thresholds)]_vars
===============================================================================
