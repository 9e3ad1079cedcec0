-------------------------- MODULE RouteBreaker_proofs --------------------------
(***************************************************************************)
(* For any attempts, channels, keys and configurations: type correctness,  *)
(* the bound of every cool-down, that nothing disturbs a cool-down, that   *)
(* each scope follows the documented state machine (BreakerStates), and on *)
(* what failures a scope trips.                                            *)
(*                                                                         *)
(* The last of these is about sums of failures over time.  Counting        *)
(* bounds, for the window of an entry, the failures since three instants   *)
(* near its start; the waits for the lock may put a failure on the wrong   *)
(* side of it.  FailedKeeps and CountedKeeps are what the pure function of *)
(* a report does to these; StepCounts says that a step applies it to one   *)
(* entry at most.                                                          *)
(***************************************************************************)
EXTENDS RouteBreaker, SumTheorems, TLAPS

-------------------------------------------------------------------------------
(* Configurations and back-off *)

\* Replacing fields of a configuration
LEMMA ConfigUpdate ==
  ASSUME NEW d \in Config, NEW t \in Int, NEW w \in Int, NEW b \in Int, NEW g \in Int
  PROVE  [d EXCEPT !.threshold = t, !.window = w, !.cooldown = b, !.maxCooldown = g] \in Config
BY DEF Config

\* What Configure leaves makes sense: the cool-down is longer than the wait for
\* a lock and no longer than the greatest cool-down.
LEMMA SettingsSane ==
  ASSUME NEW c \in Settings
  PROVE  /\ c \in Config
         /\ c.threshold \in Nat \ {0}
         /\ c.window \in Nat \ {0}
         /\ c.cooldown \in Nat \ {0}
         /\ c.maxCooldown \in Nat \ {0}
         /\ MaxSkew < c.cooldown
         /\ c.cooldown <= c.maxCooldown
<1>1. PICK d \in Configs : c = Sanitised(d)
  BY DEF Settings
<1> DEFINE cooldown == IF d.cooldown < 1 THEN 30 ELSE d.cooldown
<1>2. d \in Config /\ MaxSkew < c.cooldown
  BY <1>1, BreakerAssumption
<1>3. cooldown \in Nat \ {0}
  BY <1>2 DEF Config
<1>4. c = [d EXCEPT !.threshold   = IF @ < 1 THEN 1 ELSE @,
                    !.window      = IF @ < 1 THEN 60 ELSE @,
                    !.cooldown    = cooldown,
                    !.maxCooldown = IF @ < cooldown THEN cooldown ELSE @]
  BY <1>1 DEF Sanitised
<1> DEFINE threshold == IF d.threshold < 1 THEN 1 ELSE d.threshold
           window    == IF d.window < 1 THEN 60 ELSE d.window
           greatest  == IF d.maxCooldown < cooldown THEN cooldown ELSE d.maxCooldown
<1>5. /\ threshold \in Nat \ {0} /\ window \in Nat \ {0}
      /\ greatest \in Nat \ {0} /\ cooldown <= greatest
  BY <1>2, <1>3 DEF Config
<1>6. c = [d EXCEPT !.threshold = threshold, !.window = window,
                    !.cooldown = cooldown, !.maxCooldown = greatest]
  BY <1>4
<1> HIDE DEF cooldown, threshold, window, greatest
<1>7. c.threshold = threshold /\ c.window = window /\ c.cooldown = cooldown
        /\ c.maxCooldown = greatest
  BY <1>2, <1>6 DEF Config
<1>8. c \in Config
  <2>1. threshold \in Int /\ window \in Int /\ cooldown \in Int /\ greatest \in Int
    BY <1>3, <1>5
  <2>2. [d EXCEPT !.threshold = threshold, !.window = window,
                  !.cooldown = cooldown, !.maxCooldown = greatest] \in Config
    BY ONLY <1>2, <2>1, ConfigUpdate, Zenon
  <2> QED
    BY ONLY <1>6, <2>2, Zenon
<1> QED
  BY <1>2, <1>3, <1>5, <1>7, <1>8

\* In place of a configuration not read there is one that makes sense
LEMMA UnreadIsSetting == Unread \in Settings
BY BreakerAssumption DEF Unread, Settings

\* A cool-down outlasts the wait for a lock and is within the greatest one
LEMMA BackoffBounds ==
  ASSUME NEW c \in Settings, NEW n \in 1..(MaxClock + 1)
  PROVE  /\ Backoff(c, n) \in Nat
         /\ MaxSkew < Backoff(c, n)
         /\ Backoff(c, n) <= c.maxCooldown
<1> DEFINE p == 2^(n - 1)
<1>1. p \in Nat \ {0}
  <2>1. n - 1 \in 0..MaxClock
    BY BreakerAssumption
  <2> QED
    BY <2>1, PowerAssumption
<1> HIDE DEF p
<1>2. c.cooldown \in Nat /\ c.maxCooldown \in Nat /\ MaxSkew < c.cooldown
        /\ c.cooldown <= c.maxCooldown /\ MaxSkew \in Nat
  BY SettingsSane, BreakerAssumption
<1>3. c.cooldown * p \in Nat /\ c.cooldown * p >= c.cooldown
  BY <1>1, <1>2
<1>4. Backoff(c, n) = IF c.cooldown * p > c.maxCooldown THEN c.maxCooldown
                      ELSE c.cooldown * p
  BY DEF Backoff, p
<1> QED
  BY <1>2, <1>3, <1>4

-------------------------------------------------------------------------------
(* Entries *)

\* What is true of an entry: it has tripped no more often than seconds have
\* passed, and its cool-down is one that a configuration allows.
EntryInv(e) ==
  /\ e \in Entry
  /\ e.lastChange \in 0..clock
  /\ e.open => /\ e.trips \in 1..e.lastChange
               /\ \E c \in Settings : e.until - e.lastChange \in 1..c.maxCooldown

\* A report between its look at the clock and the lock
Reporting(a) == pc[a] \in {"fail", "closeKey", "closeChannel"}

IInv ==
  /\ TypeOK
  /\ \A s \in Scopes : EntryInv(entry[s])
  /\ \A a \in Attempts : Reporting(a) =>
       stamp[a] \in 1..clock /\ clock - stamp[a] <= MaxSkew
  /\ \A a \in Attempts : pc[a] # "idle" => scope[a] \in Scopes

\* Replacing fields of an entry
LEMMA EntryUpdates ==
  ASSUME NEW e \in Entry, NEW f \in Nat, NEW w \in Nat, NEW t \in Nat,
         NEW u \in Nat, NEW l \in Nat
  PROVE  /\ [e EXCEPT !.fails = f] \in Entry
         /\ [e EXCEPT !.windowStart = w, !.fails = f] \in Entry
         /\ [e EXCEPT !.trips = t, !.until = u, !.lastChange = l] \in Entry
         /\ [e EXCEPT !.open = TRUE, !.trips = t, !.until = u,
                      !.fails = f, !.lastChange = l] \in Entry
<1>1. [e EXCEPT !.fails = f] \in Entry
  BY DEF Entry
<1>2. [e EXCEPT !.windowStart = w, !.fails = f] \in Entry
  BY DEF Entry
<1>3. [e EXCEPT !.trips = t, !.until = u, !.lastChange = l] \in Entry
  BY DEF Entry
<1>4. [e EXCEPT !.open = TRUE, !.trips = t, !.until = u, !.fails = f, !.lastChange = l] \in Entry
  BY DEF Entry
<1> QED
  BY <1>1, <1>2, <1>3, <1>4

\* A failure keeps an entry well formed, and an entry it trips is cooling
LEMMA FailedKeeps ==
  ASSUME clock \in 1..MaxClock, NEW e, EntryInv(e),
         NEW now \in 1..clock, clock - now <= MaxSkew, NEW c \in Settings
  PROVE  /\ EntryInv(Failed(e, now, c))
         /\ Failed(e, now, c) # e /\ Failed(e, now, c).open => clock < Failed(e, now, c).until
         /\ e.open => Failed(e, now, c).open
         /\ e.open /\ clock < e.until => Failed(e, now, c) = e
<1> USE BreakerAssumption
<1>0. /\ e \in Entry /\ e.lastChange \in 0..clock /\ clock \in Nat /\ now \in Nat /\ MaxSkew \in Nat
      /\ c.threshold \in Nat /\ c.window \in Nat /\ c.maxCooldown \in Nat
  BY SettingsSane DEF EntryInv
<1>1. CASE e.open
  <2>1. Failed(e, now, c) = Retripped(e, now, c)
    BY <1>1 DEF Failed
  <2>2. CASE now < e.until
    <3>1. Failed(e, now, c) = e
      BY <2>1, <2>2 DEF Retripped
    <3> QED
      BY <3>1, <1>1
  <2>3. CASE ~(now < e.until)
    <3> DEFINE b == Backoff(c, e.trips + 1)
    <3>1. e.trips \in 1..e.lastChange /\ e.lastChange < e.until /\ e.until \in Nat
      BY <1>0, <1>1 DEF EntryInv, Entry
    <3>2. e.trips + 1 \in 1..(MaxClock + 1) /\ e.trips + 1 \in 1..now
      BY <3>1, <2>3, <1>0
    <3>3. b \in Nat /\ MaxSkew < b /\ b <= c.maxCooldown
      BY <3>2, BackoffBounds
    <3> HIDE DEF b
    <3>4. Failed(e, now, c) = [e EXCEPT !.trips = @ + 1, !.until = now + b, !.lastChange = now]
      BY <2>1, <2>3 DEF Retripped, b
    <3>5. Failed(e, now, c) \in Entry
      <4> DEFINE end == now + b
                 more == e.trips + 1
      <4>1. end \in Nat /\ more \in Nat
        BY <3>1, <3>3, <1>0
      <4>2. Failed(e, now, c) = [e EXCEPT !.trips = more, !.until = end, !.lastChange = now]
        BY <3>4
      <4> HIDE DEF end, more
      <4>3. [e EXCEPT !.trips = more, !.until = end, !.lastChange = now] \in Entry
        BY ONLY <1>0, <4>1, EntryUpdates, Zenon
      <4> QED
        BY ONLY <4>2, <4>3, Zenon
    <3>6. /\ Failed(e, now, c).lastChange = now /\ Failed(e, now, c).until = now + b
          /\ Failed(e, now, c).trips = e.trips + 1 /\ Failed(e, now, c).open
      BY <3>4, <1>0, <1>1 DEF Entry
    <3>7. Failed(e, now, c).until - Failed(e, now, c).lastChange \in 1..c.maxCooldown
      BY <3>3, <3>6, <1>0
    <3>8. clock < Failed(e, now, c).until
      BY <3>3, <3>6, <1>0
    <3>9. ~(clock < e.until)
      BY <2>3, <1>0, <3>1
    <3> QED
      BY <3>2, <3>5, <3>6, <3>7, <3>8, <3>9, <1>0 DEF EntryInv
  <2> QED
    BY <2>2, <2>3
<1>2. CASE ~e.open
  <2> DEFINE w == Windowed(e, now, c)
             b == Backoff(c, 1)
  <2>1. w \in Entry /\ w.open = e.open /\ w.lastChange = e.lastChange
    <3>1. e.fails + 1 \in Nat
      BY <1>0 DEF Entry
    <3>2. \/ w = [e EXCEPT !.windowStart = now, !.fails = 1]
          \/ w = [e EXCEPT !.fails = e.fails + 1]
      BY DEF Windowed
    <3> HIDE DEF w
    <3> DEFINE more == e.fails + 1
    <3>3. more \in Nat /\ (\/ w = [e EXCEPT !.windowStart = now, !.fails = 1]
                            \/ w = [e EXCEPT !.fails = more])
      BY <3>1, <3>2
    <3> HIDE DEF more
    <3>4. w \in Entry
      <4>1. 1 \in Nat /\ 0 \in Nat
        OBVIOUS
      <4>2. [e EXCEPT !.fails = more] \in Entry
        BY ONLY <1>0, <3>3, EntryUpdates, <4>1, Zenon
      <4>3. [e EXCEPT !.windowStart = now, !.fails = 1] \in Entry
        BY ONLY <1>0, EntryUpdates, <4>1, Zenon
      <4> QED
        BY ONLY <3>3, <4>2, <4>3, Zenon
    <3> QED
      BY <1>0, <3>3, <3>4 DEF Entry
  <2>2. b \in Nat /\ MaxSkew < b /\ b <= c.maxCooldown
    <3>1. 1 \in 1..(MaxClock + 1)
      OBVIOUS
    <3> QED
      BY <3>1, BackoffBounds
  <2> HIDE DEF w, b
  <2>3. Failed(e, now, c) =
          IF w.fails >= c.threshold
          THEN [w EXCEPT !.open = TRUE, !.trips = 1, !.until = now + b,
                         !.fails = 0, !.lastChange = now]
          ELSE w
    BY <1>2 DEF Failed, Counted, w, b
  <2>4. CASE w.fails >= c.threshold
    <3> DEFINE end == now + b
    <3>1. end \in Nat
      BY <2>2, <1>0
    <3>2. Failed(e, now, c) = [w EXCEPT !.open = TRUE, !.trips = 1, !.until = end,
                                        !.fails = 0, !.lastChange = now]
      BY <2>3, <2>4
    <3> HIDE DEF end
    <3>3. Failed(e, now, c) \in Entry
      <4>1. 1 \in Nat /\ 0 \in Nat
        OBVIOUS
      <4>2. [w EXCEPT !.open = TRUE, !.trips = 1, !.until = end,
                      !.fails = 0, !.lastChange = now] \in Entry
        BY ONLY <1>0, <2>1, <3>1, <4>1, EntryUpdates, Zenon
      <4> QED
        BY ONLY <3>2, <4>2, Zenon
    <3>4. /\ Failed(e, now, c).lastChange = now /\ Failed(e, now, c).until = end
          /\ Failed(e, now, c).trips = 1
      BY <2>1, <3>2 DEF Entry
    <3>5. /\ Failed(e, now, c) \in Entry
          /\ Failed(e, now, c).lastChange = now /\ Failed(e, now, c).until = now + b
          /\ Failed(e, now, c).trips = 1
      BY <3>3, <3>4 DEF end
    <3>6. Failed(e, now, c).until - Failed(e, now, c).lastChange \in 1..c.maxCooldown
      BY <3>5, <2>2, <1>0
    <3>7. clock < Failed(e, now, c).until
      BY <3>5, <2>2, <1>0
    <3> QED
      BY <3>5, <3>6, <3>7, <1>0, <1>2 DEF EntryInv
  <2>5. CASE ~(w.fails >= c.threshold)
    <3>1. Failed(e, now, c) = w
      BY <2>3, <2>5
    <3> QED
      BY <3>1, <2>1, <1>0, <1>2 DEF EntryInv
  <2> QED
    BY <2>4, <2>5
<1> QED
  BY <1>1, <1>2

\* A success leaves a well-formed, closed entry
LEMMA ClosedIsSound ==
  ASSUME clock \in 1..MaxClock, NEW t \in 0..clock
  PROVE  EntryInv(ClosedAt(t)) /\ ~ClosedAt(t).open
<1>1. t \in Nat /\ 0 \in Nat
  BY BreakerAssumption
<1> QED
  BY <1>1 DEF EntryInv, Entry, ClosedAt

-------------------------------------------------------------------------------
(* What the steps that change entries do to them *)

\* Looking an entry up replaces only closed entries, by fresh ones
LEMMA GetPrunes ==
  ASSUME TypeOK, NEW s \in Scopes, NEW holds, Get(s, holds)
  PROVE  /\ tracked' \in SUBSET Scopes
         /\ \A t \in Scopes : \/ entry'[t] = entry[t]
                              \/ entry'[t] = Fresh /\ ~entry[t].open
         /\ entry' = [t \in Scopes |-> entry'[t]]
<1> DEFINE pruned == IF s \notin tracked /\ Cardinality(tracked) >= PruneThreshold
                     THEN {t \in tracked : Idle(t)} ELSE {}
<1>1. \A t \in pruned : ~entry[t].open
  BY DEF Idle
<1>2. /\ tracked' = (tracked \ pruned) \union {s}
      /\ entry' = [t \in Scopes |-> IF t \in pruned THEN Fresh ELSE entry[t]]
  BY DEF Get
<1> HIDE DEF pruned
<1> QED
  BY <1>1, <1>2 DEF TypeOK

\* A failure is counted on one entry
LEMMA CountFailureEffect ==
  ASSUME IInv, NEW a \in Attempts, CountFailure(a)
  PROVE  \/ UNCHANGED entry
         \/ /\ scope[a] \in Scopes
            /\ entry' = [entry EXCEPT ![scope[a]] = Failed(@, stamp[a], snapshot[a])]
<1>1. scope[a] \in Scopes
  BY DEF IInv, CountFailure
<1> QED
  BY <1>1 DEF CountFailure

\* A success closes at most one entry, that is not cooling down
LEMMA CloseEffect ==
  ASSUME IInv, NEW a \in Attempts, Reporting(a), Close(a)
  PROVE  \/ UNCHANGED entry
         \/ /\ scope[a] \in Scopes /\ ~Cooling(scope[a], stamp[a])
            /\ entry' = [entry EXCEPT ![scope[a]] = ClosedAt(stamp[a])]
<1>1. scope[a] \in Scopes
  BY DEF IInv, Reporting
<1> QED
  BY <1>1 DEF Close

\* What a step may do to the entry of a scope, and to all but one
Kept(s) == \/ entry'[s] = entry[s]
           \/ entry'[s] = Fresh /\ ~entry[s].open

Changes(s) ==
  \/ Kept(s)
  \/ \E now \in 1..clock, c \in Settings :
       clock - now <= MaxSkew /\ entry'[s] = Failed(entry[s], now, c)
  \/ \E now \in 1..clock :
       ~Cooling(s, now) /\ entry'[s] = ClosedAt(now)

\* Each step but the clock's changes the entries in one of these ways
LEMMA StepChanges ==
  ASSUME IInv, Next
  PROVE  /\ \A s \in Scopes : Changes(s)
         /\ \A s, t \in Scopes : Kept(s) \/ Kept(t) \/ s = t
         /\ entry' = [s \in Scopes |-> entry'[s]]
         /\ clock' # clock => entry' = entry /\ clock' = clock + 1
<1>0. entry = [s \in Scopes |-> entry[s]]
  BY DEF IInv, TypeOK
<1>1. ASSUME UNCHANGED entry
      PROVE  /\ \A s \in Scopes : Changes(s) /\ Kept(s)
             /\ entry' = [s \in Scopes |-> entry'[s]]
  BY <1>0, <1>1 DEF Changes, Kept
<1>2. ASSUME NEW a \in Attempts, ReportFailure(a)
      PROVE  /\ \A s \in Scopes : Changes(s)
             /\ \A s, t \in Scopes : Kept(s) \/ Kept(t) \/ s = t
             /\ entry' = [s \in Scopes |-> entry'[s]] /\ clock' = clock
  <2>1. scope[a] \in Scopes
    BY <1>2 DEF IInv, ReportFailure
  <2>2. ChannelScope(scope[a][1]) \in Scopes
    <3>1. PICK c \in Channels : scope[a] \in {ChannelScope(c)} \union KeyScopes(c)
      BY <2>1 DEF Scopes
    <3>2. scope[a][1] = c
      BY <3>1 DEF ChannelScope, KeyScopes
    <3> QED
      BY <3>2 DEF Scopes
  <2>3. scope'[a] \in Scopes
    BY <1>2, <2>1, <2>2 DEF ReportFailure, Charged, IInv, TypeOK
  <2>4. Get(scope'[a], [held EXCEPT ![a] = TRUE])
    BY <1>2 DEF ReportFailure
  <2> QED
    BY <1>2, <2>3, <2>4, GetPrunes DEF IInv, Changes, Kept, ReportFailure
<1>3. ASSUME NEW a \in Attempts, CountFailure(a)
      PROVE  /\ \A s \in Scopes : Changes(s)
             /\ \A s, t \in Scopes : Kept(s) \/ Kept(t) \/ s = t
             /\ entry' = [s \in Scopes |-> entry'[s]] /\ clock' = clock
  <2>1. stamp[a] \in 1..clock /\ clock - stamp[a] <= MaxSkew /\ snapshot[a] \in Settings
    BY <1>3 DEF IInv, TypeOK, CountFailure, Reporting
  <2>2. clock' = clock
    BY <1>3 DEF CountFailure, Done
  <2>3. CASE UNCHANGED entry
    BY <1>0, <2>2, <2>3 DEF Changes, Kept
  <2>4. CASE /\ scope[a] \in Scopes
             /\ entry' = [entry EXCEPT ![scope[a]] = Failed(@, stamp[a], snapshot[a])]
    <3>1. \A s \in Scopes : \/ entry'[s] = entry[s]
                            \/ s = scope[a] /\ entry'[s] = Failed(entry[s], stamp[a], snapshot[a])
      BY <1>0, <2>4
    <3>2. \A s \in Scopes : Changes(s)
      BY <2>1, <3>1 DEF Changes, Kept
    <3> QED
      BY <1>0, <2>2, <2>4, <3>1, <3>2 DEF Kept
  <2> QED
    BY <1>3, <2>3, <2>4, CountFailureEffect
<1>4. ASSUME NEW a \in Attempts, CloseKey(a) \/ CloseChannel(a)
      PROVE  /\ \A s \in Scopes : Changes(s)
             /\ \A s, t \in Scopes : Kept(s) \/ Kept(t) \/ s = t
             /\ entry' = [s \in Scopes |-> entry'[s]] /\ clock' = clock
  <2>1. Reporting(a) /\ Close(a) /\ clock' = clock
    BY <1>4 DEF CloseKey, CloseChannel, Reporting, Done
  <2>2. stamp[a] \in 1..clock
    BY <2>1 DEF IInv
  <2>3. CASE UNCHANGED entry
    BY <1>0, <2>1, <2>3 DEF Changes, Kept
  <2>4. CASE /\ scope[a] \in Scopes /\ ~Cooling(scope[a], stamp[a])
             /\ entry' = [entry EXCEPT ![scope[a]] = ClosedAt(stamp[a])]
    <3>1. \A s \in Scopes : \/ entry'[s] = entry[s]
                            \/ s = scope[a] /\ entry'[s] = ClosedAt(stamp[a])
      BY <1>0, <2>4
    <3>2. \A s \in Scopes : Changes(s)
      BY <2>2, <2>4, <3>1 DEF Changes, Kept
    <3> QED
      BY <1>0, <2>1, <2>4, <3>1, <3>2 DEF Kept
  <2> QED
    BY <2>1, <2>3, <2>4, CloseEffect
<1>5. CASE \E a \in Attempts : Select(a) \/ ReportNothing(a) \/ ReportSuccess(a)
  BY <1>1, <1>5 DEF Select, ReportNothing, ReportSuccess
<1>6. CASE Configure \/ Tick
  BY <1>1, <1>6 DEF Configure, Tick
<1> QED
  BY <1>2, <1>3, <1>4, <1>5, <1>6 DEF Next

-------------------------------------------------------------------------------
(* The invariant *)

\* Entries stay well formed
LEMMA EntriesKept ==
  ASSUME IInv, Next
  PROVE  (\A s \in Scopes : EntryInv(entry[s]))' /\ (entry \in [Scopes -> Entry])'
<1>1. clock \in 1..MaxClock /\ (clock' = clock \/ clock' = clock + 1)
  BY DEF IInv, TypeOK, Next, Select, ReportNothing, ReportFailure, CountFailure,
         ReportSuccess, CloseKey, CloseChannel, Done, Configure, Tick
<1>2. ASSUME NEW s \in Scopes
      PROVE  EntryInv(entry'[s])
  <2>1. EntryInv(entry[s])
    BY DEF IInv
  <2>2. EntryInv(Fresh)
    BY <1>1, ClosedIsSound, BreakerAssumption DEF Fresh
  <2>3. ASSUME NEW now \in 1..clock, NEW c \in Settings, clock - now <= MaxSkew,
               entry'[s] = Failed(entry[s], now, c)
        PROVE  EntryInv(entry'[s])
    BY <1>1, <2>1, <2>3, FailedKeeps
  <2>4. ASSUME NEW now \in 1..clock, entry'[s] = ClosedAt(now)
        PROVE  EntryInv(entry'[s])
    <3>1. now \in 0..clock
      BY <1>1, BreakerAssumption
    <3> QED
      BY <1>1, <2>4, <3>1, ClosedIsSound
  <2> QED
    BY <2>1, <2>2, <2>3, <2>4, StepChanges DEF Changes, Kept
<1>3. ASSUME NEW s \in Scopes
      PROVE  EntryInv(entry[s])'
  <2>1. entry'[s] \in Entry /\ entry'[s].lastChange \in 0..clock'
    BY <1>1, <1>2, BreakerAssumption DEF EntryInv
  <2> QED
    BY <1>2, <2>1 DEF EntryInv
<1>4. \A s \in Scopes : entry'[s] \in Entry
  BY <1>2 DEF EntryInv
<1> QED
  BY <1>3, <1>4, StepChanges

\* What is known of the attempts
AttemptsInv ==
  /\ pc \in [Attempts -> {"idle", "sent", "fail", "closeKey", "closeChannel"}]
  /\ scope \in [Attempts -> Scopes \union {NoScope}]
  /\ snapshot \in [Attempts -> Settings]
  /\ stamp \in [Attempts -> 0..MaxClock]
  /\ \A a \in Attempts : Reporting(a) =>
       stamp[a] \in 1..clock /\ clock - stamp[a] <= MaxSkew
  /\ \A a \in Attempts : pc[a] # "idle" => scope[a] \in Scopes

\* Reports have read the clock, lately, before they take the lock
LEMMA AttemptsKept ==
  ASSUME IInv, Next
  PROVE  AttemptsInv'
<1> USE BreakerAssumption DEF AttemptsInv, Reporting
<1>0. /\ AttemptsInv /\ clock \in 1..MaxClock /\ cfg \in Settings /\ MaxSkew \in Nat
      /\ clock \in 0..MaxClock /\ clock - clock = 0
  BY DEF IInv, TypeOK
<1>1. \A c \in Channels : ChannelScope(c) \in Scopes
  BY DEF Scopes
<1>2. \A s \in Scopes : ChannelScope(s[1]) \in Scopes
  BY DEF Scopes, ChannelScope, KeyScopes
<1>3. ASSUME NEW a \in Attempts, Select(a)
      PROVE  AttemptsInv'
  <2>1. PICK used : scope' = [scope EXCEPT ![a] = used] /\ used \in Scopes
    <3>1. PICK s \in Preferred({ChannelScope(c) : c \in Channels}) :
            \E used \in IF KeysOf[s[1]] = {} THEN {s} ELSE Preferred(KeyScopes(s[1])) :
              scope' = [scope EXCEPT ![a] = used]
      BY <1>3 DEF Select
    <3>2. PICK c \in Channels : s = ChannelScope(c)
      BY <3>1 DEF Preferred
    <3>3. s \in Scopes /\ Preferred(KeyScopes(s[1])) \subseteq Scopes
      BY <1>1, <3>2 DEF Preferred, ChannelScope, Scopes
    <3> QED
      BY <3>1, <3>3
  <2> QED
    BY <1>0, <1>3, <2>1 DEF Select
<1>4. ASSUME NEW a \in Attempts, ReportNothing(a)
      PROVE  AttemptsInv'
  BY <1>0, <1>4 DEF ReportNothing
<1>5. ASSUME NEW a \in Attempts, ReportFailure(a)
      PROVE  AttemptsInv'
  <2>1. Charged(scope[a]) \in Scopes
    BY <1>0, <1>2, <1>5 DEF ReportFailure, Charged
  <2> QED
    BY <1>0, <1>5, <2>1 DEF ReportFailure
<1>6. ASSUME NEW a \in Attempts, CountFailure(a) \/ CloseChannel(a)
      PROVE  AttemptsInv'
  <2>1. Done(a)
    BY <1>6 DEF CountFailure, CloseChannel
  <2> QED
    BY <1>0, <2>1, UnreadIsSetting DEF Done
<1>7. ASSUME NEW a \in Attempts, ReportSuccess(a)
      PROVE  AttemptsInv'
  BY <1>0, <1>7 DEF ReportSuccess, Look
<1>8. ASSUME NEW a \in Attempts, CloseKey(a)
      PROVE  AttemptsInv'
  <2>1. ChannelScope(scope[a][1]) \in Scopes
    BY <1>0, <1>2, <1>8 DEF CloseKey
  <2> QED
    BY <1>0, <1>8, <2>1 DEF CloseKey, Look
<1>9. CASE Configure
  BY <1>0, <1>9 DEF Configure
<1>10. CASE Tick
  BY <1>0, <1>10 DEF Tick
<1> QED
  BY <1>3, <1>4, <1>5, <1>6, <1>7, <1>8, <1>9, <1>10 DEF Next

\* What is known of the rest
TablesInv ==
  /\ clock \in 1..MaxClock /\ cfg \in Settings /\ configured \in 0..MaxConfigures
  /\ tracked \in SUBSET Scopes
  /\ held \in [Attempts -> BOOLEAN]
  /\ counted \in [Scopes -> [1..MaxClock -> Nat]]

\* The tables of the process keep their types
LEMMA TablesKept ==
  ASSUME IInv, Next
  PROVE  TablesInv'
<1> USE BreakerAssumption DEF TablesInv
<1>0. TypeOK /\ AttemptsInv /\ TablesInv
  BY DEF IInv, TypeOK, AttemptsInv
<1>1. NoneCounted \in [1..MaxClock -> Nat]
  BY DEF NoneCounted
<1>2. ASSUME NEW a \in Attempts, Select(a) \/ ReportNothing(a)
      PROVE  TablesInv'
  BY <1>0, <1>2 DEF Select, ReportNothing
<1>3. ASSUME NEW a \in Attempts, ReportFailure(a)
      PROVE  TablesInv'
  <2>1. scope'[a] \in Scopes
    <3>1. scope'[a] = Charged(scope[a]) /\ pc[a] # "idle"
      BY <1>0, <1>3 DEF ReportFailure, TypeOK
    <3>2. scope[a] \in Scopes
      BY <3>1 DEF IInv
    <3> QED
      BY <3>1, <3>2 DEF Charged, Scopes, ChannelScope, KeyScopes
  <2>2. Get(scope'[a], [held EXCEPT ![a] = TRUE])
    BY <1>3 DEF ReportFailure
  <2>3. tracked' \in SUBSET Scopes
    BY <1>0, <2>1, <2>2, GetPrunes
  <2>4. held' \in [Attempts -> BOOLEAN]
    BY <2>2, Zenon DEF Get
  <2>5. counted' \in [Scopes -> [1..MaxClock -> Nat]]
    BY <1>0, <1>1, <2>2 DEF Get
  <2> QED
    BY <1>0, <1>3, <2>3, <2>4, <2>5 DEF ReportFailure
<1>4. ASSUME NEW a \in Attempts, CountFailure(a)
      PROVE  TablesInv'
  <2>1. scope[a] \in Scopes /\ stamp[a] \in 1..MaxClock
    BY <1>0, <1>4 DEF CountFailure, AttemptsInv, Reporting
  <2>2. counted' \in [Scopes -> [1..MaxClock -> Nat]]
    <3> DEFINE more == OneMore(counted[scope[a]], stamp[a])
    <3>1. more \in [1..MaxClock -> Nat]
      BY <1>0, <2>1 DEF OneMore
    <3> HIDE DEF more
    <3>2. \/ counted' = counted
          \/ counted' = [counted EXCEPT ![scope[a]] = NoneCounted]
          \/ counted' = [counted EXCEPT ![scope[a]] = more]
      BY <1>4 DEF CountFailure, more
    <3> QED
      BY <1>0, <1>1, <2>1, <3>1, <3>2
  <2> QED
    BY <1>0, <1>4, <2>2 DEF CountFailure, Done
<1>5. ASSUME NEW a \in Attempts, Close(a)
      PROVE  counted' \in [Scopes -> [1..MaxClock -> Nat]]
  BY <1>0, <1>1, <1>5 DEF Close
<1>6. ASSUME NEW a \in Attempts, CloseChannel(a)
      PROVE  TablesInv'
  BY <1>0, <1>5, <1>6 DEF CloseChannel, Done
<1>7. ASSUME NEW a \in Attempts, NEW s, NEW where, Look(a, s, where)
      PROVE  held' \in [Attempts -> BOOLEAN]
  BY <1>0, <1>7 DEF Look
<1>8. ASSUME NEW a \in Attempts, CloseKey(a)
      PROVE  TablesInv'
  BY <1>0, <1>5, <1>7, <1>8 DEF CloseKey
<1>9. ASSUME NEW a \in Attempts, ReportSuccess(a)
      PROVE  TablesInv'
  BY <1>0, <1>7, <1>9 DEF ReportSuccess
<1>10. CASE Configure
  BY <1>0, <1>10 DEF Configure, Settings
<1>11. CASE Tick
  BY <1>0, <1>11 DEF Tick
<1> QED
  BY <1>2, <1>3, <1>4, <1>6, <1>8, <1>9, <1>10, <1>11 DEF Next

\* The strengthening that is inductive
LEMMA Inductive == Spec => []IInv
<1>1. Init => IInv
  <2> SUFFICES ASSUME Init
               PROVE  IInv
    OBVIOUS
  <2>1. TypeOK
    BY BreakerAssumption, UnreadIsSetting
       DEF Init, TypeOK, Fresh, ClosedAt, Entry, NoneCounted
  <2>2. \A s \in Scopes : EntryInv(entry[s])
    BY BreakerAssumption, ClosedIsSound DEF Init, Fresh
  <2>3. \A a \in Attempts : ~Reporting(a) /\ pc[a] = "idle"
    BY DEF Init, Reporting
  <2> QED
    BY <2>1, <2>2, <2>3 DEF IInv
<1>2. IInv /\ [Next]_vars => IInv'
  <2>1. ASSUME IInv, Next
        PROVE  IInv'
    BY <2>1, EntriesKept, AttemptsKept, TablesKept
       DEF IInv, TypeOK, AttemptsInv, TablesInv
  <2>2. ASSUME IInv, UNCHANGED vars
        PROVE  IInv'
    BY <2>2 DEF IInv, TypeOK, vars, EntryInv, Reporting
  <2> QED
    BY <2>1, <2>2
<1> QED
  BY <1>1, <1>2, PTL DEF Spec

\* Every variable keeps its type under every interleaving of reports, prunings
\* and reconfigurations.
THEOREM TypeCorrect == Spec => []TypeOK
<1>1. IInv => TypeOK
  BY DEF IInv
<1> QED
  BY <1>1, Inductive, PTL

\* No cool-down outlasts the greatest one configured.
THEOREM NeverWedgedAlways == Spec => []NeverWedged
<1>1. IInv => NeverWedged
  BY DEF IInv, EntryInv, NeverWedged
<1> QED
  BY <1>1, Inductive, PTL

\* No report changes an entry while it cools down.
THEOREM CoolDownsStand == Spec => CoolDownStands
<1>1. ASSUME IInv, Next, NEW s \in Scopes, Cooling(s, clock)
      PROVE  entry'[s] = entry[s]
  <2>1. /\ clock \in 1..MaxClock /\ EntryInv(entry[s]) /\ entry[s].open
        /\ clock < entry[s].until /\ entry[s].until \in Nat
    BY <1>1 DEF IInv, TypeOK, Cooling, Entry
  <2>2. ASSUME NEW now \in 1..clock, NEW c \in Settings, clock - now <= MaxSkew,
               entry'[s] = Failed(entry[s], now, c)
        PROVE  entry'[s] = entry[s]
    BY <2>1, <2>2, FailedKeeps
  <2>3. ASSUME NEW now \in 1..clock
        PROVE  Cooling(s, now)
    BY <2>1, BreakerAssumption DEF Cooling
  <2> QED
    BY <1>1, <2>1, <2>2, <2>3, StepChanges DEF Changes, Kept
<1>2. IInv /\ [Next]_vars =>
        [\A s \in Scopes : Cooling(s, clock) => entry'[s] = entry[s]]_vars
  BY <1>1
<1> QED
  BY <1>2, Inductive, PTL DEF Spec, CoolDownStands

-------------------------------------------------------------------------------
(* The documented state machine *)

\* Each scope follows the documented state machine.
THEOREM DocumentFollowed == Spec => FollowsDocument
<1>1. Init => Documented!Init
  BY DEF Init, Documented!Init, phases, StateOf, Fresh, ClosedAt
<1>2. IInv /\ [Next]_vars => [Documented!Next]_phases
  <2>1. CASE UNCHANGED vars
    BY <2>1 DEF vars, phases, StateOf
  <2>2. ASSUME IInv, Next
        PROVE  [Documented!Next]_phases
    <3> USE DEF StateOf
    <3>1. /\ clock \in 1..MaxClock /\ clock \in Nat
          /\ \A s \in Scopes : EntryInv(entry[s]) /\ entry[s].until \in Nat
      BY <2>2, BreakerAssumption DEF IInv, TypeOK, Entry
    <3>2. CASE clock' # clock
      <4> DEFINE S == {s \in Scopes : phases[s] = "open" /\ phases'[s] # "open"}
      <4>1. entry' = entry /\ clock' = clock + 1
        BY <2>2, <3>2, StepChanges
      <4>2. phases' = [s \in Scopes |-> IF s \in S THEN "half_open" ELSE phases[s]]
        <5>1. \A s \in Scopes : phases'[s] = IF s \in S THEN "half_open" ELSE phases[s]
          BY <3>1, <4>1 DEF phases
        <5> QED
          BY <5>1 DEF phases
      <4> QED
        BY <4>2 DEF Documented!Next, Documented!Elapse
    <3>3. CASE clock' = clock
      <4>1. PICK t : \A s \in Scopes \ {t} : Kept(s)
        <5>1. CASE \A s \in Scopes : Kept(s)
          BY <5>1
        <5>2. ASSUME NEW t \in Scopes, ~Kept(t)
              PROVE  \A s \in Scopes \ {t} : Kept(s)
          BY <2>2, <5>2, StepChanges
        <5> QED
          BY <5>1, <5>2
      <4>2. \A s \in Scopes \ {t} : phases'[s] = phases[s]
        BY <3>3, <4>1 DEF Kept, phases, Fresh, ClosedAt
      <4>3. CASE t \notin Scopes \/ phases'[t] = phases[t]
        BY <4>2, <4>3 DEF phases
      <4>4. CASE t \in Scopes /\ phases'[t] # phases[t]
        <5>1. phases' = [phases EXCEPT ![t] = phases'[t]]
          BY <4>2, <4>4 DEF phases
        <5>2. \/ phases[t] = "closed" /\ phases'[t] = "open"
              \/ phases[t] = "half_open" /\ phases'[t] \in {"open", "closed"}
          <6>1. CASE Kept(t)
            BY <3>3, <4>4, <6>1 DEF Kept, phases, Fresh, ClosedAt
          <6>2. ASSUME NEW now \in 1..clock, NEW c \in Settings, clock - now <= MaxSkew,
                       entry'[t] = Failed(entry[t], now, c)
                PROVE  <5>2
            <7>1. /\ entry'[t] # entry[t] /\ entry'[t].open => clock < entry'[t].until
                  /\ entry[t].open => entry'[t].open
                  /\ entry[t].open /\ clock < entry[t].until => entry'[t] = entry[t]
              BY <3>1, <4>4, <6>2, FailedKeeps
            <7> QED
              BY <3>3, <4>4, <7>1 DEF phases
          <6>3. ASSUME NEW now \in 1..clock, ~Cooling(t, now), entry'[t] = ClosedAt(now)
                PROVE  <5>2
            <7>1. ~entry'[t].open
              BY <6>3 DEF ClosedAt
            <7>2. entry[t].open => ~(clock < entry[t].until)
              BY <3>1, <4>4, <6>3 DEF Cooling
            <7> QED
              BY <3>3, <4>4, <7>1, <7>2 DEF phases
          <6> QED
            BY <2>2, <4>4, <6>1, <6>2, <6>3, StepChanges DEF Changes
        <5> QED
          BY <4>4, <5>1, <5>2
             DEF Documented!Next, Documented!Trip, Documented!Recover,
                 Documented!Retrip, Documented!Move
      <4> QED
        BY <4>3, <4>4
    <3> QED
      BY <3>2, <3>3
  <2> QED
    BY <2>1, <2>2
<1> QED
  BY <1>1, <1>2, Inductive, PTL DEF Spec, FollowsDocument, Documented!Spec

-------------------------------------------------------------------------------
(* The windows that failures are counted in *)

\* A finite set of integers has a greatest and a least element
LEMMA Extremes ==
  ASSUME NEW S, IsFiniteSet(S), S # {}, S \subseteq Int
  PROVE  /\ Max(S) \in S /\ \A x \in S : x <= Max(S)
         /\ Min(S) \in S /\ \A x \in S : Min(S) <= x
<1> DEFINE Bounded(T) == /\ \E x \in T : \A y \in T : x >= y
                         /\ \E x \in T : \A y \in T : x <= y
           C == {T \in SUBSET S : T # {} /\ ~Bounded(T)}
<1>1. C = {}
  <2> SUFFICES ASSUME C # {} PROVE FALSE
    OBVIOUS
  <2>1. PICK T \in C : \A U \in SUBSET T : U # T => U \notin C
    <3>1. C \in SUBSET (SUBSET S)
      OBVIOUS
    <3> HIDE DEF C
    <3> QED  BY <3>1, SmallestSet
  <2>2. PICK z \in T : T \in SUBSET S
    OBVIOUS
  <2>3. CASE T = {z}
    BY <2>3, <2>2
  <2>4. CASE T # {z}
    <3>1. T \ {z} # {} /\ T \ {z} \in SUBSET T /\ T \ {z} # T
      BY <2>2, <2>4
    <3>2. Bounded(T \ {z})
      BY <2>1, <2>2, <3>1
    <3>3. PICK x \in T \ {z} : \A y \in T \ {z} : x >= y
      BY <3>2
    <3>4. PICK w \in T \ {z} : \A y \in T \ {z} : w <= y
      BY <3>2
    <3>5. x \in Int /\ w \in Int /\ z \in Int /\ \A y \in T : y \in Int
      BY <2>2
    <3>6. \E u \in T : \A y \in T : u >= y
      BY <3>3, <3>5
    <3>7. \E u \in T : \A y \in T : u <= y
      BY <3>4, <3>5
    <3> QED  BY <2>1, <3>6, <3>7
  <2> QED  BY <2>3, <2>4
<1>2. Bounded(S)
  BY <1>1
<1> QED  BY <1>2 DEF Max, Min

Most     == Max(Thresholds)
Shortest == Min(Windows)
Longest  == Max(Windows)
Fewest   == Min(Thresholds)

\* The thresholds and the windows of the configurations are between those
LEMMA SettingsBounds ==
  /\ Most \in Nat \ {0} /\ Fewest \in Nat \ {0} /\ Shortest \in Nat \ {0} /\ Longest \in Nat \ {0}
  /\ \A c \in Settings : /\ c.threshold \in Fewest..Most
                         /\ c.window \in Shortest..Longest
<1>1. ASSUME NEW S, NEW f \in [Configs -> S], \A x \in S : \E c \in Configs : f[c] = x
      PROVE  IsFiniteSet(S)
  <2>1. f \in Surjection(Configs, S)
    BY <1>1 DEF Surjection
  <2> QED  BY <2>1, FS_Surjection, BreakerAssumption
<1>2. Settings # {} /\ \A c \in Settings : c.threshold \in Nat \ {0} /\ c.window \in Nat \ {0}
  BY SettingsSane, BreakerAssumption DEF Settings
<1>3. Thresholds # {} /\ Thresholds \subseteq Nat \ {0} /\ IsFiniteSet(Thresholds)
  <2> DEFINE f == [c \in Configs |-> Sanitised(c).threshold]
  <2>1. f \in [Configs -> Thresholds] /\ \A x \in Thresholds : \E c \in Configs : f[c] = x
    BY DEF Thresholds, Settings
  <2> HIDE DEF f
  <2>2. IsFiniteSet(Thresholds)
    BY <1>1, <2>1
  <2> QED  BY <1>2, <2>2 DEF Thresholds
<1>4. Windows # {} /\ Windows \subseteq Nat \ {0} /\ IsFiniteSet(Windows)
  <2> DEFINE f == [c \in Configs |-> Sanitised(c).window]
  <2>1. f \in [Configs -> Windows] /\ \A x \in Windows : \E c \in Configs : f[c] = x
    BY DEF Windows, Settings
  <2> HIDE DEF f
  <2>2. IsFiniteSet(Windows)
    BY <1>1, <2>1
  <2> QED  BY <1>2, <2>2 DEF Windows
<1>5. /\ Most \in Thresholds /\ Fewest \in Thresholds
      /\ \A t \in Thresholds : Fewest <= t /\ t <= Most
  <2>1. Thresholds \subseteq Int
    BY <1>3
  <2> QED  BY <1>3, <2>1, Extremes DEF Most, Fewest
<1>6. /\ Shortest \in Windows /\ Longest \in Windows
      /\ \A t \in Windows : Shortest <= t /\ t <= Longest
  <2>1. Windows \subseteq Int
    BY <1>4
  <2> QED  BY <1>4, <2>1, Extremes DEF Shortest, Longest
<1> QED  BY <1>2, <1>3, <1>4, <1>5, <1>6 DEF Thresholds, Windows

\* The failures n counts from second t on
Since(n, t) == SumFunctionOnSet(n, {x \in 1..MaxClock : t <= x})

\* Any part of the time is a finite number of seconds
LEMMA PartFinite ==
  ASSUME NEW P \in SUBSET (1..MaxClock)
  PROVE  IsFiniteSet(P)
<1>1. 1 \in Int /\ MaxClock \in Int
  BY BreakerAssumption
<1>2. IsFiniteSet(1..MaxClock)
  BY <1>1, FS_Interval
<1> QED  BY <1>2, FS_Subset

\* Without failures there are none in any part of the time
LEMMA NoneSum ==
  ASSUME NEW P \in SUBSET (1..MaxClock)
  PROVE  SumFunctionOnSet(NoneCounted, P) = 0
<1>1. IsFiniteSet(P)
  BY PartFinite
<1> QED  BY <1>1, SumZero DEF NoneCounted

\* One more failure is one more in each part of the time that it falls into
LEMMA OneMoreSum ==
  ASSUME NEW n \in [1..MaxClock -> Nat], NEW now \in 1..MaxClock, NEW P \in SUBSET (1..MaxClock)
  PROVE  /\ SumFunctionOnSet(n, P) \in Nat
         /\ SumFunctionOnSet(OneMore(n, now), P)
              = SumFunctionOnSet(n, P) + (IF now \in P THEN 1 ELSE 0)
<1>1. PICK m : m = OneMore(n, now)
  OBVIOUS
<1>2. PICK z : z = now
  OBVIOUS
<1>3. IsFiniteSet(P)
  BY PartFinite
<1>4. SumFunctionOnSet(n, P) \in Nat
  BY <1>3, SumType
<1>5. SumFunctionOnSet(m, P) = SumFunctionOnSet(n, P) + (IF z \in P THEN 1 ELSE 0)
  <2>1. /\ \A y \in P : n[y] \in Int /\ m[y] \in Int
        /\ \A y \in P \ {z} : m[y] = n[y]
        /\ z \in P => m[z] = n[z] + 1
    BY <1>1, <1>2 DEF OneMore
  <2> QED  BY ONLY <1>3, <2>1, SumMore
<1> QED  BY <1>1, <1>2, <1>4, <1>5

\* The failures of a part of the time are no more than those of the whole
LEMMA FewerSum ==
  ASSUME NEW n \in [1..MaxClock -> Nat], NEW P \in SUBSET (1..MaxClock), NEW Q \in SUBSET P
  PROVE  SumFunctionOnSet(n, Q) <= SumFunctionOnSet(n, P)
<1>1. IsFiniteSet(P)
  BY PartFinite
<1> QED  BY <1>1, SumAtMost

\* The same of the failures from some second on
LEMMA SinceFacts ==
  ASSUME NEW n \in [1..MaxClock -> Nat], NEW now \in 1..MaxClock, NEW t \in Int
  PROVE  /\ Since(n, t) \in Nat
         /\ Since(OneMore(n, now), t) = Since(n, t) + (IF t <= now THEN 1 ELSE 0)
         /\ \A u \in Int : t <= u => Since(n, u) <= Since(n, t)
         /\ (\A x \in 1..MaxClock : t <= x => n[x] = 0) => Since(n, t) = 0
<1> DEFINE P(u) == {x \in 1..MaxClock : u <= x}
<1>1. /\ P(t) \in SUBSET (1..MaxClock)
      /\ now \in P(t) <=> t <= now
      /\ \A u \in Int : t <= u => P(u) \in SUBSET P(t)
      /\ (\A x \in 1..MaxClock : t <= x => n[x] = 0) => \A x \in P(t) : n[x] = 0
      /\ IsFiniteSet(P(t))
  <2>1. \A u \in Int : t <= u => P(u) \in SUBSET P(t)
    BY BreakerAssumption
  <2>2. P(t) \in SUBSET (1..MaxClock)
    OBVIOUS
  <2> QED  BY <2>1, <2>2, PartFinite
<1>2. \A u : Since(n, u) = SumFunctionOnSet(n, P(u))
  BY DEF Since
<1>3. Since(OneMore(n, now), t) = SumFunctionOnSet(OneMore(n, now), P(t))
  BY DEF Since
<1> HIDE DEF P
<1>4. Since(n, t) \in Nat /\ Since(OneMore(n, now), t) = Since(n, t) + (IF t <= now THEN 1 ELSE 0)
  BY <1>1, <1>2, <1>3, OneMoreSum
<1>5. \A u \in Int : t <= u => Since(n, u) <= Since(n, t)
  BY <1>1, <1>2, FewerSum
<1>6. (\A x \in 1..MaxClock : t <= x => n[x] = 0) => Since(n, t) = 0
  BY <1>1, <1>2, SumZero
<1> QED  BY <1>4, <1>5, <1>6
\* Of a window begun at second w with f failures counted: they are recent, those
\* of before are few enough not to trip the scope with one window's more, and all
\* but the first of the window may still belong to a burst with the next one's.
Counting(w, f, n) ==
  /\ w \in 1..clock
  /\ f \in 1..(Most - 1)
  /\ f <= Since(n, w - MaxSkew)
  /\ Since(n, w + MaxSkew + 1) < f
  /\ Since(n, w - Shortest + MaxSkew) <= Most - 2 + f

\* An entry that is open or has begun no window has no failures counted
WindowInv(e, n) ==
  /\ e.open \/ e.windowStart = 0 => n = NoneCounted
  /\ ~e.open /\ e.windowStart # 0 => Counting(e.windowStart, e.fails, n)
  /\ \A x \in 1..MaxClock : x > clock => n[x] = 0

\* Failures of a burst
InBurst(n, t) == SumFunctionOnSet(n, {x \in 1..MaxClock : t <= x /\ x <= t + Burst})

Bursts(n) == \A t \in 1..MaxClock : InBurst(n, t) < Max({Most, 2 * Most - 2})

\* The greater of two integers
LEMMA Greater ==
  ASSUME NEW i \in Int, NEW j \in Int
  PROVE  Max({i, j}) = IF i >= j THEN i ELSE j
<1>1. \E x \in {i, j} : \A y \in {i, j} : x >= y
  OBVIOUS
<1>2. Max({i, j}) \in {i, j} /\ \A y \in {i, j} : Max({i, j}) >= y
  BY <1>1 DEF Max
<1> QED  BY <1>2

\* The bound on a burst, and that of two windows when failures can be counted
\* without a trip
LEMMA BurstBound ==
  /\ Max({Most, 2 * Most - 2}) > 0
  /\ Most > 1 => Max({Most, 2 * Most - 2}) = 2 * Most - 2
<1>1. Most \in Nat \ {0} /\ 2 * Most - 2 \in Int
  BY SettingsBounds
<1>2. Max({Most, 2 * Most - 2}) = IF Most >= 2 * Most - 2 THEN Most ELSE 2 * Most - 2
  BY <1>1, Greater
<1> QED  BY <1>1, <1>2

\* There is no burst without failures
LEMMA NoneBursts == Bursts(NoneCounted) /\ NoneCounted \in [1..MaxClock -> Nat]
<1>1. \A t \in 1..MaxClock : InBurst(NoneCounted, t) = 0
  BY NoneSum DEF InBurst
<1> QED  BY <1>1, BurstBound DEF Bursts, NoneCounted

\* One more failure is one more of a burst if it falls into it
LEMMA BurstFacts ==
  ASSUME NEW n \in [1..MaxClock -> Nat], NEW now \in 1..MaxClock
  PROVE  \A t \in 1..MaxClock :
           /\ InBurst(n, t) \in Nat /\ InBurst(OneMore(n, now), t) \in Nat
           /\ ~ (t <= now /\ now <= t + Burst) => InBurst(OneMore(n, now), t) = InBurst(n, t)
           /\ InBurst(OneMore(n, now), t) <= Since(OneMore(n, now), t)
<1> SUFFICES ASSUME NEW t \in 1..MaxClock
             PROVE  /\ InBurst(n, t) \in Nat /\ InBurst(OneMore(n, now), t) \in Nat
                    /\ ~ (t <= now /\ now <= t + Burst)
                         => InBurst(OneMore(n, now), t) = InBurst(n, t)
                    /\ InBurst(OneMore(n, now), t) <= Since(OneMore(n, now), t)
  OBVIOUS
<1> DEFINE P == {x \in 1..MaxClock : t <= x /\ x <= t + Burst}
           Q == {x \in 1..MaxClock : t <= x}
<1>1. P \in SUBSET (1..MaxClock) /\ Q \in SUBSET (1..MaxClock) /\ P \in SUBSET Q
  OBVIOUS
<1>2. InBurst(n, t) = SumFunctionOnSet(n, P)
      /\ InBurst(OneMore(n, now), t) = SumFunctionOnSet(OneMore(n, now), P)
      /\ Since(OneMore(n, now), t) = SumFunctionOnSet(OneMore(n, now), Q)
  BY DEF InBurst, Since
<1>3. now \in P <=> t <= now /\ now <= t + Burst
  OBVIOUS
<1>4. OneMore(n, now) \in [1..MaxClock -> Nat]
  BY DEF OneMore
<1> HIDE DEF P, Q
<1>5. SumFunctionOnSet(OneMore(n, now), P) <= SumFunctionOnSet(OneMore(n, now), Q)
  BY <1>1, <1>4, FewerSum
<1>6. SumFunctionOnSet(n, P) \in Nat
      /\ SumFunctionOnSet(OneMore(n, now), P) = SumFunctionOnSet(n, P) + (IF now \in P THEN 1 ELSE 0)
  BY <1>1, OneMoreSum
<1> QED  BY <1>2, <1>3, <1>5, <1>6

\* One failure is at most one more from any second on
LEMMA SinceMore ==
  ASSUME NEW n \in [1..MaxClock -> Nat], NEW now \in 1..MaxClock, NEW t \in Int
  PROVE  /\ Since(n, t) \in Nat /\ Since(OneMore(n, now), t) \in Nat
         /\ Since(OneMore(n, now), t) <= Since(n, t) + 1
         /\ t <= now => Since(OneMore(n, now), t) = Since(n, t) + 1
<1>1. /\ Since(n, t) \in Nat
      /\ Since(OneMore(n, now), t) = Since(n, t) + (IF t <= now THEN 1 ELSE 0)
  BY SinceFacts
<1> QED  BY <1>1

\* A burst with the failure has only failures that count for the last windows
LEMMA BurstKept ==
  ASSUME NEW n \in [1..MaxClock -> Nat], NEW now \in 1..MaxClock, Bursts(n), Most > 1,
         NEW u \in Int, u <= now - Burst, Since(OneMore(n, now), u) <= 2 * Most - 3
  PROVE  Bursts(OneMore(n, now))
<1> SUFFICES ASSUME NEW t \in 1..MaxClock PROVE InBurst(OneMore(n, now), t) < 2 * Most - 2
  BY BurstBound DEF Bursts
<1>0. /\ Burst \in Int /\ now \in Int /\ t \in Int /\ Most \in Int
      /\ OneMore(n, now) \in [1..MaxClock -> Nat]
  BY SettingsBounds, BreakerAssumption DEF Burst, Shortest, OneMore
<1>1. CASE t <= now /\ now <= t + Burst
  <2>1. u <= t
    BY <1>0, <1>1
  <2>2. /\ Since(OneMore(n, now), t) <= Since(OneMore(n, now), u)
        /\ Since(OneMore(n, now), u) \in Nat /\ Since(OneMore(n, now), t) \in Nat
    BY <1>0, <2>1, SinceFacts
  <2>3. InBurst(OneMore(n, now), t) <= Since(OneMore(n, now), t)
        /\ InBurst(OneMore(n, now), t) \in Nat
    BY BurstFacts
  <2> QED  BY <1>0, <2>2, <2>3
<1>2. CASE ~ (t <= now /\ now <= t + Burst)
  <2>1. InBurst(OneMore(n, now), t) = InBurst(n, t)
    BY <1>2, BurstFacts
  <2> QED  BY <2>1, BurstBound DEF Bursts
<1> QED  BY <1>1, <1>2

\* A failure begins a window
LEMMA NewWindow ==
  ASSUME clock \in 1..MaxClock, NEW n \in [1..MaxClock -> Nat],
         \A x \in 1..MaxClock : x > clock => n[x] = 0,
         NEW now \in 1..clock, clock - now <= MaxSkew, Most > 1,
         Since(n, now - Shortest + MaxSkew) <= Most - 2
  PROVE  /\ Counting(now, 1, OneMore(n, now))
         /\ Bursts(n) => Bursts(OneMore(n, now))
<1>0. /\ clock \in Int /\ now \in Int /\ now \in 1..MaxClock /\ MaxSkew \in Nat
      /\ Most \in Nat /\ Shortest \in Nat
  BY SettingsBounds, BreakerAssumption
<1>1. \A x \in 1..MaxClock : now + MaxSkew + 1 <= x => n[x] = 0
  BY <1>0
<1>2. /\ now - MaxSkew \in Int /\ now + MaxSkew + 1 \in Int /\ now - Shortest + MaxSkew \in Int
      /\ now - MaxSkew <= now /\ ~ (now + MaxSkew + 1 <= now)
  BY <1>0
<1>3. Since(n, now - MaxSkew) \in Nat
      /\ Since(OneMore(n, now), now - MaxSkew) = Since(n, now - MaxSkew) + 1
  BY <1>0, <1>2, SinceFacts
<1>4. Since(OneMore(n, now), now + MaxSkew + 1) = 0
  <2>1. Since(n, now + MaxSkew + 1) = 0
    BY <1>0, <1>1, <1>2, SinceFacts
  <2> QED  BY <1>0, <1>2, <2>1, SinceFacts
<1>5. /\ Since(n, now - Shortest + MaxSkew) \in Nat
      /\ Since(OneMore(n, now), now - Shortest + MaxSkew) \in Nat
      /\ Since(OneMore(n, now), now - Shortest + MaxSkew)
           <= Since(n, now - Shortest + MaxSkew) + 1
  BY <1>0, <1>2, SinceMore
<1>6. Counting(now, 1, OneMore(n, now))
  BY <1>0, <1>3, <1>4, <1>5 DEF Counting
<1>7. ASSUME Bursts(n) PROVE Bursts(OneMore(n, now))
  <2>1. now - Shortest + MaxSkew <= now - Burst
    BY <1>0 DEF Burst, Shortest
  <2>2. Since(OneMore(n, now), now - Shortest + MaxSkew) <= 2 * Most - 3
    BY <1>0, <1>5
  <2> QED  BY <1>0, <1>2, <1>7, <2>1, <2>2, BurstKept
<1> QED  BY <1>6, <1>7

\* A failure falls into the window that has begun
LEMMA SameWindow ==
  ASSUME clock \in 1..MaxClock, NEW n \in [1..MaxClock -> Nat],
         NEW now \in 1..clock, clock - now <= MaxSkew,
         NEW w \in Nat, NEW f \in Nat, Counting(w, f, n), f + 1 < Most
  PROVE  /\ Counting(w, f + 1, OneMore(n, now))
         /\ Bursts(n) => Bursts(OneMore(n, now))
<1>0. /\ clock \in Int /\ now \in Int /\ now \in 1..MaxClock /\ MaxSkew \in Nat
      /\ Most \in Nat /\ Shortest \in Nat /\ w <= clock
  BY SettingsBounds, BreakerAssumption DEF Counting
<1>1. /\ w - MaxSkew \in Int /\ w + MaxSkew + 1 \in Int /\ w - Shortest + MaxSkew \in Int
      /\ w - MaxSkew <= now
  BY <1>0
<1>3. Since(n, w - MaxSkew) \in Nat
      /\ Since(OneMore(n, now), w - MaxSkew) = Since(n, w - MaxSkew) + 1
  BY <1>0, <1>1, SinceMore
<1>4. /\ Since(n, w + MaxSkew + 1) \in Nat /\ Since(OneMore(n, now), w + MaxSkew + 1) \in Nat
      /\ Since(OneMore(n, now), w + MaxSkew + 1) <= Since(n, w + MaxSkew + 1) + 1
  BY <1>0, <1>1, SinceMore
<1>5. /\ Since(n, w - Shortest + MaxSkew) \in Nat
      /\ Since(OneMore(n, now), w - Shortest + MaxSkew) \in Nat
      /\ Since(OneMore(n, now), w - Shortest + MaxSkew) <= Since(n, w - Shortest + MaxSkew) + 1
  BY <1>0, <1>1, SinceMore
<1>6. Counting(w, f + 1, OneMore(n, now))
  BY <1>0, <1>3, <1>4, <1>5 DEF Counting
<1>7. ASSUME Bursts(n) PROVE Bursts(OneMore(n, now))
  <2>1. w - Shortest + MaxSkew <= now - Burst
    BY <1>0 DEF Burst, Shortest
  <2>2. Since(OneMore(n, now), w - Shortest + MaxSkew) <= 2 * Most - 3
    BY <1>0, <1>5, <1>6 DEF Counting
  <2> QED  BY <1>0, <1>1, <1>7, <2>1, <2>2, BurstKept
<1> QED  BY <1>6, <1>7

\* A failure that does not trip a closed entry
LEMMA CountedKeeps ==
  ASSUME clock \in 1..MaxClock, NEW e \in Entry, NEW n \in [1..MaxClock -> Nat],
         WindowInv(e, n), Bursts(n), ~e.open,
         NEW now \in 1..clock, clock - now <= MaxSkew, NEW c \in Settings,
         ~Counted(e, now, c).open
  PROVE  WindowInv(Counted(e, now, c), OneMore(n, now)) /\ Bursts(OneMore(n, now))
<1>1. PICK w, f : w = e.windowStart /\ f = e.fails
  OBVIOUS
<1>2. /\ clock \in Int /\ now \in Int /\ now \in 1..MaxClock /\ MaxSkew \in Nat
      /\ Most \in Nat /\ Shortest \in Nat /\ w \in Nat /\ f \in Nat
      /\ c.threshold \in Nat /\ c.threshold <= Most /\ c.window \in Nat /\ Shortest <= c.window
  BY <1>1, SettingsBounds, BreakerAssumption DEF Entry
<1>3. PICK w2, f2 : /\ w2 = Windowed(e, now, c).windowStart /\ f2 = Windowed(e, now, c).fails
                    /\ IF w = 0 \/ now - w > c.window THEN w2 = now /\ f2 = 1
                       ELSE w2 = w /\ f2 = f + 1
  BY <1>1 DEF Windowed, Entry
<1>4. Counted(e, now, c) = Windowed(e, now, c) /\ f2 < Most /\ ~Windowed(e, now, c).open
  <2>1. ~ (f2 >= c.threshold) /\ Counted(e, now, c) = Windowed(e, now, c)
    BY <1>3 DEF Counted, Windowed, Entry
  <2>2. f2 \in Nat
    BY <1>2, <1>3
  <2>3. ~Windowed(e, now, c).open
    BY DEF Windowed, Entry
  <2> QED  BY <1>2, <2>1, <2>2, <2>3
<1>5. \A x \in 1..MaxClock : x > clock => n[x] = 0 /\ OneMore(n, now)[x] = 0
  <2>1. \A x \in 1..MaxClock : x > clock => x # now /\ n[x] = 0
    BY <1>2 DEF WindowInv
  <2> QED  BY <2>1 DEF OneMore
<1>6. CASE w = 0
  <2>1. f2 = 1 /\ w2 = now /\ Most > 1
    BY <1>2, <1>3, <1>4, <1>6
  <2>2. Since(n, now - Shortest + MaxSkew) <= Most - 2
    <3>1. Since(n, now - Shortest + MaxSkew) = 0
      BY <1>1, <1>6, NoneSum DEF WindowInv, Since
    <3> QED  BY <1>2, <2>1, <3>1
  <2>3. Counting(w2, f2, OneMore(n, now)) /\ Bursts(OneMore(n, now))
    BY <1>2, <1>5, <2>1, <2>2, NewWindow
  <2> QED  BY <1>2, <1>3, <1>4, <1>5, <2>1, <2>3 DEF WindowInv
<1>7. CASE w # 0 /\ now - w > c.window
  <2>1. f2 = 1 /\ w2 = now /\ Most > 1 /\ Counting(w, f, n)
    BY <1>1, <1>2, <1>3, <1>4, <1>7 DEF WindowInv
  <2>2. Since(n, w + MaxSkew + 1) < f /\ f \in 1..(Most - 1)
    BY <2>1 DEF Counting
  <2>3. /\ Since(n, now - Shortest + MaxSkew) <= Since(n, w + MaxSkew + 1)
        /\ Since(n, now - Shortest + MaxSkew) \in Nat /\ Since(n, w + MaxSkew + 1) \in Nat
    <3>1. /\ w + MaxSkew + 1 <= now - Shortest + MaxSkew
          /\ w + MaxSkew + 1 \in Int /\ now - Shortest + MaxSkew \in Int
      BY <1>2, <1>7
    <3> QED  BY <1>2, <3>1, SinceFacts
  <2>4. Since(n, now - Shortest + MaxSkew) <= Most - 2
    BY <1>2, <2>2, <2>3
  <2>5. Counting(w2, f2, OneMore(n, now)) /\ Bursts(OneMore(n, now))
    BY <1>2, <1>5, <2>1, <2>4, NewWindow
  <2> QED  BY <1>2, <1>3, <1>4, <1>5, <2>1, <2>5 DEF WindowInv
<1>8. CASE w # 0 /\ ~ (now - w > c.window)
  <2>1. f2 = f + 1 /\ w2 = w /\ f + 1 < Most /\ Counting(w, f, n)
    BY <1>1, <1>2, <1>3, <1>4, <1>8 DEF WindowInv
  <2>2. Counting(w2, f2, OneMore(n, now)) /\ Bursts(OneMore(n, now))
    BY <1>2, <2>1, SameWindow
  <2> QED  BY <1>3, <1>4, <1>5, <1>8, <2>1, <2>2 DEF WindowInv
<1> QED  BY <1>6, <1>7, <1>8

\* A failure that trips an entry is the last of enough recent ones
LEMMA TripsOnRecent ==
  ASSUME clock \in 1..MaxClock, NEW e \in Entry, NEW n \in [1..MaxClock -> Nat],
         WindowInv(e, n), ~e.open,
         NEW now \in 1..clock, NEW c \in Settings, Counted(e, now, c).open
  PROVE  /\ Counted(e, now, c).lastChange = now
         /\ 1 + Since(n, now - Longest - MaxSkew) >= Fewest
<1>1. PICK w, f : w = e.windowStart /\ f = e.fails
  OBVIOUS
<1>2. /\ now \in Int /\ MaxSkew \in Nat /\ Longest \in Nat /\ w \in Nat /\ f \in Nat
      /\ Fewest \in Nat /\ c.threshold \in Nat /\ Fewest <= c.threshold
      /\ c.window \in Nat /\ c.window <= Longest
  BY <1>1, SettingsBounds, BreakerAssumption DEF Entry
<1>3. PICK f2 : /\ f2 = Windowed(e, now, c).fails
                /\ IF w = 0 \/ now - w > c.window THEN f2 = 1 ELSE f2 = f + 1
  BY <1>1 DEF Windowed, Entry
<1>4. f2 >= c.threshold /\ Counted(e, now, c).lastChange = now
  BY <1>3 DEF Counted, Windowed, Entry
<1>5. now - Longest - MaxSkew \in Int /\ now \in 1..MaxClock
  BY <1>2, BreakerAssumption
<1>6. Since(n, now - Longest - MaxSkew) \in Nat
  BY <1>5, SinceFacts
<1>7. CASE w = 0 \/ now - w > c.window
  BY <1>2, <1>3, <1>4, <1>6, <1>7
<1>8. CASE w # 0 /\ ~ (now - w > c.window)
  <2>1. f2 = f + 1 /\ f <= Since(n, w - MaxSkew)
    BY <1>1, <1>3, <1>8 DEF WindowInv, Counting
  <2>2. w - MaxSkew \in Int /\ now - Longest - MaxSkew <= w - MaxSkew
    BY <1>2, <1>8
  <2>3. Since(n, w - MaxSkew) <= Since(n, now - Longest - MaxSkew) /\ Since(n, w - MaxSkew) \in Nat
    BY <1>5, <2>2, SinceFacts
  <2> QED  BY <1>2, <1>4, <1>6, <2>1, <2>3
<1> QED  BY <1>7, <1>8

-------------------------------------------------------------------------------
(* What the steps count *)

\* What a step may do to the entry of a scope and to the failures counted for it
Counts(s) ==
  \/ entry'[s] = entry[s] /\ counted'[s] = counted[s]
  \/ ~entry'[s].open /\ entry'[s].windowStart = 0 /\ counted'[s] = NoneCounted
  \/ \E now \in 1..clock, c \in Settings :
       /\ clock - now <= MaxSkew
       /\ entry'[s] = Failed(entry[s], now, c)
       /\ counted'[s] = IF entry'[s].open THEN NoneCounted ELSE OneMore(counted[s], now)

\* Each step counts in one of these ways
LEMMA StepCounts ==
  ASSUME IInv, Next, NEW s \in Scopes
  PROVE  Counts(s)
<1> USE DEF Counts
<1>0. /\ entry \in [Scopes -> Entry] /\ counted \in [Scopes -> [1..MaxClock -> Nat]]
      /\ \A a \in Attempts : snapshot[a] \in Settings
  BY DEF IInv, TypeOK
<1>1. CASE UNCHANGED <<entry, counted>>
  BY <1>1
<1>2. ASSUME NEW a \in Attempts, ReportFailure(a)
      PROVE  Counts(s)
  <2>1. PICK pruned : /\ entry' = [t \in Scopes |-> IF t \in pruned THEN Fresh ELSE entry[t]]
                      /\ counted' = [t \in Scopes |-> IF t \in pruned THEN NoneCounted ELSE counted[t]]
    BY <1>2 DEF ReportFailure, Get
  <2> QED  BY <2>1 DEF Fresh, ClosedAt
<1>3. ASSUME NEW a \in Attempts, CountFailure(a)
      PROVE  Counts(s)
  <2>1. /\ stamp[a] \in 1..clock /\ clock - stamp[a] <= MaxSkew /\ snapshot[a] \in Settings
        /\ scope[a] \in Scopes
    BY <1>0, <1>3 DEF IInv, CountFailure, Reporting
  <2>2. CASE ~held[a]
    BY <1>1, <1>3, <2>2 DEF CountFailure
  <2>3. CASE held[a]
    <3>1. /\ entry' = [entry EXCEPT ![scope[a]] = Failed(@, stamp[a], snapshot[a])]
          /\ counted' = [counted EXCEPT ![scope[a]] =
               IF entry'[scope[a]].open THEN NoneCounted ELSE OneMore(@, stamp[a])]
      BY <1>3, <2>3 DEF CountFailure
    <3>2. CASE s # scope[a]
      BY <1>0, <3>1, <3>2
    <3>3. CASE s = scope[a]
      BY <1>0, <2>1, <3>1, <3>3
    <3> QED  BY <3>2, <3>3
  <2> QED  BY <2>2, <2>3
<1>4. ASSUME NEW a \in Attempts, CloseKey(a) \/ CloseChannel(a)
      PROVE  Counts(s)
  <2>1. Close(a) /\ scope[a] \in Scopes
    BY <1>4 DEF CloseKey, CloseChannel, IInv
  <2>2. CASE held[a] /\ ~Cooling(scope[a], stamp[a])
    <3>1. /\ entry' = [entry EXCEPT ![scope[a]] = ClosedAt(stamp[a])]
          /\ counted' = [counted EXCEPT ![scope[a]] = NoneCounted]
      BY <2>1, <2>2 DEF Close
    <3> QED  BY <1>0, <2>1, <3>1 DEF ClosedAt
  <2>3. CASE ~ (held[a] /\ ~Cooling(scope[a], stamp[a]))
    BY <1>1, <2>1, <2>3 DEF Close
  <2> QED  BY <2>2, <2>3
<1>5. CASE \E a \in Attempts : Select(a) \/ ReportNothing(a) \/ ReportSuccess(a)
  BY <1>1, <1>5 DEF Select, ReportNothing, ReportSuccess
<1>6. CASE Configure \/ Tick
  BY <1>1, <1>6 DEF Configure, Tick
<1> QED
  BY <1>2, <1>3, <1>4, <1>5, <1>6 DEF Next

\* What is counted of every scope
CountsInv == \A s \in Scopes : WindowInv(entry[s], counted[s]) /\ Bursts(counted[s])

\* The clock moves on its own, forwards
LEMMA ClockStep ==
  ASSUME IInv, Next
  PROVE  \/ clock' = clock
         \/ clock' = clock + 1 /\ UNCHANGED <<entry, counted>>
  BY DEF Next, Select, ReportNothing, ReportFailure, CountFailure, ReportSuccess, CloseKey,
         CloseChannel, Done, Configure, Tick

\* Every step keeps what is counted in order
LEMMA CountsKept ==
  ASSUME IInv, Next, CountsInv
  PROVE  CountsInv'
<1>0. clock \in 1..MaxClock /\ clock \in Nat
  BY BreakerAssumption DEF IInv, TypeOK
<1> SUFFICES ASSUME NEW s \in Scopes
             PROVE  WindowInv(entry[s], counted[s])' /\ Bursts(counted[s])'
  BY DEF CountsInv
<1>1. /\ WindowInv(entry[s], counted[s]) /\ Bursts(counted[s])
      /\ entry[s] \in Entry /\ counted[s] \in [1..MaxClock -> Nat]
  BY DEF CountsInv, IInv, TypeOK
<1>2. WindowInv(entry'[s], counted'[s]) /\ Bursts(counted'[s])
  <2>1. CASE entry'[s] = entry[s] /\ counted'[s] = counted[s]
    BY <1>1, <2>1
  <2>2. ASSUME entry'[s].open \/ entry'[s].windowStart = 0, counted'[s] = NoneCounted
        PROVE  <1>2
    BY <2>2, NoneBursts DEF WindowInv, NoneCounted
  <2>3. ASSUME NEW now \in 1..clock, NEW c \in Settings, clock - now <= MaxSkew,
               entry'[s] = Failed(entry[s], now, c), ~entry'[s].open,
               counted'[s] = OneMore(counted[s], now)
        PROVE  <1>2
    <3>1. ~entry[s].open
      BY <1>0, <2>3, FailedKeeps DEF IInv
    <3>2. entry'[s] = Counted(entry[s], now, c)
      BY <2>3, <3>1 DEF Failed
    <3> QED  BY <1>0, <1>1, <2>3, <3>1, <3>2, CountedKeeps
  <2> QED  BY <2>1, <2>2, <2>3, StepCounts DEF Counts
<1>3. CASE clock' = clock
  BY <1>2, <1>3 DEF WindowInv, Counting, Bursts, InBurst, Since
<1>4. CASE clock' = clock + 1 /\ UNCHANGED <<entry, counted>>
  <2>1. Bursts(counted[s])'
    BY <1>1, <1>4 DEF Bursts, InBurst
  <2>2. Counting(entry[s].windowStart, entry[s].fails, counted[s])
          => Counting(entry[s].windowStart, entry[s].fails, counted[s])'
    <3>1. 1..clock \subseteq 1..clock'
      BY <1>0, <1>4
    <3> QED  BY <1>4, <3>1 DEF Counting, Since
  <2>3. \A x \in 1..MaxClock : x > clock' => x > clock
    BY <1>0, <1>4
  <2> QED  BY <1>1, <1>4, <2>1, <2>2, <2>3 DEF WindowInv
<1> QED  BY <1>3, <1>4, ClockStep

\* The failures of a scope are in windows in every state the program reaches
LEMMA CountsHold == Spec => [](IInv /\ CountsInv)
<1>1. Init => CountsInv
  <2> SUFFICES ASSUME Init, NEW s \in Scopes
               PROVE  WindowInv(entry[s], counted[s]) /\ Bursts(counted[s])
    BY DEF CountsInv
  <2>1. counted[s] = NoneCounted /\ ~entry[s].open /\ entry[s].windowStart = 0
    BY DEF Init, Fresh, ClosedAt
  <2> QED  BY <2>1, NoneBursts DEF WindowInv, NoneCounted
<1>2. IInv /\ CountsInv /\ [Next]_vars => CountsInv'
  <2>1. CASE UNCHANGED vars
    BY <2>1 DEF vars, CountsInv, WindowInv, Counting, Bursts, InBurst, Since
  <2>2. ASSUME IInv, CountsInv, Next PROVE CountsInv'
    BY <2>2, CountsKept
  <2> QED  BY <2>1, <2>2
<1> QED  BY <1>1, <1>2, Inductive, PTL DEF Spec

\* However the failures of a burst fall into windows, and whichever configurations
\* they are counted under, enough of them trip the scope.
THEOREM BurstsTrip == Spec => []BurstTrips
<1>1. CountsInv => BurstTrips
  BY DEF CountsInv, Bursts, InBurst, BurstTrips, CountedBetween, Most
<1> QED  BY <1>1, CountsHold, PTL

\* A scope trips on as many recent failures as the lowest threshold says.
THEOREM TripsAreRecent == Spec => TripsOnRecentFailures
<1>1. ASSUME IInv, CountsInv, Next, NEW s \in Scopes, ~entry[s].open, entry'[s].open
      PROVE  1 + CountedBetween(s, entry'[s].lastChange - Max(Windows) - MaxSkew, MaxClock)
               >= Min(Thresholds)
  <2>1. PICK now \in 1..clock, c \in Settings : /\ clock - now <= MaxSkew
                                                /\ entry'[s] = Failed(entry[s], now, c)
    BY <1>1, StepCounts DEF Counts
  <2>2. entry'[s] = Counted(entry[s], now, c)
    BY <1>1, <2>1 DEF Failed
  <2>3. /\ WindowInv(entry[s], counted[s]) /\ entry[s] \in Entry
        /\ counted[s] \in [1..MaxClock -> Nat] /\ clock \in 1..MaxClock
    BY <1>1 DEF CountsInv, IInv, TypeOK
  <2>4. /\ entry'[s].lastChange = now
        /\ 1 + Since(counted[s], now - Longest - MaxSkew) >= Fewest
    BY <1>1, <2>1, <2>2, <2>3, TripsOnRecent
  <2>5. \A t : CountedBetween(s, t, MaxClock) = Since(counted[s], t)
    <3>1. \A t : {x \in 1..MaxClock : t <= x /\ x <= MaxClock} = {x \in 1..MaxClock : t <= x}
      BY BreakerAssumption
    <3> QED  BY <3>1 DEF CountedBetween, Since
  <2> QED  BY <2>4, <2>5 DEF Longest, Fewest
<1>2. IInv /\ CountsInv /\ [Next]_vars =>
        [\A s \in Scopes : ~entry[s].open /\ entry'[s].open =>
           LET last == entry'[s].lastChange IN
           1 + CountedBetween(s, last - Max(Windows) - MaxSkew, MaxClock)
             >= Min(Thresholds)]_vars
  BY <1>1
<1> QED  BY <1>2, CountsHold, PTL DEF Spec, TripsOnRecentFailures
===============================================================================
