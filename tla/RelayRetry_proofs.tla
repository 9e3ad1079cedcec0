--------------------------- MODULE RelayRetry_proofs ---------------------------
(***************************************************************************)
(* What holds of every request's retries, whatever the channels, groups,   *)
(* keys and budgets, and whatever is disabled meanwhile: it never sends    *)
(* twice with a key of a multi-key channel, a rotation stays on its        *)
(* channel and costs no retry, and a channel given up is not used again    *)
(* while its tier has another.  The first two rest on what the request     *)
(* remembers (tried, sticky) agreeing with what it did (trail), the third  *)
(* on an account of its attempts (Budget), the last on the selection.      *)
(***************************************************************************)
EXTENDS RelayRetry, FiniteSetTheorems, TLAPS

Last == trail[Len(trail)]

\* What the loop knows where it stands
Position ==
  /\ attempts = Len(trail)
  /\ pc = "arrive" => attempts = 0 /\ retry = 0
  /\ pc = "key" => attempts < MaxAttempts /\ retry <= RetryTimes
  /\ pc = "sent" => attempts > 0 /\ retry <= RetryTimes /\ Last.channel = channel

\* The keys tried are those of the trail; one not found is sent only at first
Remembered ==
  /\ \A c \in Channels : enabled[c] \subseteq KeysOf[c]
  /\ \A i \in 1..Len(trail) :
       LET t == trail[i] IN
         \/ t.channel \notin MultiKey /\ t.key = SingleKey
         \/ t.channel \in MultiKey /\ t.key \in Nat /\ t.key \in tried[t.channel]
         \/ t.channel \in MultiKey /\ t.key = NoKey /\ i = 1

\* A channel is kept only if it has several keys and is the last one used
Sticking ==
  /\ pc = "sent" /\ multiKey => channel \in MultiKey
  /\ sticky # NoChannel /\ pc # "done" =>
       /\ sticky = channel /\ channel \in MultiKey
       /\ attempts > 0 /\ Last.channel = channel

IInv == TypeOK /\ Position /\ Remembered /\ Sticking /\ KeysTriedOnce /\ RotationStays

-----------------------------------------------------------------------------
(***************************************************************************)
(* Type correctness                                                        *)
(***************************************************************************)

\* Selection yields a channel it was given
LEMMA SatisfiedMember ==
  ASSUME NEW S, NEW n, NEW cooling, NEW c \in Satisfied(S, n, cooling)
  PROVE  c \in S
<1>1. CASE Cardinality(S) = 1
  BY <1>1 DEF Satisfied
<1>2. CASE Cardinality(S) # 1
  <2>1. Tier(S, n) \subseteq S
    BY DEF Tier
  <2>2. Selectable(Tier(S, n), cooling) \subseteq Tier(S, n)
    BY DEF Selectable
  <2> QED  BY <1>2, <2>1, <2>2 DEF Satisfied
<1> QED  BY <1>1, <1>2

\* ... and one of the channels that serve the model, from a group there is
LEMMA PickedMember ==
  ASSUME TypeOK, NEW g \in Usable, NEW n, NEW cooling,
         NEW c \in Satisfied(Members(g), n, cooling)
  PROVE  c \in Channels /\ g \in 1..Groups /\ g >= group
<1>1. g \in 1..Groups /\ g >= group
  BY RetryAssumption DEF Usable, TypeOK
<1>2. c \in Members(g)
  BY SatisfiedMember
<1> QED  BY <1>1, <1>2, RetryAssumption DEF Members

LEMMA InitInv == Init => IInv
<1> SUFFICES ASSUME Init PROVE IInv
  OBVIOUS
<1>1. TypeOK
  <2>1. trail \in Seq(Attempt) /\ group \in 1..Groups + 1 /\ disabled \in 0..MaxDisabled
    BY RetryAssumption DEF Init
  <2>2. tried \in [Channels -> SUBSET Nat] /\ rotations \in [Channels -> 0..MaxRotations]
    BY RetryAssumption DEF Init
  <2>3. retry \in 0..RetryTimes + 1 /\ attempts \in 0..MaxAttempts /\ via \in 0..Groups
    BY RetryAssumption DEF Init
  <2> QED  BY <2>1, <2>2, <2>3, RetryAssumption DEF Init, TypeOK
<1>2. Position /\ Remembered /\ Sticking /\ KeysTriedOnce /\ RotationStays
  BY RetryAssumption DEF Init, Position, Remembered, Sticking, KeysTriedOnce, RotationStays, Last
<1> QED  BY <1>1, <1>2 DEF IInv

\* Each step keeps the types; the bounds on attempts and retries follow from
\* where the loop stands
LEMMA TypeStep ==
  ASSUME IInv, [Next]_vars
  PROVE  TypeOK'
<1> USE RetryAssumption DEF IInv
<1>1. CASE DistributeFromPool
  <2>1. CASE Usable = {}
    BY <1>1, <2>1 DEF DistributeFromPool, TypeOK, Done, cache
  <2>2. CASE Usable # {}
    <3>1. PICK g \in Usable, cooling \in SUBSET Channels :
            /\ \E c \in Satisfied(Members(g), 0, cooling) : PickedFrom(g, c)
            /\ group' = IF LastInGroup(g, 0) THEN g + 1 ELSE g
            /\ UNCHANGED outcome
      BY <1>1, <2>2 DEF DistributeFromPool
    <3>2. PICK c \in Satisfied(Members(g), 0, cooling) : PickedFrom(g, c)
      BY <3>1
    <3>3. c \in Channels /\ g \in 1..Groups
      BY PickedMember
    <3> QED  BY <1>1, <3>1, <3>2, <3>3 DEF DistributeFromPool, TypeOK, PickedFrom, cache
  <2> QED  BY <2>1, <2>2
<1>2. ASSUME NEW c \in Channels, DistributePreferred(c) PROVE TypeOK'
  BY <1>2 DEF DistributePreferred, TypeOK, PickedFrom, cache, param
<1>3. CASE DistributeRefused
  BY <1>3 DEF DistributeRefused, TypeOK, Done, cache, param
<1>4. CASE GiveUp
  BY <1>4 DEF GiveUp, TypeOK, Done, cache, param
<1>5. CASE Rotate
  BY <1>5 DEF Rotate, TypeOK, PickedFrom, cache, param
<1>6. CASE PickAgain
  <2>1. CASE Usable = {}
    BY <1>6, <2>1 DEF PickAgain, TypeOK, Done, cache
  <2>2. CASE Usable # {}
    <3>1. PICK g \in Usable, cooling \in SUBSET Channels :
            /\ \E c \in Satisfied(Members(g), TierIndex(g, retry), cooling) : PickedFrom(g, c)
            /\ group' = IF LastInGroup(g, retry) THEN g + 1 ELSE g
            /\ retry' = IF LastInGroup(g, retry) \/ g > group THEN 0 ELSE retry
            /\ resetNextTry' = (resetNextTry \/ LastInGroup(g, retry))
            /\ UNCHANGED outcome
      BY <1>6, <2>2 DEF PickAgain
    <3>2. PICK c \in Satisfied(Members(g), TierIndex(g, retry), cooling) : PickedFrom(g, c)
      BY <3>1
    <3>3. c \in Channels /\ g \in 1..Groups
      BY PickedMember
    <3>4. resetNextTry' \in BOOLEAN
      BY <3>1 DEF TypeOK
    <3> QED  BY <1>6, <3>1, <3>2, <3>3, <3>4 DEF PickAgain, TypeOK, PickedFrom, cache
  <2> QED  BY <2>1, <2>2
<1>7. ASSUME NEW k \in Nat \union {SingleKey, NoKey}, pc = "key", Send(k)
      PROVE  /\ trail' \in Seq(Attempt) /\ attempts' \in 0..MaxAttempts
             /\ key' \in Nat \union {SingleKey, NoKey}
             /\ pc' = "sent" /\ outcome' = outcome
  <2>1. [channel |-> channel, key |-> k, group |-> via, rotated |-> sticky # NoChannel] \in Attempt
    BY <1>7 DEF TypeOK, Attempt, SingleKey, NoKey
  <2> QED  BY <1>7, <2>1 DEF Send, TypeOK, Position
<1>8. CASE TakeMultiKey
  <2>1. PICK k \in UntriedKeys(channel) :
          Send(k) /\ tried' = [tried EXCEPT ![channel] = @ \union {k}]
    BY <1>8 DEF TakeMultiKey
  <2>2. k \in Nat /\ pc = "key" /\ channel \in Channels
    BY <1>8 DEF TakeMultiKey, UntriedKeys, TypeOK, MultiKey
  <2> QED  BY <1>7, <1>8, <2>1, <2>2 DEF TakeMultiKey, TypeOK, cache
<1>9. CASE TakeSingleKey
  BY <1>7, <1>9 DEF TakeSingleKey, TypeOK, cache, param
<1>10. CASE KeyNotFound
  <2>1. CASE attempts = 0 /\ Send(NoKey) /\ multiKey' = FALSE
    BY <1>7, <1>10, <2>1 DEF KeyNotFound, TypeOK, cache, param
  <2>2. CASE Done("noKey") /\ UNCHANGED <<key, attempts, trail, multiKey>>
    BY <1>10, <2>2 DEF KeyNotFound, TypeOK, Done, cache, param
  <2> QED  BY <1>10, <2>1, <2>2 DEF KeyNotFound
<1>11. CASE Succeed
  BY <1>11 DEF Succeed, TypeOK, Done, cache, param
<1>12. ASSUME NEW failure \in Failures, FailAndRotate(failure) PROVE TypeOK'
  <2>1. rotations' \in [Channels -> 0..MaxRotations]
    BY <1>12 DEF FailAndRotate, CanRotate, TypeOK
  <2> QED  BY <1>12, <2>1 DEF FailAndRotate, TypeOK, cache
<1>13. ASSUME NEW failure \in Failures, FailOver(failure) PROVE TypeOK'
  <2>1. retry' \in 0..RetryTimes + 1 /\ resetNextTry' \in BOOLEAN
    <3>1. retry \in 0..RetryTimes
      BY <1>13 DEF FailOver, TypeOK, Position
    <3>2. CASE ShouldRetry(failure)
      <4>1. retry' = (IF resetNextTry THEN retry ELSE retry + 1) /\ resetNextTry' = FALSE
        BY <1>13, <3>2 DEF FailOver
      <4>2. retry \in 0..RetryTimes + 1 /\ retry + 1 \in 0..RetryTimes + 1
        BY <3>1
      <4> QED  BY <4>1, <4>2
    <3>3. CASE ~ShouldRetry(failure)
      BY <1>13, <3>3 DEF FailOver, TypeOK
    <3> QED  BY <3>2, <3>3
  <2>2. abandoned' \in SUBSET Channels
    BY <1>13 DEF FailOver, TypeOK
  <2>3. /\ pc' \in {"top", "done"}
        /\ outcome' \in {"none", "ok", "failed", "noChannel", "noKey"}
    BY <1>13 DEF FailOver, TypeOK, Done
  <2> QED  BY <1>13, <2>1, <2>2, <2>3 DEF FailOver, TypeOK, cache
<1>14. ASSUME NEW c \in Channels, Unlist(c) \/ DisableSingle(c) PROVE TypeOK'
  <2>1. listed' \in SUBSET Channels /\ disabled' \in 0..MaxDisabled /\ enabled' = enabled
    BY <1>14 DEF Unlist, DisableSingle, Disabling, TypeOK
  <2>2. OnlyCache
    BY <1>14 DEF Unlist, DisableSingle
  <2> QED  BY <2>1, <2>2 DEF OnlyCache, TypeOK, param
<1>15. ASSUME NEW c \in Channels, NEW k \in KeysOf[c], DisableKey(c, k) PROVE TypeOK'
  BY <1>15 DEF DisableKey, Disabling, OnlyCache, TypeOK, param
<1>16. CASE UNCHANGED vars
  BY <1>16 DEF TypeOK, vars, cache, param
<1> QED
  BY <1>1, <1>2, <1>3, <1>4, <1>5, <1>6, <1>8, <1>9, <1>10, <1>11, <1>12, <1>13, <1>14,
     <1>15, <1>16 DEF Next, Select, Answer, Others

-----------------------------------------------------------------------------
(***************************************************************************)
(* The request's memory agrees with its trail                              *)
(***************************************************************************)

Quiet == UNCHANGED <<trail, attempts, tried>>

\* A step that sends nothing leaves what is said of the trail as it was
LEMMA QuietStep ==
  ASSUME IInv, Quiet, \A c \in Channels : enabled'[c] \subseteq KeysOf[c]
  PROVE  Remembered' /\ KeysTriedOnce' /\ RotationStays'
<1>1. Remembered'
  BY DEF IInv, Quiet, Remembered
<1> QED  BY <1>1 DEF IInv, Quiet, KeysTriedOnce, RotationStays

\* The attempt appended to the trail, with a key not tried on its channel, or the
\* only one, or none at all as the very first
Entry(k) == [channel |-> channel, key |-> k, group |-> via, rotated |-> sticky # NoChannel]

Legal(k) ==
  \/ channel \notin MultiKey /\ k = SingleKey /\ tried' = tried
  \/ /\ channel \in MultiKey /\ k \in UntriedKeys(channel)
     /\ tried' = [tried EXCEPT ![channel] = @ \union {k}]
  \/ channel \in MultiKey /\ k = NoKey /\ attempts = 0 /\ tried' = tried

LEMMA SendStep ==
  ASSUME IInv, NEW k \in Int, pc = "key", Send(k), Legal(k), UNCHANGED <<enabled, channel, sticky>>
  PROVE  /\ Remembered' /\ KeysTriedOnce' /\ RotationStays'
         /\ attempts' = Len(trail') /\ attempts' > 0 /\ Last'.channel = channel
<1> USE RetryAssumption DEF IInv
<1> DEFINE n == Len(trail)
<1>1. channel \in Channels /\ trail \in Seq(Attempt) /\ attempts = n /\ n \in Nat
  BY DEF TypeOK, Position
<1>2. /\ Len(trail') = n + 1
      /\ \A i \in 1..n : trail'[i] = trail[i]
      /\ trail'[n + 1] = Entry(k)
  BY <1>1 DEF Send, Entry
<1>3. attempts' = n + 1 /\ Last'.channel = channel
  BY <1>1, <1>2 DEF Send, Last, Entry
<1>4. \A c \in Channels : tried[c] \subseteq tried'[c]
  BY DEF Legal, TypeOK
<1>5. channel \in MultiKey /\ k # NoKey => k \in Nat /\ k \in tried'[channel] /\ k \notin tried[channel]
  BY <1>1 DEF Legal, TypeOK, UntriedKeys, NoKey, SingleKey
<1>6. \A i \in 1..n : trail[i] \in Attempt
  BY <1>1
<1>7. Remembered'
  <2>1. \A c \in Channels : enabled'[c] \subseteq KeysOf[c]
    BY DEF Remembered
  <2>2. ASSUME NEW i \in 1..n
        PROVE  LET t == trail'[i] IN
                 \/ t.channel \notin MultiKey /\ t.key = SingleKey
                 \/ t.channel \in MultiKey /\ t.key \in Nat /\ t.key \in tried'[t.channel]
                 \/ t.channel \in MultiKey /\ t.key = NoKey /\ i = 1
    <3>1. trail[i].channel \in Channels
      BY <1>6 DEF Attempt
    <3>2. trail'[i] = trail[i]
      BY <1>2
    <3> QED  BY <1>4, <3>1, <3>2 DEF Remembered
  <2>3. LET t == trail'[n + 1] IN
          \/ t.channel \notin MultiKey /\ t.key = SingleKey
          \/ t.channel \in MultiKey /\ t.key \in Nat /\ t.key \in tried'[t.channel]
          \/ t.channel \in MultiKey /\ t.key = NoKey /\ n + 1 = 1
    <3>1. Entry(k).channel = channel /\ Entry(k).key = k
      BY DEF Entry
    <3>2. CASE channel \notin MultiKey
      BY <1>2, <3>1, <3>2 DEF Legal
    <3>3. CASE channel \in MultiKey /\ k # NoKey
      BY <1>2, <1>5, <3>1, <3>3
    <3>4. CASE channel \in MultiKey /\ k = NoKey
      <4>1. n = 0
        BY <1>1, <3>4 DEF Legal, UntriedKeys, TypeOK, NoKey, SingleKey
      <4> QED  BY <1>2, <3>1, <3>4, <4>1
    <3> QED  BY <3>2, <3>3, <3>4
  <2>4. \A i \in 1..Len(trail') : i \in 1..n \/ i = n + 1
    BY <1>1, <1>2
  <2> QED  BY <2>1, <2>2, <2>3, <2>4 DEF Remembered
<1>8. KeysTriedOnce'
  <2> SUFFICES ASSUME NEW i \in 1..Len(trail'), NEW j \in 1..Len(trail'), i < j,
                      trail'[i].channel = trail'[j].channel, trail'[i].key # SingleKey
               PROVE  trail'[i].key # trail'[j].key
    BY DEF KeysTriedOnce
  <2>1. CASE j \in 1..n
    <3>1. i \in 1..n /\ trail'[i] = trail[i] /\ trail'[j] = trail[j]
      BY <1>1, <1>2, <2>1
    <3> QED  BY <2>1, <3>1 DEF KeysTriedOnce
  <2>2. CASE j = n + 1
    <3>1. i \in 1..n /\ trail'[i] = trail[i] /\ trail'[j] = Entry(k)
      BY <1>1, <1>2, <2>2
    <3>2. trail[i].channel = channel /\ trail'[j].key = k
      BY <3>1 DEF Entry
    <3>3. channel \in MultiKey
      BY <3>1, <3>2 DEF Remembered
    <3>4. k # NoKey
      BY <1>1, <3>1, <3>3 DEF Legal, UntriedKeys, TypeOK, SingleKey, NoKey
    <3>5. trail[i].key \in tried[channel] \/ trail[i].key = NoKey
      BY <3>1, <3>2, <3>3 DEF Remembered
    <3> QED  BY <1>5, <3>1, <3>2, <3>3, <3>4, <3>5
  <2> QED  BY <1>1, <1>2, <2>1, <2>2
<1>9. RotationStays'
  <2> SUFFICES ASSUME NEW i \in 1..Len(trail'), trail'[i].rotated
               PROVE  /\ i > 1 /\ trail'[i - 1].channel = trail'[i].channel
                      /\ trail'[i].key \in KeysOf[trail'[i].channel] \ {trail'[i - 1].key}
    BY DEF RotationStays
  <2>1. CASE i \in 1..n
    <3>1. trail'[i] = trail[i] /\ trail[i].rotated
      BY <1>2, <2>1
    <3>2. i > 1 /\ trail'[i - 1] = trail[i - 1]
      BY <1>1, <1>2, <2>1, <3>1 DEF RotationStays
    <3> QED  BY <2>1, <3>1, <3>2 DEF RotationStays
  <2>2. CASE i = n + 1
    <3>1. trail'[i] = Entry(k) /\ sticky # NoChannel
      <4>1. trail'[i] = Entry(k)
        BY <1>2, <2>2
      <4>2. Entry(k).rotated = (sticky # NoChannel)
        BY DEF Entry
      <4> QED  BY <4>1, <4>2
    <3>2. channel \in MultiKey /\ n > 0 /\ trail[n].channel = channel
      BY <1>1, <3>1 DEF Sticking, Last
    <3>3. trail'[i - 1] = trail[n] /\ n \in 1..n
      BY <1>1, <1>2, <2>2, <3>2
    <3>4. k # NoKey /\ k \in enabled[channel] \ tried[channel]
      BY <1>1, <3>2 DEF Legal, UntriedKeys, NoKey, TypeOK
    <3>5. k \in KeysOf[channel]
      BY <1>1, <3>4 DEF Remembered
    <3>6. trail[n].key \in tried[channel] \/ trail[n].key = NoKey
      BY <3>2, <3>3 DEF Remembered
    <3> QED  BY <1>1, <2>2, <3>1, <3>2, <3>3, <3>4, <3>5, <3>6 DEF Entry
  <2> QED  BY <1>1, <1>2, <2>1, <2>2
<1> QED  BY <1>1, <1>2, <1>3, <1>7, <1>8, <1>9

\* The rest of the loop's state, where nothing is sent
LEMMA QuietLoop ==
  ASSUME IInv, Quiet, Position', Sticking', UNCHANGED enabled, TypeOK'
  PROVE  IInv'
  BY QuietStep DEF IInv, Remembered

\* Whatever is picked or sent, rotated to, failed over, or disabled, the
\* request's memory and its trail still agree.
LEMMA InvStep == IInv /\ [Next]_vars => IInv'
<1> SUFFICES ASSUME IInv, [Next]_vars PROVE IInv'
  OBVIOUS
<1> USE RetryAssumption
<1> TypeOK /\ TypeOK'
  BY TypeStep DEF IInv
<1>1. CASE DistributeFromPool
  <2>1. Quiet /\ UNCHANGED <<enabled, sticky, multiKey, retry>> /\ pc = "arrive"
    BY <1>1 DEF DistributeFromPool, Quiet, cache
  <2>2. pc' \in {"key", "done"}
    BY <1>1 DEF DistributeFromPool, PickedFrom, Done
  <2> QED  BY <2>1, <2>2, QuietLoop DEF IInv, Quiet, Position, Sticking
<1>2. ASSUME NEW c \in Channels, DistributePreferred(c) PROVE IInv'
  BY <1>2, QuietLoop DEF DistributePreferred, PickedFrom, IInv, Quiet, Position, Sticking,
     cache, param
<1>3. CASE DistributeRefused \/ GiveUp
  BY <1>3, QuietLoop DEF DistributeRefused, GiveUp, Done, IInv, Quiet, Position, Sticking,
     cache, param
<1>4. CASE Rotate
  BY <1>4, QuietLoop DEF Rotate, Exhausted, PickedFrom, IInv, Quiet, Position, Sticking, Last,
     TypeOK, cache, param
<1>5. CASE PickAgain
  <2>1. Quiet /\ UNCHANGED <<enabled, sticky>> /\ pc = "top" /\ ~Exhausted /\ sticky = NoChannel
    BY <1>5 DEF PickAgain, Quiet, cache
  <2>2. pc' \in {"key", "done"} /\ retry' \in {0, retry}
    BY <1>5 DEF PickAgain, PickedFrom, Done
  <2>3. attempts < MaxAttempts /\ retry <= RetryTimes /\ 0 <= RetryTimes
    BY <2>1 DEF Exhausted, TypeOK
  <2>4. Position' /\ Sticking'
    BY <2>1, <2>2, <2>3 DEF IInv, Quiet, Position, Sticking
  <2> QED  BY <2>1, <2>4, QuietLoop
<1>6. ASSUME NEW k \in Int, pc = "key", Send(k), Legal(k),
             UNCHANGED <<enabled, channel, sticky, retry>>, multiKey' => channel \in MultiKey
      PROVE  IInv'
  <2>1. Remembered' /\ KeysTriedOnce' /\ RotationStays'
    BY <1>6, SendStep
  <2>2. Position'
    BY <1>6, SendStep DEF IInv, Send, Position, Last
  <2>3. Sticking'
    BY <1>6, SendStep DEF IInv, Send, Sticking, Last
  <2> QED  BY <2>1, <2>2, <2>3 DEF IInv
<1>7. CASE TakeMultiKey
  <2>1. PICK k \in UntriedKeys(channel) :
          Send(k) /\ tried' = [tried EXCEPT ![channel] = @ \union {k}]
    BY <1>7 DEF TakeMultiKey
  <2>2. k \in Int /\ Legal(k)
    <3>1. channel \in MultiKey /\ channel \in Channels
      BY <1>7 DEF TakeMultiKey, MultiKey
    <3> QED  BY <2>1, <3>1 DEF UntriedKeys, TypeOK, Legal
  <2> QED  BY <1>6, <1>7, <2>1, <2>2 DEF TakeMultiKey, cache
<1>8. CASE TakeSingleKey
  BY <1>6, <1>8 DEF TakeSingleKey, Legal, TypeOK, SingleKey, cache, param
<1>9. CASE KeyNotFound
  <2>1. CASE attempts = 0 /\ Send(NoKey) /\ multiKey' = FALSE
    BY <1>6, <1>9, <2>1 DEF KeyNotFound, Legal, TypeOK, NoKey, cache, param
  <2>2. CASE Done("noKey") /\ UNCHANGED <<key, attempts, trail, multiKey>>
    BY <1>9, <2>2, QuietLoop DEF KeyNotFound, Done, IInv, Quiet, Position, Sticking, cache, param
  <2> QED  BY <1>9, <2>1, <2>2 DEF KeyNotFound
<1>10. CASE Succeed
  BY <1>10, QuietLoop DEF Succeed, Done, IInv, Quiet, Position, Sticking, cache, param
<1>11. ASSUME NEW failure \in Failures, FailAndRotate(failure) PROVE IInv'
  BY <1>11, QuietLoop DEF FailAndRotate, CanRotate, IInv, Quiet, Position, Sticking, Last, cache
<1>12. ASSUME NEW failure \in Failures, FailOver(failure) PROVE IInv'
  BY <1>12, QuietLoop DEF FailOver, Done, IInv, Quiet, Position, Sticking, cache
<1>13. CASE Others
  <2>1. OnlyCache
    BY <1>13 DEF Others, Unlist, DisableSingle, DisableKey
  <2>2. \A c \in Channels : enabled'[c] \subseteq KeysOf[c]
    <3>1. CASE UNCHANGED enabled
      BY <3>1 DEF IInv, Remembered
    <3>2. ASSUME NEW c \in Channels, NEW k \in KeysOf[c], DisableKey(c, k)
          PROVE  \A d \in Channels : enabled'[d] \subseteq enabled[d]
      BY <3>2 DEF DisableKey, TypeOK
    <3> QED  BY <1>13, <3>1, <3>2 DEF Others, Unlist, DisableSingle, IInv, Remembered
  <2>3. Quiet /\ Position' /\ Sticking'
    BY <2>1 DEF OnlyCache, Quiet, IInv, Position, Sticking, Last, param
  <2> QED  BY <2>2, <2>3, QuietStep DEF IInv
<1>14. CASE UNCHANGED vars
  BY <1>14, QuietLoop DEF vars, cache, param, IInv, Quiet, Position, Sticking, Last
<1> QED
  BY <1>1, <1>2, <1>3, <1>4, <1>5, <1>7, <1>8, <1>9, <1>10, <1>11, <1>12, <1>13, <1>14
  DEF Next, Select, Answer

LEMMA Invariance == Spec => []IInv
  BY InitInv, InvStep, PTL DEF Spec

-----------------------------------------------------------------------------
(***************************************************************************)
(* What an attempt costs                                                   *)
(***************************************************************************)

Rotated == {i \in 1..Len(trail) : trail[i].rotated}

\* The request has not turned to another group, where its retries start anew
FirstGroup == Groups = 1 \/ group = 1

\* A rotation decided on and not yet made is one that is paid for
Ahead == IF sticky = NoChannel THEN 0 ELSE 1

Budget ==
  FirstGroup =>
    /\ ~resetNextTry
    /\ pc \in {"top", "key"} => attempts = retry + Cardinality(Rotated) + Ahead
    /\ pc = "sent" => attempts = retry + 1 + Cardinality(Rotated)

\* The number of rotations is a number
LEMMA RotatedFinite ==
  ASSUME TypeOK
  PROVE  IsFiniteSet(Rotated) /\ Cardinality(Rotated) \in Nat
<1>1. Len(trail) \in Nat
  BY DEF TypeOK
<1>2. IsFiniteSet(1..Len(trail)) /\ Rotated \subseteq 1..Len(trail)
  BY <1>1, FS_Interval DEF Rotated
<1> QED  BY <1>2, FS_Subset, FS_CardinalityType

\* ... which an attempt increases if it is one
LEMMA RotatedSend ==
  ASSUME TypeOK, NEW k, Send(k)
  PROVE  Cardinality(Rotated') = Cardinality(Rotated) + Ahead
<1> DEFINE n == Len(trail)
<1>1. n \in Nat /\ trail \in Seq(Attempt)
  BY DEF TypeOK
<1>2. /\ Len(trail') = n + 1
      /\ \A i \in 1..n : trail'[i] = trail[i]
      /\ trail'[n + 1] = Entry(k)
  BY <1>1 DEF Send, Entry
<1>3. trail'[n + 1].rotated = (sticky # NoChannel)
  BY <1>2 DEF Entry
<1>4. n + 1 \notin Rotated
  BY <1>1 DEF Rotated
<1>5. \A i \in 1..n + 1 : i \in 1..n \/ i = n + 1
  BY <1>1
<1>6. Rotated' = {i \in 1..n + 1 : trail'[i].rotated}
  BY <1>2 DEF Rotated
<1>7. \A i \in 1..n : i \in 1..n + 1 /\ (trail'[i].rotated <=> trail[i].rotated)
  BY <1>1, <1>2
<1>8. n + 1 \in 1..n + 1
  BY <1>1
<1>9. CASE sticky = NoChannel
  <2>1. Rotated' = Rotated
    BY <1>6, <1>7, <1>3, <1>5, <1>9 DEF Rotated
  <2> QED  BY <1>9, <2>1, RotatedFinite DEF Ahead
<1>10. CASE sticky # NoChannel
  <2>1. Rotated' = Rotated \union {n + 1}
    BY <1>6, <1>7, <1>8, <1>3, <1>5, <1>10 DEF Rotated
  <2> QED  BY <1>4, <1>10, <2>1, RotatedFinite, FS_AddElement DEF Ahead
<1> QED  BY <1>9, <1>10

\* A request turns to another group, or keeps its group and its retries
LEMMA GroupStep ==
  ASSUME TypeOK, NEW g \in Usable, NEW n, FirstGroup',
         group' = IF LastInGroup(g, n) THEN g + 1 ELSE g
  PROVE  FirstGroup /\ g = group /\ ~LastInGroup(g, n)
<1>1. g \in 1..Groups /\ g >= group /\ group >= 1 /\ group \in Nat /\ g \in Nat
  BY RetryAssumption DEF Usable, TypeOK
<1>2. CASE Groups = 1
  BY <1>1, <1>2, RetryAssumption DEF FirstGroup, LastInGroup
<1>3. CASE Groups # 1
  BY <1>1, <1>3, RetryAssumption DEF FirstGroup
<1> QED  BY <1>2, <1>3

LEMMA BudgetInit == Init => Budget
  BY FS_EmptySet DEF Init, Budget

\* Only a failover adds to the retries, and only a rotation to the rotations
LEMMA BudgetStep ==
  ASSUME IInv, IInv', Budget, [Next]_vars
  PROVE  Budget'
<1> SUFFICES ASSUME FirstGroup' PROVE Budget'
  BY DEF Budget
<1> USE RetryAssumption
<1> TypeOK /\ TypeOK'
  BY DEF IInv
<1> Cardinality(Rotated) \in Nat /\ retry \in Nat /\ attempts \in Nat
  BY RotatedFinite DEF TypeOK
<1>1. CASE DistributeFromPool
  <2>1. /\ UNCHANGED <<attempts, sticky, trail, retry, resetNextTry>>
        /\ pc = "arrive" /\ pc' \in {"key", "done"}
    BY <1>1 DEF DistributeFromPool, PickedFrom, Done
  <2>2. sticky = NoChannel /\ attempts = 0 /\ retry = 0 /\ Rotated = {} /\ Rotated' = {}
    BY <2>1 DEF IInv, Position, Sticking, Rotated
  <2>3. FirstGroup
    <3>1. CASE Usable = {}
      BY <1>1, <3>1 DEF DistributeFromPool, FirstGroup
    <3>2. CASE Usable # {}
      BY <1>1, <3>2, GroupStep DEF DistributeFromPool
    <3> QED  BY <3>1, <3>2
  <2> QED  BY <2>1, <2>2, <2>3, FS_EmptySet DEF Budget, Ahead
<1>2. ASSUME NEW c \in Channels, DistributePreferred(c) PROVE Budget'
  <2>1. /\ UNCHANGED <<attempts, sticky, trail, retry, resetNextTry, group>>
        /\ pc = "arrive" /\ pc' = "key"
    BY <1>2 DEF DistributePreferred, PickedFrom, param
  <2>2. sticky = NoChannel /\ attempts = 0 /\ retry = 0 /\ Rotated' = {}
    BY <2>1 DEF IInv, Position, Sticking, Rotated
  <2> QED  BY <2>1, <2>2, FS_EmptySet DEF Budget, Ahead, FirstGroup
<1>3. CASE DistributeRefused \/ GiveUp \/ Succeed
  BY <1>3 DEF DistributeRefused, GiveUp, Succeed, Done, Budget, FirstGroup, param
<1>4. CASE Rotate
  BY <1>4 DEF Rotate, PickedFrom, Budget, FirstGroup, Rotated, Ahead, param
<1>5. CASE PickAgain
  <2>1. UNCHANGED <<attempts, sticky, trail>> /\ pc = "top" /\ pc' \in {"key", "done"}
    BY <1>5 DEF PickAgain, PickedFrom, Done
  <2>2. CASE Usable = {}
    <3>1. pc' = "done" /\ resetNextTry' = resetNextTry /\ group' = Groups + 1
      BY <1>5, <2>2 DEF PickAgain, Done
    <3>2. Groups = 1
      BY <3>1 DEF FirstGroup
    <3> QED  BY <3>1, <3>2 DEF Budget, FirstGroup
  <2>3. CASE Usable # {}
    <3>1. PICK g \in Usable :
            /\ group' = IF LastInGroup(g, retry) THEN g + 1 ELSE g
            /\ retry' = IF LastInGroup(g, retry) \/ g > group THEN 0 ELSE retry
            /\ resetNextTry' = (resetNextTry \/ LastInGroup(g, retry))
      BY <1>5, <2>3 DEF PickAgain
    <3>2. FirstGroup /\ g = group /\ ~LastInGroup(g, retry)
      BY <3>1, GroupStep
    <3>3. retry' = retry /\ ~resetNextTry'
      BY <3>1, <3>2 DEF Budget, TypeOK
    <3> QED  BY <2>1, <3>2, <3>3 DEF Budget, Rotated, Ahead
  <2> QED  BY <2>2, <2>3
<1>6. ASSUME NEW k, pc = "key", Send(k), UNCHANGED <<retry, resetNextTry, group>>
      PROVE  Budget'
  <2>1. Cardinality(Rotated') = Cardinality(Rotated) + Ahead /\ Ahead \in Nat
    BY <1>6, RotatedSend DEF Ahead
  <2> QED  BY <1>6, <2>1 DEF Send, Budget, FirstGroup
<1>7. CASE TakeMultiKey \/ TakeSingleKey
  BY <1>6, <1>7 DEF TakeMultiKey, TakeSingleKey, param
<1>8. CASE KeyNotFound
  BY <1>6, <1>8 DEF KeyNotFound, Done, Budget, FirstGroup, param
<1>9. ASSUME NEW failure \in Failures, FailAndRotate(failure) PROVE Budget'
  <2>1. /\ UNCHANGED <<attempts, trail, retry, group>>
        /\ pc = "sent" /\ pc' = "top" /\ ~resetNextTry' /\ sticky' = channel
    BY <1>9 DEF FailAndRotate
  <2>2. channel # NoChannel
    BY <2>1 DEF TypeOK
  <2> QED  BY <2>1, <2>2 DEF Budget, FirstGroup, Rotated, Ahead
<1>10. ASSUME NEW failure \in Failures, FailOver(failure) PROVE Budget'
  <2>1. /\ UNCHANGED <<attempts, trail, group>>
        /\ pc = "sent" /\ sticky' = NoChannel
    BY <1>10 DEF FailOver
  <2>2. ~resetNextTry /\ attempts = retry + 1 + Cardinality(Rotated)
    BY <2>1 DEF Budget, FirstGroup
  <2>3. \/ pc' = "top" /\ retry' = retry + 1 /\ ~resetNextTry'
        \/ pc' = "done" /\ ~resetNextTry'
    BY <1>10, <2>2 DEF FailOver, Done
  <2> QED  BY <2>1, <2>2, <2>3 DEF Budget, Rotated, Ahead
<1>11. CASE Others \/ UNCHANGED vars
  <2>1. UNCHANGED <<pc, attempts, sticky, trail, retry, resetNextTry, group>>
    BY <1>11 DEF Others, Unlist, DisableSingle, DisableKey, OnlyCache, vars, param
  <2> QED  BY <2>1 DEF Budget, FirstGroup, Rotated, Ahead
<1> QED
  BY <1>1, <1>2, <1>3, <1>4, <1>5, <1>7, <1>8, <1>9, <1>10, <1>11 DEF Next, Select, Answer

-----------------------------------------------------------------------------
(***************************************************************************)
(* Whom the selection returns to                                           *)
(***************************************************************************)

\* A channel given up is selected only where all of its priority are
LEMMA ReturnsOnlyWhenSpent ==
  ASSUME NEW S \in SUBSET Channels, IsFiniteSet(S), NEW n, NEW cooling,
         NEW c \in Satisfied(S, n, cooling), c \in abandoned,
         NEW d \in S, Priority[d] = Priority[c]
  PROVE  d \in abandoned
<1>1. CASE Cardinality(S) = 1
  <2>1. c \in S
    BY SatisfiedMember
  <2>2. PICK x : S = {x}
    BY <1>1, FS_Singleton
  <2> QED  BY <2>1, <2>2
<1>2. CASE Cardinality(S) # 1
  <2>1. c \in Selectable(Tier(S, n), cooling)
    BY <1>2 DEF Satisfied
  <2>2. c \in Tier(S, n) /\ Tier(S, n) \ abandoned = {}
    BY <2>1 DEF Selectable
  <2>3. d \in Tier(S, n)
    BY <2>2 DEF Tier
  <2> QED  BY <2>2, <2>3
<1> QED  BY <1>1, <1>2

-----------------------------------------------------------------------------
\* The variables keep their types: in particular no channel is rotated beyond its
\* budget and no request makes more attempts than allowed.
THEOREM TypeCorrect == Spec => []TypeOK
<1>1. IInv => TypeOK
  BY DEF IInv
<1> QED  BY <1>1, Invariance, PTL

\* Relay never sends a request twice with the same key of a multi-key channel,
\* through whatever rotations, failovers and returns to a channel given up.
THEOREM KeysAreTriedOnce == Spec => []KeysTriedOnce
<1>1. IInv => KeysTriedOnce
  BY DEF IInv
<1> QED  BY <1>1, Invariance, PTL

\* An attempt Relay counts as a rotation is on the channel of the one before it,
\* with another of its keys.
THEOREM RotationsStay == Spec => []RotationStays
<1>1. IInv => RotationStays
  BY DEF IInv
<1> QED  BY <1>1, Invariance, PTL

\* A rotation takes nothing from RetryTimes: until Relay turns to another group,
\* its attempts are the retries counted and the rotations.
THEOREM RotationsCostNoRetry == Spec => []RotationsAreFree
<1>1. Spec => []Budget
  <2>1. IInv /\ IInv' /\ Budget /\ [Next]_vars => Budget'
    BY BudgetStep
  <2> QED  BY <2>1, BudgetInit, Invariance, PTL DEF Spec
<1>2. Budget => RotationsAreFree
  BY DEF Budget, FirstGroup, Rotated, RotationsAreFree
<1> QED  BY <1>1, <1>2, PTL

\* A channel the request has given up is selected again only when its group has
\* no other of that priority left, whatever is cooling or was disabled meanwhile.
THEOREM FailoverLeaves == Spec => FailsOver
<1>1. ASSUME IInv, [Next]_vars, NEW c \in abandoned,
             pc = "top", pc' = "key", sticky = NoChannel, channel' = c,
             NEW d \in Members(via'), Priority[d] = Priority[c]
      PROVE  d \in abandoned
  <2>1. PickAgain
    <3>1. ~Answer
      BY <1>1 DEF Answer, Succeed, FailAndRotate, FailOver
    <3>2. ~Others
      BY <1>1 DEF Others, Unlist, DisableSingle, DisableKey, OnlyCache
    <3>3. ~UNCHANGED vars
      BY <1>1 DEF vars
    <3>4. Select => PickAgain
      BY <1>1 DEF Select, DistributeFromPool, DistributePreferred, DistributeRefused, GiveUp,
         Done, Rotate, TakeMultiKey, TakeSingleKey, KeyNotFound
    <3> QED  BY <1>1, <3>1, <3>2, <3>3, <3>4 DEF Next
  <2>2. Usable # {}
    BY <1>1, <2>1 DEF PickAgain, Done
  <2>3. PICK g \in Usable, cooling \in SUBSET Channels :
          \E x \in Satisfied(Members(g), TierIndex(g, retry), cooling) : PickedFrom(g, x)
    BY <2>1, <2>2 DEF PickAgain
  <2>4. c \in Satisfied(Members(g), TierIndex(g, retry), cooling) /\ via' = g
    BY <1>1, <2>3 DEF PickedFrom
  <2>5. Members(g) \in SUBSET Channels /\ IsFiniteSet(Members(g))
    <3>1. Members(g) \in SUBSET Channels
      BY <1>1 DEF Members, IInv, TypeOK
    <3> QED  BY <3>1, RetryAssumption, FS_Subset
  <2>6. d \in Members(g)
    BY <1>1, <2>4
  <2> QED  BY <1>1, <2>4, <2>5, <2>6, ReturnsOnlyWhenSpent
<1>2. IInv /\ [Next]_vars => [\A c \in abandoned :
         pc = "top" /\ pc' = "key" /\ sticky = NoChannel /\ channel' = c =>
           \A d \in Members(via') : Priority[d] = Priority[c] => d \in abandoned]_vars
  BY <1>1
<1> QED  BY <1>2, Invariance, PTL DEF Spec, FailsOver
=============================================================================
