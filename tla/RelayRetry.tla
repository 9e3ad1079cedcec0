------------------------------ MODULE RelayRetry ------------------------------
(***************************************************************************)
(* The retry loop of one relayed request (Relay in controller/relay.go):   *)
(* which channel and which of its keys each attempt uses, when a failure   *)
(* rotates to another key of the same channel, when it fails over to       *)
(* another channel or group, and when the request gives up                 *)
(* (service/channel_select.go, model/channel_cache.go, model/channel.go).  *)
(*                                                                         *)
(* The channels and keys are shared: between any two steps of the request  *)
(* another one may have a key or a channel disabled.  What the circuit     *)
(* breaker says of a channel or key is arbitrary here, and asked anew at   *)
(* each selection.                                                         *)
(***************************************************************************)
EXTENDS Integers, Sequences, FiniteSets, FiniteSetsExt

CONSTANTS
  Channels,       \* the channels that serve the model
  NoChannel,      \* not a channel
  Groups,         \* number of groups tried in order: 1, or those of "auto"
  Pool,           \* the channels of each group
  Priority,       \* the priority of each channel, greater first
  KeysOf,         \* indexes of the keys of a multi-key channel, {} otherwise
  CrossGroup,     \* whether the key retries across groups
  RetryTimes,     \* failovers allowed
  MaxRotations,   \* RouteKeyRotationMaxPerChannel
  MaxAttempts,    \* RouteMaxTotalAttempts, or RetryTimes + 1 when not set
  MaxDisabled     \* bound: keys and channels disabled meanwhile

\* The index of the only key of a channel, and that of a key not found
SingleKey == -1
NoKey     == -2

ASSUME RetryAssumption ==
  /\ IsFiniteSet(Channels) /\ NoChannel \notin Channels
  /\ Groups \in Nat \ {0}
  /\ Pool \in [1..Groups -> SUBSET Channels]
  /\ Priority \in [Channels -> Int]
  /\ KeysOf \in [Channels -> SUBSET Nat]
  /\ CrossGroup \in BOOLEAN
  /\ CrossGroup => Groups > 1
  /\ RetryTimes \in Nat
  /\ MaxRotations \in Nat
  /\ MaxAttempts \in Nat \ {0}
  /\ MaxDisabled \in Nat

VARIABLES
  \* The channel cache, shared by all requests
  listed,        \* channels in the pools
  enabled,       \* enabled keys of each multi-key channel
  disabled,      \* number of disablings so far
  \* The request
  pc,            \* "arrive", "key", "sent", "top", or "done"
  channel, key,  \* the current attempt's
  multiKey,      \* context: the current channel has several keys
  mode,          \* how the first channel was found: "pool", "affinity", "pinned"
  skipRetry,     \* an affinity rule matches the request and forbids retries
  attempts,
  sticky,        \* channel whose keys are being rotated
  abandoned,     \* channels given up
  \* RetryParam
  retry, resetNextTry, tried, rotations,
  group,         \* ContextKeyAutoGroupIndex
  outcome,       \* how the request ended
  \* Auxiliary, read by no action
  via,           \* the group the current channel was picked from
  trail          \* the attempts made

cache == <<listed, enabled, disabled>>
param == <<retry, resetNextTry, tried, rotations, group>>
vars  == <<cache, pc, channel, key, multiKey, mode, skipRetry, attempts, sticky,
           abandoned, param, outcome, via, trail>>

MultiKey == {c \in Channels : KeysOf[c] # {}}

Attempt == [channel : Channels, key : Int, group : 0..Groups, rotated : BOOLEAN]

TypeOK ==
  /\ listed \in SUBSET Channels
  /\ enabled \in [Channels -> SUBSET Nat]
  /\ disabled \in 0..MaxDisabled
  /\ pc \in {"arrive", "key", "sent", "top", "done"}
  /\ channel \in Channels \union {NoChannel}
  /\ pc \in {"key", "sent"} => channel # NoChannel
  /\ key \in Nat \union {SingleKey, NoKey}
  /\ multiKey \in BOOLEAN
  /\ mode \in {"pool", "affinity", "pinned"}
  /\ skipRetry \in BOOLEAN
  /\ attempts \in 0..MaxAttempts
  /\ sticky \in Channels \union {NoChannel}
  /\ abandoned \in SUBSET Channels
  /\ retry \in 0..RetryTimes + 1
  /\ resetNextTry \in BOOLEAN
  /\ tried \in [Channels -> SUBSET Nat]
  /\ rotations \in [Channels -> 0..MaxRotations]
  /\ group \in 1..Groups + 1
  /\ outcome \in {"none", "ok", "failed", "noChannel", "noKey"}
  /\ via \in 0..Groups
  /\ trail \in Seq(Attempt)

Init ==
  /\ listed = Channels
  /\ enabled = KeysOf
  /\ disabled = 0
  /\ pc = "arrive"
  /\ channel = NoChannel
  /\ key = NoKey
  /\ multiKey = FALSE
  /\ mode = "pool"
  /\ skipRetry = FALSE
  /\ attempts = 0
  /\ sticky = NoChannel
  /\ abandoned = {}
  /\ retry = 0
  /\ resetNextTry = FALSE
  /\ tried = [c \in Channels |-> {}]
  /\ rotations = [c \in Channels |-> 0]
  /\ group = 1
  /\ outcome = "none"
  /\ via = 0
  /\ trail = << >>

Done(how) == pc' = "done" /\ outcome' = how

-----------------------------------------------------------------------------
(***************************************************************************)
(* Selection                                                               *)
(***************************************************************************)

Members(g) == Pool[g] \intersect listed

\* The channels of S in its n-th priority tier, counted from 0; beyond the last
\* tier, the last
Tier(S, n) ==
  LET Above(c) == {Priority[d] : d \in {e \in S : Priority[e] > Priority[c]}}
      last     == Cardinality({Priority[d] : d \in S}) - 1
  IN {c \in S : Cardinality(Above(c)) = IF n > last THEN last ELSE n}

\* Mutant: what this request has given up is offered again
SelectableAgain(S, cooling) == IF S \ cooling # {} THEN S \ cooling ELSE S

\* filterSelectableChannels: neither given up nor cooling, else not given up,
\* else any
Selectable(S, cooling) ==
  LET fresh == S \ abandoned IN
  CASE fresh \ cooling # {} -> fresh \ cooling
    [] fresh # {} /\ fresh \subseteq cooling -> fresh
    [] fresh = {} -> S

\* GetRandomSatisfiedChannelConstrained: an only channel is returned unfiltered
Satisfied(S, n, cooling) ==
  IF Cardinality(S) = 1 THEN S ELSE Selectable(Tier(S, n), cooling)

\* CacheGetRandomSatisfiedChannel passes over groups without a channel
Usable == {g \in group..Groups : Members(g) # {}}
FirstUsable(g) == g \in Usable /\ \A h \in Usable : g <= h

\* The tier looked for in group g: a group just entered is begun at the top
TierIndex(g, n) == IF g > group THEN 0 ELSE n

\* Whether a pick at that tier is the last in its group
LastInGroup(g, n) == CrossGroup /\ TierIndex(g, n) >= RetryTimes

PickedFrom(g, c) == channel' = c /\ via' = g /\ pc' = "key"

\* Distribute, by the pool: it has a RetryParam of its own, of which only the
\* group index in the context survives.  An affinity rule may match the request
\* although it names no channel yet.
DistributeFromPool ==
  /\ pc = "arrive"
  /\ \/ \E g \in Usable, cooling \in SUBSET Channels :
          /\ FirstUsable(g)
          /\ \E c \in Satisfied(Members(g), 0, cooling) : PickedFrom(g, c)
          /\ group' = IF LastInGroup(g, 0) THEN g + 1 ELSE g
          /\ UNCHANGED outcome
     \/ /\ Usable = {}
        /\ Done("noChannel")
        /\ group' = Groups + 1
        /\ UNCHANGED <<channel, via>>
  /\ skipRetry' \in BOOLEAN
  /\ UNCHANGED <<cache, key, multiKey, mode, attempts, sticky, abandoned,
                 retry, resetNextTry, tried, rotations, trail>>

\* The status of a channel, set before it leaves the pools
IsEnabled(c) == c \in listed /\ (c \in MultiKey => enabled[c] # {})

\* ... by channel affinity, or the channel named by the key, which is read from
\* the database.  The group index stays unset.
DistributePreferred(c) ==
  /\ pc = "arrive" /\ c \in listed
  /\ \/ /\ IsEnabled(c)
        /\ \E g \in 1..Groups : c \in Pool[g]
        /\ mode' = "affinity"
        /\ skipRetry' \in BOOLEAN
     \/ mode' = "pinned" /\ UNCHANGED skipRetry
  /\ PickedFrom(0, c)
  /\ UNCHANGED <<cache, key, multiKey, attempts, sticky, abandoned, param, outcome, trail>>

\* A channel named by the key, or preferred by a rule that forbids retries, that
\* is disabled
DistributeRefused ==
  /\ pc = "arrive" /\ \E c \in Channels : ~IsEnabled(c)
  /\ Done("noChannel")
  /\ UNCHANGED <<cache, channel, key, multiKey, mode, skipRetry, attempts, sticky,
                 abandoned, param, via, trail>>

Exhausted == retry > RetryTimes \/ attempts >= MaxAttempts

\* The loop ends with the error of the last attempt
GiveUp ==
  /\ pc = "top" /\ Exhausted
  /\ Done("failed")
  /\ UNCHANGED <<cache, channel, key, multiKey, mode, skipRetry, attempts, sticky,
                 abandoned, param, via, trail>>

\* getChannel with a sticky channel
Rotate ==
  /\ pc = "top" /\ ~Exhausted /\ sticky # NoChannel
  /\ PickedFrom(via, sticky)
  /\ UNCHANGED <<cache, key, multiKey, mode, skipRetry, attempts, sticky, abandoned,
                 param, outcome, trail>>

\* getChannel from the pools, with the retry index as the tier
PickAgain ==
  /\ pc = "top" /\ ~Exhausted /\ sticky = NoChannel
  /\ \/ \E g \in Usable, cooling \in SUBSET Channels :
          /\ FirstUsable(g)
          /\ \E c \in Satisfied(Members(g), TierIndex(g, retry), cooling) : PickedFrom(g, c)
          /\ group' = IF LastInGroup(g, retry) THEN g + 1 ELSE g
          /\ retry' = IF LastInGroup(g, retry) \/ g > group THEN 0 ELSE retry
          /\ resetNextTry' = (resetNextTry \/ LastInGroup(g, retry))
          /\ UNCHANGED outcome
     \/ /\ Usable = {}
        /\ Done("noChannel")
        /\ group' = Groups + 1
        /\ retry' = IF Groups > 1 /\ group <= Groups THEN 0 ELSE retry
        /\ UNCHANGED <<resetNextTry, channel, via>>
  /\ UNCHANGED <<cache, key, multiKey, mode, skipRetry, attempts, sticky, abandoned,
                 tried, rotations, trail>>

\* Mutant: a key of a freshly picked channel may have been tried before
EnabledUntriedWhenRotating(c) ==
  IF sticky = NoChannel THEN enabled[c] ELSE enabled[c] \ tried[c]

\* Mutant: the keys tried are not excluded
EnabledKeys(c) == enabled[c]

\* Enabled keys of c not tried by this request (GetNextEnabledKeyExcluding,
\* HasUntriedEnabledKey); of those the breaker, the mode and the polling index
\* may choose any
UntriedKeys(c) == enabled[c] \ tried[c]

\* The attempt is sent to the upstream
Send(k) ==
  /\ key' = k
  /\ attempts' = attempts + 1
  /\ trail' = Append(trail, [channel |-> channel, key |-> k, group |-> via,
                             rotated |-> sticky # NoChannel])
  /\ pc' = "sent"
  /\ UNCHANGED outcome

TakeMultiKey ==
  /\ pc = "key" /\ channel \in MultiKey
  /\ \E k \in UntriedKeys(channel) :
       /\ Send(k)
       /\ tried' = [tried EXCEPT ![channel] = @ \union {k}]
  /\ multiKey' = TRUE
  /\ UNCHANGED <<cache, channel, mode, skipRetry, sticky, abandoned, retry, resetNextTry,
                 rotations, group, via>>

TakeSingleKey ==
  /\ pc = "key" /\ channel \notin MultiKey
  /\ Send(SingleKey)
  /\ multiKey' = FALSE
  /\ UNCHANGED <<cache, channel, mode, skipRetry, sticky, abandoned, param, via>>

\* Mutant: a channel without a key is waited for
KeyNotFoundWaits ==
  /\ pc = "key" /\ channel \in MultiKey /\ UntriedKeys(channel) = {}
  /\ attempts = 0
  /\ Send(NoKey) /\ multiKey' = FALSE
  /\ UNCHANGED <<cache, channel, mode, skipRetry, sticky, abandoned, param, via>>

\* No key is left.  Distribute ignores that and the first attempt is sent
\* without one; later it ends the loop.
KeyNotFound ==
  /\ pc = "key" /\ channel \in MultiKey /\ UntriedKeys(channel) = {}
  /\ \/ attempts = 0 /\ Send(NoKey) /\ multiKey' = FALSE
     \/ attempts > 0 /\ Done("noKey") /\ UNCHANGED <<key, attempts, trail, multiKey>>
  /\ UNCHANGED <<cache, channel, mode, skipRetry, sticky, abandoned, param, via>>

-----------------------------------------------------------------------------
(***************************************************************************)
(* The upstream's answer                                                   *)
(***************************************************************************)

\* Failures by what the loop makes of them: a key-scoped status (401, 403,
\* 429), another status that is retried, an error marked as the channel's own
\* (code "channel:..."), and all that is never retried
Failures == {"key", "upstream", "channel", "final"}

Succeed ==
  /\ pc = "sent"
  /\ Done("ok")
  /\ UNCHANGED <<cache, channel, key, multiKey, mode, skipRetry, attempts, sticky,
                 abandoned, param, via, trail>>

\* Mutant: the inner budget is not checked
CanRotateUnbounded(failure) ==
  /\ failure = "key" /\ multiKey
  /\ attempts < MaxAttempts
  /\ UntriedKeys(channel) # {}

CanRotate(failure) ==
  /\ failure = "key" /\ multiKey
  /\ rotations[channel] < MaxRotations
  /\ attempts < MaxAttempts
  /\ UntriedKeys(channel) # {}

\* Mutant: a rotation costs a retry
FailAndRotateCounted(failure) ==
  /\ pc = "sent" /\ CanRotate(failure)
  /\ rotations' = [rotations EXCEPT ![channel] = @ + 1]
  /\ sticky' = channel
  /\ retry' = retry + 1
  /\ pc' = "top"
  /\ UNCHANGED <<cache, channel, key, multiKey, mode, skipRetry, attempts, abandoned,
                 resetNextTry, tried, group, outcome, via, trail>>

\* ResetRetryNextTry and continue: IncreaseRetry only clears the flag again
FailAndRotate(failure) ==
  /\ pc = "sent" /\ CanRotate(failure)
  /\ rotations' = [rotations EXCEPT ![channel] = @ + 1]
  /\ sticky' = channel
  /\ resetNextTry' = FALSE
  /\ pc' = "top"
  /\ UNCHANGED <<cache, channel, key, multiKey, mode, skipRetry, attempts, abandoned,
                 retry, tried, group, outcome, via, trail>>

ShouldRetry(failure) ==
  /\ ~skipRetry
  /\ \/ failure = "channel"
     \/ failure \in {"key", "upstream"} /\ retry < RetryTimes /\ mode # "pinned"

\* The channel is given up; shouldRetry and IncreaseRetry decide what follows
FailOver(failure) ==
  /\ pc = "sent" /\ ~CanRotate(failure)
  /\ abandoned' = abandoned \union {channel}
  /\ sticky' = NoChannel
  /\ IF ShouldRetry(failure)
     THEN /\ pc' = "top"
          /\ retry' = IF resetNextTry THEN retry ELSE retry + 1
          /\ resetNextTry' = FALSE
          /\ UNCHANGED outcome
     ELSE Done("failed") /\ UNCHANGED <<retry, resetNextTry>>
  /\ UNCHANGED <<cache, channel, key, multiKey, mode, skipRetry, attempts, tried,
                 rotations, group, via, trail>>

-----------------------------------------------------------------------------
(***************************************************************************)
(* Other requests: DisableChannel after a permanent failure                *)
(***************************************************************************)

OnlyCache ==
  UNCHANGED <<pc, channel, key, multiKey, mode, skipRetry, attempts, sticky, abandoned,
              param, outcome, via, trail>>

Disabling == disabled < MaxDisabled /\ disabled' = disabled + 1

\* handlerMultiKeyUpdate: the key's status first ...
DisableKey(c, k) ==
  /\ Disabling
  /\ k \in enabled[c]
  /\ enabled' = [enabled EXCEPT ![c] = @ \ {k}]
  /\ OnlyCache /\ UNCHANGED listed

\* ... and CacheUpdateChannelStatus when it was the channel's last one
Unlist(c) ==
  /\ c \in MultiKey \intersect listed /\ enabled[c] = {}
  /\ listed' = listed \ {c}
  /\ OnlyCache /\ UNCHANGED <<enabled, disabled>>

DisableSingle(c) ==
  /\ Disabling
  /\ c \in listed \ MultiKey
  /\ listed' = listed \ {c}
  /\ OnlyCache /\ UNCHANGED enabled

-----------------------------------------------------------------------------
Select ==
  \/ DistributeFromPool
  \/ DistributeRefused \/ \E c \in Channels : DistributePreferred(c)
  \/ GiveUp \/ Rotate \/ PickAgain
  \/ TakeMultiKey \/ TakeSingleKey \/ KeyNotFound

Answer ==
  Succeed \/ \E failure \in Failures : FailAndRotate(failure) \/ FailOver(failure)

Others ==
  \/ \E c \in Channels : Unlist(c) \/ DisableSingle(c)
  \/ \E c \in Channels : \E k \in KeysOf[c] : DisableKey(c, k)

Next == Select \/ Answer \/ Others

Spec == Init /\ [][Next]_vars

\* The handler's goroutine runs; an upstream may never answer
FairSpec == Spec /\ WF_vars(Select)

-----------------------------------------------------------------------------
(***************************************************************************)
(* Properties                                                              *)
(***************************************************************************)

\* However the request moves between rotations, failovers and channels it has
\* given up before, it never sends twice with the same key of a channel that
\* has several (an only key may be used again).
KeysTriedOnce ==
  \A i, j \in 1..Len(trail) :
    i < j /\ trail[i].channel = trail[j].channel /\ trail[i].key # SingleKey =>
      trail[i].key # trail[j].key

\* Until it turns to another group, the attempts made are the retries counted
\* and the rotations: "key rotation is free of the RetryTimes budget"
\* (relay.go:289), and nothing else is.
RotationsAreFree ==
  (Groups = 1 \/ group = 1) /\ pc = "sent" =>
    attempts = retry + 1 + Cardinality({i \in 1..Len(trail) : trail[i].rotated})

\* A rotation stays on the channel of the attempt before it, with another key.
RotationStays ==
  \A i \in 1..Len(trail) : trail[i].rotated =>
    /\ i > 1 /\ trail[i - 1].channel = trail[i].channel
    /\ trail[i].key \in KeysOf[trail[i].channel] \ {trail[i - 1].key}

\* A channel is given up for good as long as its tier has another one left:
\* selection may cool, switch groups or lose channels in between.
FailsOver ==
  [][\A c \in abandoned :
       pc = "top" /\ pc' = "key" /\ sticky = NoChannel /\ channel' = c =>
         \A d \in Members(via') : Priority[d] = Priority[c] => d \in abandoned]_vars

\* The request ends, or waits for an upstream that never answers.
EndsOrWaits == <>(pc = "done") \/ <>[](pc = "sent")

\* "If moved to a new group, reset priorityRetry" (service/channel_select.go:153):
\* the first attempt in a group is at its first priority, whatever was retried,
\* rotated or disabled before.
GroupsBeginAtTop ==
  mode = "pool" =>
    \A i \in 1..Len(trail) :
      (\A j \in 1..i - 1 : trail[j].group # trail[i].group) =>
        \A d \in Members(trail[i].group) : Priority[d] <= Priority[trail[i].channel]

=============================================================================
