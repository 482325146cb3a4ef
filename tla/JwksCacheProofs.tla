---------------------------- MODULE JwksCacheProofs ---------------------------
(***************************************************************************)
(* For any calls, keys, times and answers of the endpoint: the types, one  *)
(* fetch at a time, forced refreshes that are the interval apart, no key   *)
(* accepted later than the time to live after it was withdrawn, and none   *)
(* refused later than the interval and a fetch after it was published.     *)
(*                                                                         *)
(* Nothing in the code forbids two fetches at once: a forced refresh joins *)
(* no fetch under way.  That it meets none is a matter of time.  A fetch   *)
(* that is not forced began without a fresh set and none comes before it   *)
(* ends; a forced one was charged when it began, and ends within the       *)
(* interval.  FlightInv says so.                                           *)
(*                                                                         *)
(* That a new key is found is a matter of time as well: a call that misses *)
(* it joins or forces a fetch, unless one was charged within the interval. *)
(* RefreshInv says what the keys read since that charge are.               *)
(***************************************************************************)
EXTENDS JwksCache, SetLemmas, TLAPS

\* The fetch under way, and the calls that wait for it.
FlightInv ==
  /\ \A f \in Calls : fetch[f] # Nothing =>
       /\ inFlight = f
       /\ fetch[f].startedAt <= now
       /\ now <= fetch[f].startedAt + MaxFetch
       /\ fetch[f].forced => lastForced = fetch[f].startedAt
       /\ ~ fetch[f].forced => ~ Fresh
  /\ \A c \in Calls : call[c].phase = "waiting" =>
       /\ call[c].asOf <= now
       /\ fetch[call[c].awaits].startedAt <= call[c].asOf

\* The last forced refresh is charged, by its own time or a later one, and no
\* fetch under way began before it.
ForcedInv ==
  forcedAt # Nothing =>
    /\ forcedAt <= now
    /\ lastForced # Nothing
    /\ forcedAt <= lastForced
    /\ \A f \in Calls : fetch[f] # Nothing => forcedAt <= fetch[f].startedAt

\* Keys are kept, and held by a fetch, no longer than since they were published.
KeysInv ==
  /\ \A k \in Kids :
       /\ until[k] # Nothing => until[k] <= now
       /\ k \in published => until[k] = now
  /\ cache # Nothing =>
       \A k \in cache.keys : until[k] # Nothing /\ cache.loadedAt <= until[k]
  /\ \A f \in Calls : fetch[f] # Nothing /\ fetch[f].keys # Nothing =>
       \A k \in fetch[f].keys : until[k] # Nothing /\ fetch[f].startedAt <= until[k]

CacheInv == TypeOK /\ FlightInv /\ ForcedInv /\ KeysInv /\ OldKeysExpire

-----------------------------------------------------------------------------

\* Times are numbers, and undefined is not a time.
LEMMA TimesAreNat ==
  /\ Times \subseteq Nat /\ Nothing \notin Times /\ Nothing \notin Calls
  /\ Nothing \notin Fetch /\ Nothing \notin Cache /\ Nothing \notin KeySets
  /\ Ttl \in Nat /\ Interval \in Nat /\ MaxFetch \in Nat /\ MaxTime \in Nat
  /\ MaxFetch < Interval /\ Interval <= Ttl /\ 0 \in Times
BY TimesAssumption, NothingAssumption DEF Times

\* The latest of some times is one of them.
LEMMA MaxOfTimes ==
  ASSUME NEW S \in SUBSET Times, S # {}
  PROVE  Max(S) \in S /\ \A t \in S : t <= Max(S)
<1>1. S \in SUBSET Int /\ MaxTime \in Int /\ \A t \in S : t <= MaxTime
  BY TimesAreNat DEF Times
<1>2. Max(S) \in S /\ \A t \in S : Max(S) >= t
  BY <1>1, MaxOfBounded
<1>3. Max(S) \in Int
  BY <1>1, <1>2
<1> QED
  BY <1>1, <1>2, <1>3

LEMMA InitInv == Init => CacheInv
<1> SUFFICES ASSUME Init PROVE CacheInv
  OBVIOUS
<1>1. PICK k \in Kids :
        call = [c \in Calls |-> [phase |-> "idle", kid |-> k, asOf |-> 0, awaits |-> Nothing]]
  BY DEF Init
<1>2. /\ call \in [Calls -> Call]
      /\ \A c \in Calls : call[c].phase = "idle"
  BY <1>1, TimesAreNat DEF Call
<1>3. /\ since \in [Kids -> Times \cup {Nothing}]
      /\ \A x \in Kids : /\ until[x] # Nothing => until[x] <= now
                         /\ x \in published => until[x] = now
  BY TimesAreNat DEF Init
<1>4. TypeOK
  BY <1>2, <1>3, TimesAreNat DEF Init, TypeOK
<1>5. FlightInv /\ ForcedInv /\ KeysInv /\ OldKeysExpire
  BY <1>2, <1>3 DEF Init, FlightInv, ForcedInv, KeysInv, OldKeysExpire
<1> QED
  BY <1>4, <1>5 DEF CacheInv

-----------------------------------------------------------------------------
(* The clock and the endpoint. *)

\* That keys are published for longer makes no key older.
LEMMA LaterUntil ==
  ASSUME CacheInv, TypeOK', UNCHANGED <<cache, call, fetch>>,
         \A k \in Kids : until[k] # Nothing =>
                           until'[k] # Nothing /\ until[k] <= until'[k]
  PROVE  /\ cache # Nothing =>
              \A k \in cache.keys : until'[k] # Nothing /\ cache.loadedAt <= until'[k]
         /\ \A f \in Calls : fetch[f] # Nothing /\ fetch[f].keys # Nothing =>
              \A k \in fetch[f].keys :
                until'[k] # Nothing /\ fetch[f].startedAt <= until'[k]
         /\ OldKeysExpire'
<1>1. /\ until \in [Kids -> Times \cup {Nothing}]
      /\ until' \in [Kids -> Times \cup {Nothing}]
  BY DEF CacheInv, TypeOK
<1>2. \A k \in Kids : until[k] # Nothing =>
        /\ until[k] \in Nat /\ until'[k] \in Nat
        /\ until'[k] # Nothing /\ until[k] <= until'[k]
  BY <1>1, TimesAreNat
<1>3. ASSUME cache # Nothing, NEW k \in cache.keys
      PROVE  until'[k] # Nothing /\ cache.loadedAt <= until'[k]
  <2>1. k \in Kids /\ cache.loadedAt \in Nat
    BY <1>3, TimesAreNat DEF CacheInv, TypeOK, Cache, KeySets
  <2>2. until[k] # Nothing /\ cache.loadedAt <= until[k]
    BY <1>3 DEF CacheInv, KeysInv
  <2> QED
    BY <1>2, <2>1, <2>2
<1>4. ASSUME NEW f \in Calls, fetch[f] # Nothing, fetch[f].keys # Nothing,
             NEW k \in fetch[f].keys
      PROVE  until'[k] # Nothing /\ fetch[f].startedAt <= until'[k]
  <2>1. k \in Kids /\ fetch[f].startedAt \in Nat
    BY <1>4, TimesAreNat DEF CacheInv, TypeOK, Fetch, KeySets
  <2>2. until[k] # Nothing /\ fetch[f].startedAt <= until[k]
    BY <1>4 DEF CacheInv, KeysInv
  <2> QED
    BY <1>2, <2>1, <2>2
<1>5. ASSUME NEW c \in Calls, call[c].phase = "found"
      PROVE  /\ until'[call[c].kid] # Nothing
             /\ call[c].asOf < until'[call[c].kid] + Ttl
  <2>1. call[c].kid \in Kids /\ call[c].asOf \in Nat
    BY TimesAreNat DEF CacheInv, TypeOK, Call
  <2>2. until[call[c].kid] # Nothing /\ call[c].asOf < until[call[c].kid] + Ttl
    BY <1>5 DEF CacheInv, OldKeysExpire
  <2> QED
    BY <1>2, <2>1, <2>2, TimesAreNat
<1>6. OldKeysExpire'
  BY <1>5 DEF OldKeysExpire
<1> QED
  BY <1>3, <1>4, <1>6

LEMMA TickInv == ASSUME CacheInv, Tick PROVE CacheInv'
<1>1. /\ now \in Nat /\ now + 1 \in Times /\ now' = now + 1
      /\ UNCHANGED <<published, cache, lastForced, inFlight, call, fetch, since,
                     lastFailed, forcedAt>>
  BY TimesAreNat DEF CacheInv, TypeOK, Tick, Times
<1>2. /\ until' = [k \in Kids |-> IF k \in published THEN now + 1 ELSE until[k]]
      /\ until \in [Kids -> Times \cup {Nothing}]
  BY DEF Tick, CacheInv, TypeOK
<1>3. TypeOK'
  BY <1>1, <1>2 DEF CacheInv, TypeOK
<1>4. \A k \in Kids : /\ until[k] # Nothing => until'[k] # Nothing /\ until[k] <= until'[k]
                      /\ until'[k] # Nothing => until'[k] <= now'
                      /\ k \in published => until'[k] = now'
  <2>1. \A k \in Kids : until[k] # Nothing => until[k] \in Nat /\ until[k] <= now
    BY <1>2, TimesAreNat DEF CacheInv, KeysInv
  <2>2. now + 1 # Nothing /\ now + 1 \in Nat
    BY <1>1, TimesAreNat
  <2> QED
    BY <1>1, <1>2, <2>1, <2>2
<1>5. FlightInv'
  <2>1. ASSUME NEW f \in Calls, fetch[f] # Nothing
        PROVE  /\ fetch[f].startedAt <= now' /\ now' <= fetch[f].startedAt + MaxFetch
               /\ ~ fetch[f].forced => ~ Fresh'
    <3>1. /\ fetch[f].startedAt \in Nat /\ fetch[f].startedAt <= now
          /\ now < fetch[f].startedAt + MaxFetch
      BY <2>1, TimesAreNat DEF CacheInv, TypeOK, FlightInv, Fetch, Tick, Open
    <3>2. cache # Nothing => cache.loadedAt \in Nat
      BY TimesAreNat DEF CacheInv, TypeOK, Cache
    <3>3. ~ Fresh => ~ Fresh'
      BY <1>1, <3>2, TimesAreNat DEF Fresh
    <3> QED
      BY <1>1, <2>1, <3>1, <3>3, TimesAreNat DEF CacheInv, FlightInv
  <2>2. ASSUME NEW c \in Calls, call[c].phase = "waiting"
        PROVE  call[c].asOf <= now'
    <3>1. call[c].asOf \in Times
      BY DEF CacheInv, TypeOK, Call
    <3>2. call[c].asOf <= now
      BY <2>2 DEF CacheInv, FlightInv
    <3>3. call[c].asOf \in Nat
      BY <3>1, TimesAreNat
    <3> QED
      BY <1>1, <3>2, <3>3
  <2> QED
    BY <1>1, <2>1, <2>2 DEF CacheInv, FlightInv
<1>6. ForcedInv'
  <2>1. forcedAt # Nothing => forcedAt \in Nat /\ forcedAt <= now
    BY TimesAreNat DEF CacheInv, TypeOK, ForcedInv
  <2> QED
    BY <1>1, <2>1 DEF CacheInv, ForcedInv
<1>7. KeysInv' /\ OldKeysExpire'
  BY <1>1, <1>3, <1>4, LaterUntil DEF KeysInv
<1> QED
  BY <1>3, <1>5, <1>6, <1>7 DEF CacheInv

LEMMA RotateInv ==
  ASSUME CacheInv, NEW keys \in KeySets, Rotate(keys) PROVE CacheInv'
<1>1. /\ now \in Nat /\ now \in Times /\ published' = keys
      /\ UNCHANGED <<now, cache, lastForced, inFlight, call, fetch, lastFailed,
                     forcedAt>>
  BY TimesAreNat DEF CacheInv, TypeOK, Rotate
<1>2. /\ until' = [k \in Kids |-> IF k \in keys THEN now ELSE until[k]]
      /\ until \in [Kids -> Times \cup {Nothing}]
      /\ since' \in [Kids -> Times \cup {Nothing}]
  BY DEF Rotate, CacheInv, TypeOK
<1>3. TypeOK'
  BY <1>1, <1>2 DEF CacheInv, TypeOK
<1>4. \A k \in Kids : /\ until[k] # Nothing => until'[k] # Nothing /\ until[k] <= until'[k]
                      /\ until'[k] # Nothing => until'[k] <= now'
                      /\ k \in published' => until'[k] = now'
  <2>1. \A k \in Kids : until[k] # Nothing => until[k] \in Nat /\ until[k] <= now
    BY <1>2, TimesAreNat DEF CacheInv, KeysInv
  <2>2. now # Nothing
    BY <1>1, TimesAreNat
  <2> QED
    BY <1>1, <1>2, <2>1, <2>2
<1>5. FlightInv' /\ ForcedInv'
  BY <1>1 DEF CacheInv, FlightInv, ForcedInv, Fresh
<1>6. KeysInv' /\ OldKeysExpire'
  BY <1>1, <1>3, <1>4, LaterUntil DEF KeysInv
<1> QED
  BY <1>3, <1>5, <1>6 DEF CacheInv

LEMMA ServeInv == ASSUME CacheInv, NEW f \in Calls, Serve(f) PROVE CacheInv'
<1>1. /\ UNCHANGED <<now, published, cache, lastForced, inFlight, call, since, until,
                     lastFailed, forcedAt>>
      /\ fetch[f] # Nothing /\ fetch \in [Calls -> Fetch \cup {Nothing}]
      /\ fetch' = [fetch EXCEPT ![f].keys = published]
      /\ published \in KeySets
  BY DEF Serve, history, CacheInv, TypeOK
<1>2. fetch[f] \in Fetch
  BY <1>1
<1>3. /\ fetch'[f] = [fetch[f] EXCEPT !.keys = published]
      /\ \A g \in Calls : g # f => fetch'[g] = fetch[g]
  BY <1>1
<1>4. /\ fetch'[f] \in Fetch /\ fetch'[f] # Nothing
      /\ fetch'[f].startedAt = fetch[f].startedAt
      /\ fetch'[f].forced = fetch[f].forced /\ fetch'[f].keys = published
  BY <1>1, <1>2, <1>3, TimesAreNat DEF Fetch
<1>5. fetch' \in [Calls -> Fetch \cup {Nothing}]
  BY <1>1, <1>3, <1>4
<1>6. \A g \in Calls : /\ fetch'[g] # Nothing <=> fetch[g] # Nothing
                       /\ fetch'[g].startedAt = fetch[g].startedAt
                       /\ fetch'[g].forced = fetch[g].forced
  BY <1>1, <1>3, <1>4
<1>7. TypeOK'
  <2>1. inFlight' # Nothing => fetch'[inFlight'] # Nothing
    BY <1>1, <1>6 DEF CacheInv, TypeOK
  <2>2. ASSUME NEW c \in Calls, call[c].phase = "waiting"
        PROVE  call[c].awaits # Nothing /\ fetch'[call[c].awaits] # Nothing
    BY <1>1, <1>6, <2>2 DEF CacheInv, TypeOK, Call
  <2> QED
    BY <1>1, <1>5, <2>1, <2>2 DEF CacheInv, TypeOK
<1>8. FlightInv'
  <2>1. ASSUME NEW c \in Calls, call[c].phase = "waiting"
        PROVE  call[c].awaits \in Calls
    BY <2>1 DEF CacheInv, TypeOK, Call
  <2> QED
    BY <1>1, <1>6, <2>1 DEF CacheInv, FlightInv, Fresh
<1>9. ForcedInv'
  BY <1>1, <1>6 DEF CacheInv, ForcedInv
<1>10. KeysInv'
  <2>1. \A k \in published : k \in Kids /\ until[k] = now /\ now # Nothing
    BY <1>1, TimesAreNat DEF CacheInv, KeysInv, KeySets, TypeOK
  <2>2. fetch[f].startedAt <= now
    BY <1>1 DEF CacheInv, FlightInv
  <2>3. \A k \in fetch'[f].keys : until[k] # Nothing /\ fetch'[f].startedAt <= until[k]
    BY <1>4, <2>1, <2>2
  <2>4. \A g \in Calls : fetch'[g] # Nothing /\ fetch'[g].keys # Nothing =>
          \A k \in fetch'[g].keys : until[k] # Nothing /\ fetch'[g].startedAt <= until[k]
    BY <1>3, <2>3 DEF CacheInv, KeysInv
  <2> QED
    BY <1>1, <2>4 DEF CacheInv, KeysInv
<1>11. OldKeysExpire'
  BY <1>1 DEF CacheInv, OldKeysExpire
<1> QED
  BY <1>7, <1>8, <1>9, <1>10, <1>11 DEF CacheInv

-----------------------------------------------------------------------------
(* A call comes. *)

\* What a call is, as it comes.
LEMMA ComeGives ==
  ASSUME CacheInv, NEW c \in Calls, NEW kid \in Kids,
         NEW phase \in {"waiting", "refused", "found"},
         NEW awaits \in Calls \cup {Nothing}, Come(c, kid, phase, awaits)
  PROVE  /\ call' \in [Calls -> Call]
         /\ call'[c] = [phase |-> phase, kid |-> kid, asOf |-> now, awaits |-> awaits]
         /\ \A d \in Calls : d # c => call'[d] = call[d]
BY DEF Come, CacheInv, TypeOK, Call

\* A fetch begun while none is under way is the only one.
LEMMA StartGives ==
  ASSUME CacheInv, NEW c \in Calls, NEW forced \in BOOLEAN, inFlight = Nothing,
         StartFetch(c, forced)
  PROVE  /\ fetch' \in [Calls -> Fetch \cup {Nothing}]
         /\ inFlight' = c
         /\ fetch'[c] = [startedAt |-> now, forced |-> forced, keys |-> Nothing]
         /\ fetch'[c] # Nothing
         /\ \A f \in Calls : f # c => fetch'[f] = Nothing
         /\ \A d \in Calls : call[d].phase # "waiting"
<1>1. [startedAt |-> now, forced |-> forced, keys |-> Nothing] \in Fetch
  BY DEF CacheInv, TypeOK, Fetch
<1>2. /\ inFlight' = c /\ fetch \in [Calls -> Fetch \cup {Nothing}]
      /\ fetch' = [fetch EXCEPT ![c] = [startedAt |-> now, forced |-> forced,
                                        keys |-> Nothing]]
  BY DEF StartFetch, CacheInv, TypeOK
<1>3. \A f \in Calls : fetch[f] = Nothing
  BY TimesAreNat DEF CacheInv, FlightInv
<1>4. \A d \in Calls : call[d].phase # "waiting"
  BY <1>3 DEF CacheInv, TypeOK, Call
<1> QED
  BY <1>1, <1>2, <1>3, <1>4, TimesAreNat

LEMMA AwaitKeysInv ==
  ASSUME CacheInv, NEW c \in Calls, NEW kid \in Kids, AwaitKeys(c, kid)
  PROVE  CacheInv'
<1>1. /\ UNCHANGED <<now, published, cache, lastForced, since, until, lastFailed, forcedAt>>
      /\ ~ Fresh /\ now \in Nat
  BY TimesAreNat DEF AwaitKeys, history, CacheInv, TypeOK
<1>2. ~ Fresh'
  BY <1>1 DEF Fresh
<1>3. CASE inFlight = Nothing
  <2>1. Come(c, kid, "waiting", c) /\ StartFetch(c, FALSE)
    BY <1>3 DEF AwaitKeys
  <2>2. /\ call' \in [Calls -> Call]
        /\ call'[c] = [phase |-> "waiting", kid |-> kid, asOf |-> now, awaits |-> c]
        /\ \A d \in Calls : d # c => call'[d] = call[d]
    BY <2>1, ComeGives
  <2>3. /\ fetch' \in [Calls -> Fetch \cup {Nothing}]
        /\ inFlight' = c
        /\ fetch'[c] = [startedAt |-> now, forced |-> FALSE, keys |-> Nothing]
        /\ fetch'[c] # Nothing
        /\ \A f \in Calls : f # c => fetch'[f] = Nothing
        /\ \A d \in Calls : call[d].phase # "waiting"
    BY <1>3, <2>1, StartGives
  <2>4. TypeOK'
    BY <1>1, <2>2, <2>3, TimesAreNat DEF CacheInv, TypeOK
  <2>5. FlightInv'
    BY <1>1, <1>2, <2>2, <2>3, TimesAreNat DEF FlightInv
  <2>6. ForcedInv' /\ KeysInv'
    BY <1>1, <2>3 DEF CacheInv, ForcedInv, KeysInv
  <2>7. OldKeysExpire'
    BY <1>1, <2>2 DEF CacheInv, OldKeysExpire
  <2> QED
    BY <2>4, <2>5, <2>6, <2>7 DEF CacheInv
<1>4. CASE inFlight # Nothing
  <2>1. /\ Come(c, kid, "waiting", inFlight) /\ UNCHANGED <<fetch, inFlight>>
        /\ inFlight \in Calls /\ fetch[inFlight] # Nothing
    BY <1>4 DEF AwaitKeys, CacheInv, TypeOK
  <2>2. /\ call' \in [Calls -> Call]
        /\ call'[c] = [phase |-> "waiting", kid |-> kid, asOf |-> now,
                       awaits |-> inFlight]
        /\ \A d \in Calls : d # c => call'[d] = call[d]
    BY <2>1, ComeGives
  <2>3. TypeOK'
    BY <1>1, <1>4, <2>1, <2>2 DEF CacheInv, TypeOK
  <2>4. \A d \in Calls : call'[d].phase = "waiting" =>
          /\ call'[d].asOf <= now
          /\ fetch[call'[d].awaits].startedAt <= call'[d].asOf
    BY <1>1, <2>1, <2>2 DEF CacheInv, FlightInv
  <2>5. FlightInv'
    BY <1>1, <1>2, <2>1, <2>4 DEF CacheInv, FlightInv
  <2>6. ForcedInv' /\ KeysInv'
    BY <1>1, <2>1 DEF CacheInv, ForcedInv, KeysInv
  <2>7. OldKeysExpire'
    BY <1>1, <2>2 DEF CacheInv, OldKeysExpire
  <2> QED
    BY <2>3, <2>5, <2>6, <2>7 DEF CacheInv
<1> QED
  BY <1>3, <1>4

LEMMA LookUpInv ==
  ASSUME CacheInv, NEW c \in Calls, NEW kid \in Kids, LookUp(c, kid)
  PROVE  CacheInv'
<1>1. /\ UNCHANGED <<now, published, cache, lastForced, inFlight, fetch, since, until,
                     lastFailed, forcedAt>>
      /\ Fresh
  BY DEF LookUp, history
<1>2. PICK phase \in {"refused", "found"} :
        Come(c, kid, phase, Nothing) /\ (phase = "found" => kid \in cache.keys)
  BY DEF LookUp
<1>3. /\ call' \in [Calls -> Call]
      /\ call'[c] = [phase |-> phase, kid |-> kid, asOf |-> now, awaits |-> Nothing]
      /\ \A d \in Calls : d # c => call'[d] = call[d]
  BY <1>2, ComeGives
<1>4. TypeOK' /\ FlightInv' /\ ForcedInv' /\ KeysInv'
  BY <1>1, <1>3 DEF CacheInv, TypeOK, FlightInv, ForcedInv, KeysInv, Fresh
<1>5. phase = "found" => until[kid] # Nothing /\ now < until[kid] + Ttl
  <2>1. cache.loadedAt \in Nat /\ cache # Nothing /\ now < cache.loadedAt + Ttl /\ now \in Nat
    BY <1>1, TimesAreNat DEF CacheInv, TypeOK, Cache, Fresh
  <2>2. phase = "found" => until[kid] # Nothing /\ cache.loadedAt <= until[kid]
    BY <1>2, <2>1 DEF CacheInv, KeysInv
  <2>3. until[kid] \in Times \cup {Nothing}
    BY DEF CacheInv, TypeOK
  <2>4. until[kid] # Nothing => until[kid] \in Nat
    BY <2>3, TimesAreNat
  <2>5. Ttl \in Nat
    BY TimesAreNat
  <2> QED
    BY <2>1, <2>2, <2>4, <2>5
<1>6. OldKeysExpire'
  BY <1>1, <1>3, <1>5 DEF CacheInv, OldKeysExpire
<1> QED
  BY <1>4, <1>6 DEF CacheInv

\* No forced refresh meets another fetch.
LEMMA ForcedIsAlone ==
  ASSUME CacheInv, Fresh, ~ Limited
  PROVE  inFlight = Nothing
<1> SUFFICES ASSUME inFlight # Nothing PROVE FALSE
  OBVIOUS
<1> DEFINE f == inFlight
<1>1. f \in Calls /\ fetch[f] # Nothing /\ fetch[f] \in Fetch
  BY DEF CacheInv, TypeOK
<1>2. /\ fetch[f].forced \in BOOLEAN /\ fetch[f].startedAt \in Nat /\ now \in Nat
  BY <1>1, TimesAreNat DEF Fetch, CacheInv, TypeOK
<1>3. /\ fetch[f].forced /\ lastForced = fetch[f].startedAt
      /\ now <= fetch[f].startedAt + MaxFetch
  BY <1>1, <1>2 DEF CacheInv, FlightInv
<1>4. lastForced # Nothing
  <2>1. Nothing \notin Nat
    BY NothingAssumption
  <2> QED
    BY <1>2, <1>3, <2>1
<1>5. Interval \in Nat /\ MaxFetch \in Nat /\ MaxFetch < Interval
  BY TimesAreNat
<1>6. now < lastForced + Interval
  BY <1>2, <1>3, <1>5
<1> QED
  BY <1>4, <1>6 DEF Limited

LEMMA ForceRefreshInv ==
  ASSUME CacheInv, NEW c \in Calls, NEW kid \in Kids, ForceRefresh(c, kid)
  PROVE  CacheInv'
<1>1. /\ UNCHANGED <<now, published, cache, since, until, lastFailed>>
      /\ lastForced' = now /\ forcedAt' = now
      /\ now \in Times /\ now \in Nat /\ now # Nothing
  BY TimesAreNat DEF ForceRefresh, CacheInv, TypeOK
<1>2. Come(c, kid, "waiting", c) /\ StartFetch(c, TRUE) /\ inFlight = Nothing
  BY ForcedIsAlone DEF ForceRefresh
<1>3. /\ call' \in [Calls -> Call]
      /\ call'[c] = [phase |-> "waiting", kid |-> kid, asOf |-> now, awaits |-> c]
      /\ \A d \in Calls : d # c => call'[d] = call[d]
  BY <1>2, ComeGives
<1>4. /\ fetch' \in [Calls -> Fetch \cup {Nothing}]
      /\ inFlight' = c
      /\ fetch'[c] = [startedAt |-> now, forced |-> TRUE, keys |-> Nothing]
      /\ fetch'[c] # Nothing
      /\ \A f \in Calls : f # c => fetch'[f] = Nothing
      /\ \A d \in Calls : call[d].phase # "waiting"
  BY <1>2, StartGives
<1>5. TypeOK'
  BY <1>1, <1>3, <1>4, TimesAreNat DEF CacheInv, TypeOK
<1>6. FlightInv'
  BY <1>1, <1>3, <1>4, TimesAreNat DEF FlightInv
<1>7. ForcedInv'
  BY <1>1, <1>4 DEF ForcedInv
<1>8. KeysInv'
  BY <1>1, <1>4 DEF CacheInv, KeysInv
<1>9. OldKeysExpire'
  BY <1>1, <1>3 DEF CacheInv, OldKeysExpire
<1> QED
  BY <1>5, <1>6, <1>7, <1>8, <1>9 DEF CacheInv

-----------------------------------------------------------------------------
(* A fetch settles. *)

\* No fetch and no waiting call is left, and who is told that its key is there
\* asked for one of the keys.
LEMMA SettleGives ==
  ASSUME CacheInv, NEW f \in Calls, fetch[f] # Nothing, NEW keys,
         Answered(f, keys), Settled(f)
  PROVE  /\ inFlight' = Nothing
         /\ fetch' \in [Calls -> Fetch \cup {Nothing}]
         /\ \A g \in Calls : fetch'[g] = Nothing
         /\ call' \in [Calls -> Call]
         /\ \A c \in Calls : call'[c].phase # "waiting"
         /\ \A c \in Calls : call'[c].phase = "found" =>
              \/ call'[c] = call[c]
              \/ /\ c \in Waiting(f) /\ call[c].kid \in keys
                 /\ call'[c].kid = call[c].kid /\ call'[c].asOf = call[c].asOf
<1>1. /\ fetch \in [Calls -> Fetch \cup {Nothing}] /\ inFlight = f
      /\ \A g \in Calls : g # f => fetch[g] = Nothing
  BY DEF CacheInv, TypeOK, FlightInv
<1>2. /\ inFlight' = Nothing
      /\ fetch' \in [Calls -> Fetch \cup {Nothing}]
      /\ \A g \in Calls : fetch'[g] = Nothing
  BY <1>1 DEF Settled
<1>3. call \in [Calls -> Call]
      /\ \A c \in Calls : call[c].phase = "waiting" => c \in Waiting(f)
  BY <1>1 DEF CacheInv, TypeOK, Call, Waiting
<1>4. \A c \in Calls :
        /\ c \notin Waiting(f) => call'[c] = call[c]
        /\ c \in Waiting(f) =>
             call'[c] = [call[c] EXCEPT
                           !.phase = IF call[c].kid \in keys THEN "found" ELSE "refused",
                           !.awaits = Nothing]
  BY DEF Answered
<1>5. ASSUME NEW c \in Waiting(f)
      PROVE  /\ call'[c] \in Call
             /\ call'[c].phase # "waiting"
             /\ call'[c].phase = "found" => call[c].kid \in keys
             /\ call'[c].kid = call[c].kid /\ call'[c].asOf = call[c].asOf
  <2>1. c \in Calls /\ call[c] \in Call
    BY <1>3 DEF Waiting
  <2> QED
    BY <1>4, <2>1 DEF Call
<1>6. call' \in [Calls -> Call]
  <2>1. call' = [c \in Calls |-> call'[c]]
    BY DEF Answered
  <2> QED
    BY <1>3, <1>4, <1>5, <2>1
<1> QED
  BY <1>2, <1>3, <1>4, <1>5, <1>6

\* A fetch ends before the time to live of what it brings.
LEMMA WaitingIsRecent ==
  ASSUME CacheInv, NEW f \in Calls, fetch[f] # Nothing, NEW c \in Waiting(f)
  PROVE  /\ c \in Calls /\ call[c].kid \in Kids
         /\ fetch[f].startedAt \in Nat /\ call[c].asOf \in Times
         /\ fetch[f].startedAt <= call[c].asOf /\ call[c].asOf <= now
         /\ call[c].asOf < fetch[f].startedAt + Ttl
<1>1. /\ c \in Calls /\ call[c].phase = "waiting" /\ call[c].awaits = f
      /\ call[c] \in Call /\ fetch[f] \in Fetch
  BY DEF Waiting, CacheInv, TypeOK
<1>2. /\ call[c].kid \in Kids /\ call[c].asOf \in Times /\ call[c].asOf \in Nat
      /\ fetch[f].startedAt \in Nat /\ now \in Nat
  BY <1>1, TimesAreNat DEF Call, Fetch, CacheInv, TypeOK
<1>3. /\ fetch[f].startedAt <= call[c].asOf /\ call[c].asOf <= now
      /\ now <= fetch[f].startedAt + MaxFetch
  BY <1>1 DEF CacheInv, FlightInv
<1> QED
  BY <1>1, <1>2, <1>3, TimesAreNat

LEMMA LoadInv == ASSUME CacheInv, NEW f \in Calls, Load(f) PROVE CacheInv'
<1>1. /\ UNCHANGED <<now, published, since, until, lastFailed, forcedAt>>
      /\ fetch[f] # Nothing /\ fetch[f].keys # Nothing
      /\ cache' = [loadedAt |-> fetch[f].startedAt, keys |-> fetch[f].keys]
      /\ Answered(f, fetch[f].keys) /\ Settled(f)
  BY DEF Load, history
<1>2. fetch[f] \in Fetch /\ fetch[f].startedAt \in Times /\ fetch[f].keys \in KeySets
  BY <1>1 DEF CacheInv, TypeOK, Fetch
<1>3. /\ inFlight' = Nothing
      /\ fetch' \in [Calls -> Fetch \cup {Nothing}]
      /\ \A g \in Calls : fetch'[g] = Nothing
      /\ call' \in [Calls -> Call]
      /\ \A c \in Calls : call'[c].phase # "waiting"
      /\ \A c \in Calls : call'[c].phase = "found" =>
           \/ call'[c] = call[c]
           \/ /\ c \in Waiting(f) /\ call[c].kid \in fetch[f].keys
              /\ call'[c].kid = call[c].kid /\ call'[c].asOf = call[c].asOf
  BY <1>1, SettleGives
<1>4. \/ lastForced' = lastForced
      \/ lastForced' \in Times /\ fetch[f].startedAt <= lastForced'
  <2> DEFINE S == {call[c].asOf : c \in Charged(f)}
  <2>1. Charged(f) = {} => lastForced' = lastForced
    BY DEF Load
  <2>2. Charged(f) # {} => lastForced' = Max(S)
    BY DEF Load
  <2>3. S \in SUBSET Times /\ \A t \in S : fetch[f].startedAt <= t
    BY <1>1, WaitingIsRecent DEF Charged
  <2>4. Charged(f) # {} => S # {}
    OBVIOUS
  <2> HIDE DEF S
  <2>5. Charged(f) # {} => Max(S) \in S
    BY <2>3, <2>4, MaxOfTimes
  <2> QED
    BY <2>1, <2>2, <2>3, <2>5
<1>5. TypeOK'
  BY <1>1, <1>2, <1>3, <1>4 DEF CacheInv, TypeOK, Cache
<1>6. FlightInv'
  BY <1>3 DEF FlightInv
<1>7. ForcedInv'
  <2>1. forcedAt # Nothing => /\ forcedAt <= now /\ lastForced # Nothing
                              /\ forcedAt <= lastForced /\ forcedAt <= fetch[f].startedAt
    BY <1>1 DEF CacheInv, ForcedInv
  <2>2. /\ forcedAt # Nothing => forcedAt \in Nat
        /\ fetch[f].startedAt \in Nat
    BY <1>2, TimesAreNat DEF CacheInv, TypeOK
  <2>3. forcedAt # Nothing => lastForced' # Nothing /\ forcedAt <= lastForced'
    <3>1. CASE lastForced' = lastForced
      BY <2>1, <3>1
    <3>2. CASE lastForced' \in Times /\ fetch[f].startedAt <= lastForced'
      <4>1. lastForced' \in Nat /\ lastForced' # Nothing
        BY <3>2, TimesAreNat
      <4> QED
        BY <2>1, <2>2, <3>2, <4>1
    <3> QED
      BY <1>4, <3>1, <3>2
  <2> QED
    BY <1>1, <1>3, <2>1, <2>3 DEF ForcedInv
<1>8. KeysInv'
  <2>1. \A k \in fetch[f].keys : until[k] # Nothing /\ fetch[f].startedAt <= until[k]
    BY <1>1 DEF CacheInv, KeysInv
  <2> QED
    BY <1>1, <1>3, <2>1 DEF CacheInv, KeysInv
<1>9. ASSUME NEW c \in Calls, call'[c].phase = "found"
      PROVE  /\ until[call'[c].kid] # Nothing
             /\ call'[c].asOf < until[call'[c].kid] + Ttl
  <2>1. CASE call'[c] = call[c]
    BY <1>9, <2>1 DEF CacheInv, OldKeysExpire
  <2>2. CASE /\ c \in Waiting(f) /\ call[c].kid \in fetch[f].keys
             /\ call'[c].kid = call[c].kid /\ call'[c].asOf = call[c].asOf
    <3>1. /\ call[c].kid \in Kids /\ fetch[f].startedAt \in Nat /\ call[c].asOf \in Nat
          /\ call[c].asOf < fetch[f].startedAt + Ttl
      BY <1>1, <2>2, WaitingIsRecent, TimesAreNat
    <3>2. until[call[c].kid] # Nothing /\ fetch[f].startedAt <= until[call[c].kid]
      BY <1>1, <2>2 DEF CacheInv, KeysInv
    <3>3. until[call[c].kid] \in Times \cup {Nothing}
      BY <3>1 DEF CacheInv, TypeOK
    <3>4. until[call[c].kid] \in Nat /\ Ttl \in Nat
      BY <3>2, <3>3, TimesAreNat
    <3>5. call[c].asOf < until[call[c].kid] + Ttl
      BY <3>1, <3>2, <3>4
    <3> QED
      BY <2>2, <3>2, <3>5
  <2> QED
    BY <1>3, <1>9, <2>1, <2>2
<1>10. OldKeysExpire'
  BY <1>1, <1>9 DEF OldKeysExpire
<1> QED
  BY <1>5, <1>6, <1>7, <1>8, <1>10 DEF CacheInv

LEMMA FailInv == ASSUME CacheInv, NEW f \in Calls, Fail(f) PROVE CacheInv'
<1>1. /\ UNCHANGED <<now, published, cache, lastForced, since, until, forcedAt>>
      /\ fetch[f] # Nothing /\ Answered(f, {}) /\ Settled(f)
  BY DEF Fail
<1>2. /\ inFlight' = Nothing
      /\ fetch' \in [Calls -> Fetch \cup {Nothing}]
      /\ \A g \in Calls : fetch'[g] = Nothing
      /\ call' \in [Calls -> Call]
      /\ \A c \in Calls : call'[c].phase # "waiting"
      /\ \A c \in Calls : call'[c].phase = "found" => call'[c] = call[c]
  BY <1>1, SettleGives
<1>3. fetch[f].startedAt \in Times /\ lastFailed \in Times \cup {Nothing}
  BY <1>1 DEF CacheInv, TypeOK, Fetch
<1>4. lastFailed' \in Times
  <2> DEFINE S == {lastFailed, fetch[f].startedAt}
  <2>1. CASE lastFailed = Nothing
    BY <1>3, <2>1 DEF Fail
  <2>2. CASE lastFailed # Nothing
    <3>1. lastFailed' = Max(S) /\ S \in SUBSET Times /\ S # {}
      BY <1>3, <2>2 DEF Fail
    <3> HIDE DEF S
    <3>2. Max(S) \in S
      BY <3>1, MaxOfTimes
    <3> QED
      BY <3>1, <3>2
  <2> QED
    BY <2>1, <2>2
<1>5. TypeOK'
  BY <1>1, <1>2, <1>4 DEF CacheInv, TypeOK
<1>6. FlightInv' /\ ForcedInv' /\ KeysInv'
  BY <1>1, <1>2 DEF CacheInv, FlightInv, ForcedInv, KeysInv
<1>7. OldKeysExpire'
  BY <1>1, <1>2 DEF CacheInv, OldKeysExpire
<1> QED
  BY <1>5, <1>6, <1>7 DEF CacheInv

-----------------------------------------------------------------------------

LEMMA StepInv == CacheInv /\ [Next]_vars => CacheInv'
<1> SUFFICES ASSUME CacheInv, [Next]_vars PROVE CacheInv'
  OBVIOUS
<1>1. CASE Tick
  BY <1>1, TickInv
<1>2. CASE \E keys \in KeySets : Rotate(keys)
  BY <1>2, RotateInv
<1>3. CASE \E c \in Calls, kid \in Kids : GetVerificationKey(c, kid)
  BY <1>3, AwaitKeysInv, LookUpInv, ForceRefreshInv DEF GetVerificationKey
<1>4. CASE \E f \in Calls : Serve(f) \/ Load(f) \/ Fail(f)
  BY <1>4, ServeInv, LoadInv, FailInv
<1>5. CASE UNCHANGED vars
  BY <1>5 DEF vars, CacheInv, TypeOK, FlightInv, ForcedInv, KeysInv, OldKeysExpire, Fresh
<1> QED
  BY <1>1, <1>2, <1>3, <1>4, <1>5 DEF Next

\* The inductive invariant holds in every state.
THEOREM CacheInvariance == Spec => []CacheInv
BY InitInv, StepInv, PTL DEF Spec

\* Every variable keeps its type; a call that waits, waits for a fetch.
THEOREM TypeCorrect == Spec => []TypeOK
<1>1. CacheInv => TypeOK
  BY DEF CacheInv
<1> QED
  BY <1>1, CacheInvariance, PTL

\* No call accepts a key the time to live after it was last published.
THEOREM OldKeys == Spec => []OldKeysExpire
<1>1. CacheInv => OldKeysExpire
  BY DEF CacheInv
<1> QED
  BY <1>1, CacheInvariance, PTL

\* One fetch at a time, and forced ones begin the interval apart.
THEOREM Spared == Spec => EndpointIsSpared
<1>2. ASSUME CacheInv, Next, forcedAt' # forcedAt, forcedAt # Nothing
      PROVE  forcedAt' >= forcedAt + Interval
  <2>1. PICK c \in Calls, kid \in Kids : ForceRefresh(c, kid)
    BY <1>2 DEF Next, Tick, Rotate, GetVerificationKey, AwaitKeys, LookUp, Serve,
                Load, Fail, history
  <2>2. /\ forcedAt' = now /\ now \in Nat /\ forcedAt \in Nat
        /\ lastForced # Nothing /\ lastForced \in Nat /\ forcedAt <= lastForced
        /\ ~ (now < lastForced + Interval)
    BY <1>2, <2>1, TimesAreNat DEF ForceRefresh, Limited, CacheInv, TypeOK, ForcedInv
  <2> QED
    BY <2>2, TimesAreNat
<1>3. CacheInv /\ CacheInv' /\ [Next]_vars => [SingleFlight' /\ ForcedAreSpaced]_vars
  <2>1. CacheInv' => SingleFlight'
    BY DEF CacheInv, FlightInv, SingleFlight, Open
  <2> QED
    BY <2>1, <1>2 DEF ForcedAreSpaced
<1> QED
  BY <1>3, CacheInvariance, PTL DEF Spec, EndpointIsSpared
-----------------------------------------------------------------------------
(* How long a new key is kept out. *)

\* What is charged for keys that were read before a key was published.  A key that a
\* fetch did not find was published after the fetch began; and a refusal that is under
\* way, once no forced refresh is, was charged by a fetch that failed later or by one
\* whose keys are in the cache.
RefreshInv ==
  /\ \A k \in Kids : since[k] # Nothing => k \in published
  /\ \A f \in Calls : fetch[f] # Nothing /\ fetch[f].keys # Nothing =>
       \A k \in Kids \ fetch[f].keys :
         since[k] # Nothing => fetch[f].startedAt <= since[k]
  /\ lastForced # Nothing =>
       /\ lastForced <= now
       /\ \/ \E f \in Calls : fetch[f] # Nothing /\ fetch[f].forced
          \/ lastFailed # Nothing /\ lastForced <= lastFailed
          \/ cache = Nothing
          \/ \A k \in Kids \ cache.keys :
               since[k] # Nothing => lastForced <= since[k] + MaxFetch

LEMMA InitRefresh == Init => RefreshInv
BY TimesAreNat DEF Init, RefreshInv

LEMMA TickRefresh == ASSUME CacheInv, RefreshInv, Tick PROVE RefreshInv'
<1>1. /\ now \in Nat /\ now' = now + 1
      /\ UNCHANGED <<published, cache, lastForced, fetch, since, lastFailed>>
  BY TimesAreNat DEF CacheInv, TypeOK, Tick
<1>2. lastForced # Nothing => lastForced \in Nat
  BY TimesAreNat DEF CacheInv, TypeOK
<1>3. lastForced # Nothing => lastForced <= now + 1
  BY <1>1, <1>2 DEF RefreshInv
<1> QED
  BY <1>1, <1>3 DEF RefreshInv

LEMMA RotateRefresh ==
  ASSUME CacheInv, RefreshInv, NEW keys \in KeySets, Rotate(keys) PROVE RefreshInv'
<1>1. /\ published' = keys /\ now \in Nat /\ MaxFetch \in Nat
      /\ UNCHANGED <<now, cache, lastForced, fetch, lastFailed>>
  BY TimesAreNat DEF CacheInv, TypeOK, Rotate
<1>2. \A k \in Kids : since'[k] = IF k \notin keys THEN Nothing
                                  ELSE IF k \in published THEN since[k] ELSE now
  BY DEF Rotate
<1>3. \A k \in Kids : since'[k] # Nothing => k \in keys /\ (since'[k] = since[k] \/ since'[k] = now)
  BY <1>2
<1>4. \A f \in Calls : fetch[f] # Nothing => fetch[f].startedAt <= now
  BY DEF CacheInv, FlightInv
<1>5. ASSUME NEW f \in Calls, fetch[f] # Nothing, fetch[f].keys # Nothing,
             NEW k \in Kids \ fetch[f].keys, since'[k] # Nothing
      PROVE  fetch[f].startedAt <= since'[k]
  BY <1>3, <1>4, <1>5 DEF RefreshInv
<1>6. lastForced # Nothing => lastForced \in Nat /\ lastForced <= now /\ lastForced <= now + MaxFetch
  <2>1. lastForced # Nothing => lastForced \in Nat /\ lastForced <= now
    BY TimesAreNat DEF CacheInv, TypeOK, RefreshInv
  <2> QED
    BY <1>1, <2>1
<1>7. ASSUME lastForced # Nothing,
             \A k \in Kids \ cache.keys : since[k] # Nothing => lastForced <= since[k] + MaxFetch,
             NEW k \in Kids \ cache.keys, since'[k] # Nothing
      PROVE  lastForced <= since'[k] + MaxFetch
  BY <1>3, <1>6, <1>7
<1> QED
  BY <1>1, <1>3, <1>5, <1>6, <1>7 DEF RefreshInv

LEMMA ServeRefresh ==
  ASSUME CacheInv, RefreshInv, NEW f \in Calls, Serve(f) PROVE RefreshInv'
<1>1. /\ UNCHANGED <<now, published, cache, lastForced, since, lastFailed>>
      /\ fetch[f] # Nothing /\ fetch \in [Calls -> Fetch \cup {Nothing}]
      /\ fetch' = [fetch EXCEPT ![f].keys = published]
  BY DEF Serve, history, CacheInv, TypeOK
<1>2. fetch[f] \in Fetch /\ published \in KeySets
  BY <1>1 DEF CacheInv, TypeOK
<1>3. /\ fetch'[f] = [fetch[f] EXCEPT !.keys = published]
      /\ \A g \in Calls : g # f => fetch'[g] = fetch[g]
  BY <1>1
<1>4. /\ fetch'[f] \in Fetch /\ fetch'[f] # Nothing
      /\ fetch'[f].forced = fetch[f].forced /\ fetch'[f].keys = published
  BY <1>2, <1>3, TimesAreNat DEF Fetch
<1>5. (\E g \in Calls : fetch[g] # Nothing /\ fetch[g].forced)
        => \E g \in Calls : fetch'[g] # Nothing /\ fetch'[g].forced
  BY <1>3, <1>4
<1>6. ASSUME NEW g \in Calls, fetch'[g] # Nothing, fetch'[g].keys # Nothing,
             NEW k \in Kids \ fetch'[g].keys, since[k] # Nothing
      PROVE  fetch'[g].startedAt <= since[k]
  <2>1. CASE g = f
    BY <1>4, <1>6, <2>1 DEF RefreshInv
  <2>2. CASE g # f
    BY <1>3, <1>6, <2>2 DEF RefreshInv
  <2> QED
    BY <2>1, <2>2
<1> QED
  BY <1>1, <1>5, <1>6 DEF RefreshInv

\* A call that comes begins at most a fetch of which nothing is known.
LEMMA CallRefresh ==
  ASSUME CacheInv, RefreshInv, NEW c \in Calls, NEW kid \in Kids, GetVerificationKey(c, kid)
  PROVE  RefreshInv'
<1>1. CASE AwaitKeys(c, kid)
  <2>1. /\ UNCHANGED <<now, published, cache, lastForced, since, lastFailed>>
        /\ fetch' = fetch \/ (inFlight = Nothing /\ StartFetch(c, FALSE))
    BY <1>1 DEF AwaitKeys, history
  <2>2. CASE fetch' = fetch
    BY <2>1, <2>2 DEF RefreshInv
  <2>3. CASE inFlight = Nothing /\ StartFetch(c, FALSE)
    <3>0. /\ fetch'[c] = [startedAt |-> now, forced |-> FALSE, keys |-> Nothing]
          /\ fetch'[c] # Nothing
          /\ \A f \in Calls : f # c => fetch'[f] = Nothing
      BY <2>3, StartGives
    <3>1. /\ fetch'[c].keys = Nothing /\ fetch'[c] # Nothing
          /\ \A f \in Calls : f # c => fetch'[f] = Nothing
      BY <3>0
    <3>2. \A f \in Calls : fetch[f] = Nothing
      BY <2>3, TimesAreNat DEF CacheInv, FlightInv
    <3> QED
      BY <2>1, <3>1, <3>2 DEF RefreshInv
  <2> QED
    BY <2>1, <2>2, <2>3
<1>2. CASE LookUp(c, kid)
  BY <1>2 DEF LookUp, history, RefreshInv
<1>3. CASE ForceRefresh(c, kid)
  <2>1. /\ UNCHANGED <<now, published, cache, since, lastFailed>>
        /\ lastForced' = now /\ now \in Nat
        /\ inFlight = Nothing /\ StartFetch(c, TRUE)
    BY <1>3, ForcedIsAlone, TimesAreNat DEF ForceRefresh, CacheInv, TypeOK
  <2>2. /\ fetch'[c] = [startedAt |-> now, forced |-> TRUE, keys |-> Nothing]
        /\ fetch'[c] # Nothing
        /\ \A f \in Calls : f # c => fetch'[f] = Nothing
    BY <2>1, StartGives
  <2>3. fetch'[c].forced /\ fetch'[c].keys = Nothing /\ now <= now
    BY <2>1, <2>2
  <2> QED
    BY <2>1, <2>2, <2>3 DEF RefreshInv
<1> QED
  BY <1>1, <1>2, <1>3 DEF GetVerificationKey

\* The last time anything was charged is not later than the fetch ends.
LEMMA LoadRefresh ==
  ASSUME CacheInv, RefreshInv, NEW f \in Calls, Load(f) PROVE RefreshInv'
<1>1. /\ UNCHANGED <<now, published, since>>
      /\ fetch[f] # Nothing /\ fetch[f].keys # Nothing
      /\ cache' = [loadedAt |-> fetch[f].startedAt, keys |-> fetch[f].keys]
      /\ Answered(f, fetch[f].keys) /\ Settled(f)
  BY DEF Load, history
<1>2. /\ fetch[f].startedAt \in Nat /\ now \in Nat /\ MaxFetch \in Nat
      /\ now <= fetch[f].startedAt + MaxFetch
  BY <1>1, TimesAreNat DEF CacheInv, TypeOK, Fetch, FlightInv
<1>3. \A g \in Calls : fetch'[g] = Nothing
  BY <1>1, SettleGives
<1>4. lastForced' # Nothing => lastForced' \in Nat /\ lastForced' <= now
  <2> DEFINE S == {call[c].asOf : c \in Charged(f)}
  <2>1. Charged(f) = {} => lastForced' = lastForced
    BY DEF Load
  <2>2. Charged(f) # {} => lastForced' = Max(S)
    BY DEF Load
  <2>3. S \in SUBSET Times /\ \A t \in S : t <= now
    BY <1>1, WaitingIsRecent DEF Charged
  <2>4. Charged(f) # {} => S # {}
    OBVIOUS
  <2>5. lastForced # Nothing => lastForced \in Nat /\ lastForced <= now
    BY TimesAreNat DEF CacheInv, TypeOK, RefreshInv
  <2> HIDE DEF S
  <2>6. Charged(f) # {} => Max(S) \in S
    BY <2>3, <2>4, MaxOfTimes
  <2> QED
    BY <2>1, <2>2, <2>3, <2>5, <2>6, TimesAreNat
<1>5. ASSUME lastForced' # Nothing, NEW k \in Kids \ fetch[f].keys, since[k] # Nothing
      PROVE  lastForced' <= since[k] + MaxFetch
  <2>1. fetch[f].startedAt <= since[k]
    BY <1>1, <1>5 DEF RefreshInv
  <2>2. since[k] \in Nat
    BY <1>5, TimesAreNat DEF CacheInv, TypeOK
  <2> QED
    BY <1>2, <1>4, <1>5, <2>1, <2>2
<1>6. cache'.keys = fetch[f].keys
  BY <1>1
<1> QED
  BY <1>1, <1>3, <1>4, <1>5, <1>6 DEF RefreshInv

\* What failed began before whoever waited for it is told so.
LEMMA FailGives ==
  ASSUME CacheInv, NEW f \in Calls, Fail(f)
  PROVE  /\ lastFailed' \in Nat /\ lastFailed' # Nothing
         /\ fetch[f].startedAt \in Nat /\ fetch[f].startedAt <= lastFailed'
         /\ lastFailed # Nothing => lastFailed \in Nat /\ lastFailed <= lastFailed'
<1> DEFINE S == {lastFailed, fetch[f].startedAt}
<1>1. fetch[f].startedAt \in Times /\ lastFailed \in Times \cup {Nothing}
  BY DEF Fail, CacheInv, TypeOK, Fetch
<1>2. CASE lastFailed = Nothing
  <2>1. lastFailed' = fetch[f].startedAt
    BY <1>2 DEF Fail
  <2>2. fetch[f].startedAt \in Nat /\ fetch[f].startedAt # Nothing
    BY <1>1, TimesAreNat
  <2> QED
    BY <1>2, <2>1, <2>2
<1>3. CASE lastFailed # Nothing
  <2>1. lastFailed' = Max(S) /\ S \in SUBSET Times /\ S # {}
    BY <1>1, <1>3 DEF Fail
  <2>2. lastFailed \in S /\ fetch[f].startedAt \in S
    OBVIOUS
  <2> HIDE DEF S
  <2>3. Max(S) \in S /\ \A t \in S : t <= Max(S)
    BY <2>1, MaxOfTimes
  <2>4. /\ lastFailed' \in Times
        /\ lastFailed <= lastFailed' /\ fetch[f].startedAt <= lastFailed'
    BY <2>1, <2>2, <2>3
  <2>5. /\ fetch[f].startedAt \in Nat /\ lastFailed \in Nat
        /\ lastFailed' \in Nat /\ lastFailed' # Nothing
    BY <1>1, <1>3, <2>4, TimesAreNat
  <2> QED
    BY <2>4, <2>5
<1> QED
  BY <1>2, <1>3

LEMMA FailRefresh ==
  ASSUME CacheInv, RefreshInv, NEW f \in Calls, Fail(f) PROVE RefreshInv'
<1>1. /\ UNCHANGED <<now, published, cache, lastForced, since>>
      /\ fetch[f] # Nothing /\ Answered(f, {}) /\ Settled(f)
  BY DEF Fail
<1>2. \A g \in Calls : fetch'[g] = Nothing
  BY <1>1, SettleGives
<1>3. /\ lastFailed' \in Nat /\ lastFailed' # Nothing /\ fetch[f].startedAt <= lastFailed'
      /\ lastFailed # Nothing => lastFailed \in Nat /\ lastFailed <= lastFailed'
  BY FailGives
<1>4. lastForced # Nothing => lastForced \in Nat
  BY TimesAreNat DEF CacheInv, TypeOK
<1>5. ASSUME lastForced # Nothing, NEW g \in Calls, fetch[g] # Nothing, fetch[g].forced
      PROVE  lastForced <= lastFailed'
  <2>1. g = f /\ lastForced = fetch[f].startedAt
    BY <1>1, <1>5 DEF CacheInv, FlightInv
  <2> QED
    BY <1>3, <2>1
<1>6. ASSUME lastForced # Nothing, lastFailed # Nothing, lastForced <= lastFailed
      PROVE  lastForced <= lastFailed'
  BY <1>3, <1>4, <1>6
<1> QED
  BY <1>1, <1>2, <1>3, <1>5, <1>6 DEF RefreshInv

LEMMA StepRefresh == CacheInv /\ RefreshInv /\ [Next]_vars => RefreshInv'
<1> SUFFICES ASSUME CacheInv, RefreshInv, [Next]_vars PROVE RefreshInv'
  OBVIOUS
<1>1. CASE Tick
  BY <1>1, TickRefresh
<1>2. CASE \E keys \in KeySets : Rotate(keys)
  BY <1>2, RotateRefresh
<1>3. CASE \E c \in Calls, kid \in Kids : GetVerificationKey(c, kid)
  BY <1>3, CallRefresh
<1>4. CASE \E f \in Calls : Serve(f) \/ Load(f) \/ Fail(f)
  BY <1>4, ServeRefresh, LoadRefresh, FailRefresh
<1>5. CASE UNCHANGED vars
  BY <1>5 DEF vars, RefreshInv
<1> QED
  BY <1>1, <1>2, <1>3, <1>4, <1>5 DEF Next

\* It holds in every state too.
THEOREM RefreshInvariance == Spec => []RefreshInv
BY InitRefresh, StepRefresh, CacheInvariance, PTL DEF Spec

\* Who is refused waited for a fetch, or came to a fresh set that charges were made for.
LEMMA RefusedInTime ==
  ASSUME CacheInv, RefreshInv, Next,
         NEW c \in Calls, call[c].phase # "refused", call'[c].phase = "refused",
         since[call'[c].kid] # Nothing
  PROVE  \/ call'[c].asOf < since[call'[c].kid] + MaxFetch + Interval
         \/ lastFailed' # Nothing /\ call'[c].asOf < lastFailed' + Interval
         \/ call[c].phase = "idle" /\ \E f \in Open : fetch[f].forced
<1>0. /\ now \in Nat /\ MaxFetch \in Nat /\ Interval \in Nat /\ MaxFetch < Interval
      /\ \A k \in Kids : since[k] # Nothing => since[k] \in Nat
  BY TimesAreNat DEF CacheInv, TypeOK
<1>1. CASE \E d \in Calls, kid \in Kids : GetVerificationKey(d, kid)
  <2>1. PICK d \in Calls, kid \in Kids : GetVerificationKey(d, kid)
    BY <1>1
  <2>2. d = c /\ LookUp(c, kid) /\ kid \notin cache.keys /\ Limited /\ Come(c, kid, "refused", Nothing)
    <3>1. PICK phase \in {"waiting", "refused", "found"}, awaits \in Calls \cup {Nothing} :
            /\ Come(d, kid, phase, awaits)
            /\ phase = "refused" => /\ LookUp(d, kid) /\ kid \notin cache.keys /\ Limited
                                    /\ Come(d, kid, "refused", Nothing)
      BY <2>1 DEF GetVerificationKey, AwaitKeys, LookUp, ForceRefresh, CacheInv, TypeOK
    <3>2. /\ call'[d] = [phase |-> phase, kid |-> kid, asOf |-> now, awaits |-> awaits]
          /\ \A e \in Calls : e # d => call'[e] = call[e]
      BY <3>1, ComeGives
    <3>3. call'[d].phase = phase
      BY <3>2
    <3> QED
      BY <3>1, <3>2, <3>3
  <2>3. /\ call[c].phase = "idle" /\ call'[c].kid = kid /\ call'[c].asOf = now
    BY <2>2, ComeGives DEF Come
  <2>4. /\ lastFailed' = lastFailed /\ cache # Nothing
        /\ lastForced # Nothing /\ now < lastForced + Interval
    BY <2>2 DEF LookUp, history, Limited, Fresh
  <2>5. lastForced \in Nat /\ (lastFailed # Nothing => lastFailed \in Nat)
    BY <2>4, TimesAreNat DEF CacheInv, TypeOK
  <2>6. \/ \E f \in Calls : fetch[f] # Nothing /\ fetch[f].forced
        \/ lastFailed # Nothing /\ lastForced <= lastFailed
        \/ lastForced <= since[kid] + MaxFetch
    BY <2>2, <2>3, <2>4 DEF RefreshInv
  <2>7. CASE \E f \in Calls : fetch[f] # Nothing /\ fetch[f].forced
    BY <2>3, <2>7 DEF Open
  <2>8. CASE lastFailed # Nothing /\ lastForced <= lastFailed
    <3>1. now < lastFailed + Interval
      BY <1>0, <2>4, <2>5, <2>8
    <3> QED
      BY <2>3, <2>4, <2>8, <3>1
  <2>9. CASE lastForced <= since[kid] + MaxFetch
    <3>1. since[kid] \in Nat
      BY <1>0, <2>3
    <3>2. now < since[kid] + MaxFetch + Interval
      BY <1>0, <2>4, <2>5, <2>9, <3>1
    <3> QED
      BY <2>3, <3>2
  <2> QED
    BY <2>6, <2>7, <2>8, <2>9
<1>2. ASSUME NEW f \in Calls, NEW keys, fetch[f] # Nothing, Answered(f, keys)
      PROVE  /\ c \in Waiting(f) /\ call[c].kid \notin keys
             /\ call'[c].kid = call[c].kid /\ call'[c].asOf = call[c].asOf
             /\ call[c].kid \in Kids /\ call[c].asOf \in Nat /\ fetch[f].startedAt \in Nat
             /\ call[c].asOf <= fetch[f].startedAt + MaxFetch
  <2>1. c \in Waiting(f)
    BY <1>2 DEF Answered
  <2>2. call'[c] = [call[c] EXCEPT !.phase = IF call[c].kid \in keys THEN "found" ELSE "refused",
                                   !.awaits = Nothing]
    BY <1>2, <2>1 DEF Answered
  <2>3. call[c] \in Call
    BY DEF CacheInv, TypeOK
  <2>4. call[c].kid \notin keys /\ call'[c].kid = call[c].kid /\ call'[c].asOf = call[c].asOf
    BY <2>2, <2>3 DEF Call
  <2>5. /\ call[c].kid \in Kids /\ fetch[f].startedAt \in Nat /\ call[c].asOf \in Nat
        /\ call[c].asOf <= now
    BY <1>2, <2>1, WaitingIsRecent, TimesAreNat
  <2>6. now <= fetch[f].startedAt + MaxFetch
    BY <1>2 DEF CacheInv, FlightInv
  <2>7. call[c].asOf <= fetch[f].startedAt + MaxFetch
    BY <1>0, <2>5, <2>6
  <2> QED
    BY <2>1, <2>4, <2>5, <2>7
<1>3. ASSUME NEW f \in Calls, Load(f)
      PROVE  call'[c].asOf < since[call'[c].kid] + MaxFetch + Interval
  <2>1. fetch[f] # Nothing /\ fetch[f].keys # Nothing /\ Answered(f, fetch[f].keys)
    BY <1>3 DEF Load
  <2> DEFINE k == call[c].kid
             at == call[c].asOf
             start == fetch[f].startedAt
  <2>2. /\ k \notin fetch[f].keys /\ call'[c].kid = k /\ call'[c].asOf = at
        /\ k \in Kids /\ at \in Nat /\ start \in Nat /\ at <= start + MaxFetch
    BY <1>2, <2>1
  <2>3. start <= since[k] /\ since[k] \in Nat
    BY <1>0, <2>1, <2>2 DEF RefreshInv
  <2> HIDE DEF k, at, start
  <2>4. at < since[k] + MaxFetch + Interval
    BY <1>0, <2>2, <2>3
  <2> QED
    BY <2>2, <2>4
<1>4. ASSUME NEW f \in Calls, Fail(f)
      PROVE  lastFailed' # Nothing /\ call'[c].asOf < lastFailed' + Interval
  <2>1. fetch[f] # Nothing /\ Answered(f, {})
    BY <1>4 DEF Fail
  <2> DEFINE at == call[c].asOf
             start == fetch[f].startedAt
             failed == lastFailed'
  <2>2. call'[c].asOf = at /\ at \in Nat /\ start \in Nat /\ at <= start + MaxFetch
    BY <1>2, <2>1
  <2>3. failed \in Nat /\ failed # Nothing /\ start <= failed
    BY <1>4, FailGives
  <2> HIDE DEF at, start, failed
  <2>4. at < failed + Interval
    <3>1. at \in Nat /\ start \in Nat /\ at <= start + MaxFetch
      BY <2>2
    <3>2. Interval \in Nat /\ MaxFetch \in Nat /\ MaxFetch < Interval
      BY <1>0
    <3> QED
      BY <2>3, <3>1, <3>2
  <2> QED
    BY <2>2, <2>3, <2>4 DEF failed
<1>5. CASE Tick \/ (\E keys \in KeySets : Rotate(keys)) \/ (\E f \in Calls : Serve(f))
  BY <1>5 DEF Tick, Rotate, Serve
<1> QED
  BY <1>1, <1>3, <1>4, <1>5 DEF Next

\* For any times and calls: a key that has been published for as long as a fetch and the
\* interval last is refused only near a failed fetch or beside a forced refresh.
THEOREM NewKeys == Spec => NewKeysAccepted
<1> DEFINE InTime ==
      \A c \in Calls :
        /\ call[c].phase # "refused" /\ call'[c].phase = "refused"
        /\ since[call'[c].kid] # Nothing
        =>
        \/ call'[c].asOf < since[call'[c].kid] + MaxFetch + Interval
        \/ lastFailed' # Nothing /\ call'[c].asOf < lastFailed' + Interval
        \/ call[c].phase = "idle" /\ \E f \in Open : fetch[f].forced
<1>1. CacheInv /\ RefreshInv /\ [Next]_vars => [InTime]_vars
  BY RefusedInTime
<1> QED
  BY <1>1, CacheInvariance, RefreshInvariance, PTL DEF Spec, NewKeysAccepted
=============================================================================
