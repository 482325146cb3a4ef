------------------------------ MODULE JwksCache ------------------------------
(***************************************************************************)
(* RemoteJwksProvider (src/auth/jwksClient.ts): the key set that tokens    *)
(* are verified with is fetched from the identity provider, kept for a     *)
(* while, shared by the requests that wait for it, and fetched again, at   *)
(* most so often, when a token names a key it does not hold.  Meanwhile    *)
(* the provider rotates its keys.                                          *)
(*                                                                         *)
(* A kid stands for a key id with the algorithm it is used with.  Each     *)
(* call of getVerificationKey awaits at most one fetch, so a fetch is      *)
(* named by the call that began it.                                        *)
(***************************************************************************)
EXTENDS Naturals, FiniteSetsExt

CONSTANTS
  Calls,            \* one element per call of getVerificationKey ever made
  Kids,
  Ttl,              \* cacheTtlMs
  Interval,         \* unknownKidRefreshIntervalMs
  MaxFetch,         \* the longest a fetch takes; at least requestTimeoutMs
  MaxTime,          \* where the clock stops: bounds the model
  Nothing           \* undefined

\* The bounds the constructor checks, and fetches shorter than the interval:
\* by default the request times out after 5 s and the interval is 60 s.
ASSUME TimesAssumption ==
  /\ Ttl \in Nat /\ MaxTime \in Nat
  /\ Interval \in 1 .. Ttl
  /\ MaxFetch \in 0 .. Interval - 1

VARIABLES
  now,
  published,        \* the keys the endpoint serves
  cache,            \* #cache
  lastForced,       \* #lastUnknownKidRefreshMs
  inFlight,         \* #inFlight, by the call whose fetch it is
  call,             \* what each call asks for and has come to
  fetch,            \* the fetch each call has begun and not finished
  \* history
  since,            \* since when each key has been published, if it is
  until,            \* when each key was last published
  lastFailed,       \* when the last fetch that failed was begun
  forcedAt          \* when the last forced refresh was begun

vars == <<now, published, cache, lastForced, inFlight, call, fetch,
          since, until, lastFailed, forcedAt>>
history == <<since, until, lastFailed, forcedAt>>

Times == 0 .. MaxTime
KeySets == SUBSET Kids \ {{}}
Cache == [loadedAt : Times, keys : KeySets]
Fetch == [startedAt : Times, forced : BOOLEAN, keys : KeySets \cup {Nothing}]
Call ==
  [phase : {"idle", "waiting", "refused", "found"}, kid : Kids, asOf : Times,
   awaits : Calls \cup {Nothing}]

\* undefined is none of the values it stands in for.
ASSUME NothingAssumption ==
  /\ Nothing \notin Nat \cup Calls \cup Cache \cup Fetch
  /\ \A keys \in KeySets : keys # Nothing

TypeOK ==
  /\ now \in Times
  /\ published \in KeySets
  /\ cache \in Cache \cup {Nothing}
  /\ lastForced \in Times \cup {Nothing}
  /\ inFlight \in Calls \cup {Nothing}
  /\ inFlight # Nothing => fetch[inFlight] # Nothing
  /\ call \in [Calls -> Call]
  /\ \A c \in Calls :
       call[c].phase = "waiting" =>
         /\ call[c].awaits # Nothing
         /\ fetch[call[c].awaits] # Nothing
  /\ fetch \in [Calls -> Fetch \cup {Nothing}]
  /\ since \in [Kids -> Times \cup {Nothing}]
  /\ until \in [Kids -> Times \cup {Nothing}]
  /\ lastFailed \in Times \cup {Nothing}
  /\ forcedAt \in Times \cup {Nothing}

Init ==
  /\ now = 0
  /\ published \in KeySets
  /\ cache = Nothing
  /\ lastForced = Nothing
  /\ inFlight = Nothing
  /\ \E k \in Kids :
       call = [c \in Calls |-> [phase |-> "idle", kid |-> k, asOf |-> 0,
                                awaits |-> Nothing]]
  /\ fetch = [c \in Calls |-> Nothing]
  /\ since = [k \in Kids |-> IF k \in published THEN 0 ELSE Nothing]
  /\ until = since
  /\ lastFailed = Nothing
  /\ forcedAt = Nothing

-----------------------------------------------------------------------------
(* The endpoint and the clock. *)

Open == {f \in Calls : fetch[f] # Nothing}

Tick ==
  /\ now < MaxTime
  /\ \A f \in Open : now < fetch[f].startedAt + MaxFetch
  /\ now' = now + 1
  /\ until' = [k \in Kids |-> IF k \in published THEN now + 1 ELSE until[k]]
  /\ UNCHANGED <<published, cache, lastForced, inFlight, call, fetch, since,
                 lastFailed, forcedAt>>

Rotate(keys) ==
  /\ published' = keys
  /\ since' = [k \in Kids |-> IF k \notin keys THEN Nothing
                              ELSE IF k \in published THEN since[k] ELSE now]
  /\ until' = [k \in Kids |-> IF k \in keys THEN now ELSE until[k]]
  /\ UNCHANGED <<now, cache, lastForced, inFlight, call, fetch, lastFailed,
                 forcedAt>>

\* The endpoint answers with the keys of this moment.
Serve(f) ==
  /\ fetch[f] # Nothing
  /\ fetch[f].keys = Nothing
  /\ fetch' = [fetch EXCEPT ![f].keys = published]
  /\ UNCHANGED <<now, published, cache, lastForced, inFlight, call, history>>

-----------------------------------------------------------------------------
(* The synchronous beginning of getVerificationKey. *)

Fresh == cache # Nothing /\ now < cache.loadedAt + Ttl
\* A mutant: the interval is one too long.
LimitedLonger == lastForced # Nothing /\ now <= lastForced + Interval

Limited == lastForced # Nothing /\ now < lastForced + Interval

Come(c, kid, phase, awaits) ==
  /\ call[c].phase = "idle"
  /\ call' = [call EXCEPT ![c] = [phase |-> phase, kid |-> kid, asOf |-> now,
                                  awaits |-> awaits]]

StartFetch(c, forced) ==
  /\ fetch' = [fetch EXCEPT ![c] = [startedAt |-> now, forced |-> forced,
                                    keys |-> Nothing]]
  /\ inFlight' = c

\* No key set, or one too old: join the fetch in flight or begin one.
AwaitKeys(c, kid) ==
  /\ ~ Fresh
  /\ IF inFlight = Nothing
     THEN Come(c, kid, "waiting", c) /\ StartFetch(c, FALSE)
     ELSE Come(c, kid, "waiting", inFlight) /\ UNCHANGED <<fetch, inFlight>>
  /\ UNCHANGED <<now, published, cache, lastForced, history>>

LookUp(c, kid) ==
  /\ Fresh
  /\ \/ kid \in cache.keys /\ Come(c, kid, "found", Nothing)
     \/ kid \notin cache.keys /\ Limited /\ Come(c, kid, "refused", Nothing)
  /\ UNCHANGED <<now, published, cache, lastForced, inFlight, fetch, history>>

\* A mutant: the interval is charged once the keys have come, not before.
ForceRefreshUncharged(c, kid) ==
  /\ Fresh /\ kid \notin cache.keys /\ ~ Limited
  /\ Come(c, kid, "waiting", c)
  /\ StartFetch(c, FALSE)
  /\ forcedAt' = now
  /\ UNCHANGED <<now, published, cache, lastForced, since, until, lastFailed>>

\* A key the fresh set does not hold: fetch again, whoever else is fetching.
ForceRefresh(c, kid) ==
  /\ Fresh /\ kid \notin cache.keys /\ ~ Limited
  /\ Come(c, kid, "waiting", c)
  /\ StartFetch(c, TRUE)
  /\ lastForced' = now
  /\ forcedAt' = now
  /\ UNCHANGED <<now, published, cache, since, until, lastFailed>>

-----------------------------------------------------------------------------
(* A fetch settles: its own call and the calls that joined it go on in one *)
(* run of the event loop.                                                  *)

Waiting(f) == {c \in Calls : call[c].phase = "waiting" /\ call[c].awaits = f}

\* The calls that are told their key is not there and charge the interval.
Charged(f) ==
  {c \in Waiting(f) : /\ call[c].kid \notin fetch[f].keys
                      /\ ~ (c = f /\ fetch[f].forced)}

Answered(f, keys) ==
  call' = [c \in Calls |->
             IF c \notin Waiting(f) THEN call[c]
             ELSE [call[c] EXCEPT
                     !.phase = IF call[c].kid \in keys THEN "found" ELSE "refused",
                     !.awaits = Nothing]]

\* A mutant: #inFlight stays when the fetch is over.
SettledInFlight(f) ==
  /\ fetch' = [fetch EXCEPT ![f] = Nothing]
  /\ UNCHANGED inFlight

Settled(f) ==
  /\ fetch' = [fetch EXCEPT ![f] = Nothing]
  /\ inFlight' = IF inFlight = f THEN Nothing ELSE inFlight

\* A mutant: the set is as old as its arrival.
LoadStampedLate(f) ==
  /\ fetch[f] # Nothing
  /\ fetch[f].keys # Nothing
  /\ cache' = [loadedAt |-> now, keys |-> fetch[f].keys]
  /\ Answered(f, fetch[f].keys)
  /\ lastForced' = IF Charged(f) = {} THEN lastForced
                   ELSE Max({call[c].asOf : c \in Charged(f)})
  /\ Settled(f)
  /\ UNCHANGED <<now, published, history>>

Load(f) ==
  /\ fetch[f] # Nothing
  /\ fetch[f].keys # Nothing
  /\ cache' = [loadedAt |-> fetch[f].startedAt, keys |-> fetch[f].keys]
  /\ Answered(f, fetch[f].keys)
  /\ lastForced' = IF Charged(f) = {} THEN lastForced
                   ELSE Max({call[c].asOf : c \in Charged(f)})
  /\ Settled(f)
  /\ UNCHANGED <<now, published, history>>

\* A mutant: only an answer can fail, there is no timeout.
FailServed(f) ==
  /\ fetch[f] # Nothing
  /\ fetch[f].keys # Nothing
  /\ Answered(f, {})
  /\ Settled(f)
  /\ lastFailed' = IF lastFailed = Nothing THEN fetch[f].startedAt
                   ELSE Max({lastFailed, fetch[f].startedAt})
  /\ UNCHANGED <<now, published, cache, lastForced, since, until, forcedAt>>

\* The request times out, or is answered with an error, a redirect, or keys
\* the provider must not have: the calls reject, and verify answers undefined.
Fail(f) ==
  /\ fetch[f] # Nothing
  /\ Answered(f, {})
  /\ Settled(f)
  /\ lastFailed' = IF lastFailed = Nothing THEN fetch[f].startedAt
                   ELSE Max({lastFailed, fetch[f].startedAt})
  /\ UNCHANGED <<now, published, cache, lastForced, since, until, forcedAt>>

GetVerificationKey(c, kid) ==
  AwaitKeys(c, kid) \/ LookUp(c, kid) \/ ForceRefresh(c, kid)

Next ==
  \/ Tick
  \/ \E keys \in KeySets : Rotate(keys)
  \/ \E c \in Calls, kid \in Kids : GetVerificationKey(c, kid)
  \/ \E f \in Calls : Serve(f) \/ Load(f) \/ Fail(f)

Spec == Init /\ [][Next]_vars

\* The endpoint may never answer: then the request times out.  The body of an
\* answer that has begun is taken to end.
Fairness == \A f \in Calls : WF_vars(Load(f) \/ Fail(f))

FairSpec == Spec /\ Fairness

-----------------------------------------------------------------------------
(* Properties. *)

\* However calls and refreshes overlap, the endpoint is asked one thing at a
\* time.
SingleFlight == \A f, g \in Open : f = g

\* A key the endpoint has published for as long as the interval and a fetch
\* last is accepted, unless a fetch begun within the interval has failed, or
\* the call comes while a forced refresh is under way: that one is charged
\* before it is awaited, and nobody joins it.  Unknown keys of other calls
\* cannot keep a new key out for longer.  (Not the interval alone: a call that
\* joins a fetch charges it from its own time, when the keys may have been
\* read already.)
NewKeysAccepted ==
  [][\A c \in Calls :
       /\ call[c].phase # "refused" /\ call'[c].phase = "refused"
       /\ since[call'[c].kid] # Nothing
       =>
       \/ call'[c].asOf < since[call'[c].kid] + MaxFetch + Interval
       \/ lastFailed' # Nothing /\ call'[c].asOf < lastFailed' + Interval
       \/ call[c].phase = "idle" /\ \E f \in Open : fetch[f].forced]_vars

\* A key the endpoint has withdrawn is refused once the time to live is over,
\* counted from when it was last published to when the call came.
OldKeysExpire ==
  \A c \in Calls :
    call[c].phase = "found" =>
      /\ until[call[c].kid] # Nothing
      /\ call[c].asOf < until[call[c].kid] + Ttl

\* Unknown keys cannot turn each request into a fetch: two forced refreshes
\* begin at least the interval apart.
ForcedAreSpaced ==
  forcedAt' # forcedAt /\ forcedAt # Nothing => forcedAt' >= forcedAt + Interval

\* The endpoint is spared: one fetch at a time, the forced ones apart.
EndpointIsSpared == [][SingleFlight' /\ ForcedAreSpaced]_vars

\* Every call is answered.
EveryCallEnds == \A c \in Calls : call[c].phase = "waiting" ~> call[c].phase # "waiting"
=============================================================================
