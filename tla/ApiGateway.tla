------------------------------ MODULE ApiGateway ------------------------------
(***************************************************************************)
(* A /v1 request on its way through the API: authentication, rate limit,   *)
(* market entitlement, handler and usage metering.                         *)
(*                                                                         *)
(* Requests run concurrently in the threadpool and share the SQLite store  *)
(* with the key-management command line, a process of its own.  Each store *)
(* call is a transaction, so each is one step; what a request has read may *)
(* be stale by its next one.  The limiter is the sliding window of         *)
(* RateLimiter, reduced to the number of hits that have not expired.       *)
(***************************************************************************)
EXTENDS Integers, FiniteSets

CONSTANTS
    Requests,      \* requests clients may send
    Keys,          \* API keys, issued or yet to be issued
    Markets,       \* market ids that occur in a path
    Entitled,      \* the markets granted by each key
    Limit,         \* rate_limit_per_min
    NoKey,         \* no X-API-Key header, no identity, a NULL key_id
    NoMarket,      \* /v1/me, a NULL market_id
    Unrouted,      \* a path below /v1 that no route matches
    Anonymous      \* the identity used while authentication is disabled

ASSUME GatewayAssumption ==
    /\ Entitled \in [Keys -> SUBSET Markets]
    /\ Limit \in Nat \ {0}
    /\ NoKey \notin Keys /\ Anonymous \notin Keys \cup {NoKey}
    /\ NoMarket \notin Markets /\ Unrouted \notin Markets \cup {NoMarket}
    /\ IsFiniteSet(Requests)

VARIABLES
    authEnabled,   \* settings.api_auth_enabled
    storeFailed,   \* history: whether SQLite has failed (a lock held too long)
    keys,          \* api_keys: "unissued", "active" or "revoked"
    lastUsed,      \* keys whose last_used_at is set
    usage,         \* usage_events
    hits,          \* the limiter's live hits of each key
    pc,            \* where each request is
    sent,          \* what each request carries, and its key's state on arrival
    identity,      \* request.state.api_key
    market,        \* request.state.market_id
    status         \* the answer, 0 before there is one

vars == <<authEnabled, storeFailed, keys, lastUsed, usage, hits, pc, sent,
          identity, market, status>>

KeyStates == {"unissued", "active", "revoked"}

InFlight == {"arrived", "limiting", "touching", "entitling", "handling",
             "metering"}

Statuses == {200, 401, 403, 404, 429, 500, 503}

TypeOK ==
    /\ authEnabled \in BOOLEAN
    /\ storeFailed \in BOOLEAN
    /\ keys \in [Keys -> KeyStates]
    /\ lastUsed \subseteq Keys
    /\ usage \subseteq [request : Requests, key : Keys \cup {NoKey},
                        market : Markets \cup {NoMarket}, status : Statuses]
    /\ hits \in [Keys -> 0..Limit]
    /\ pc \in [Requests -> InFlight \cup {"unsent", "answered", "lost"}]
    /\ sent \in [Requests -> [key : Keys \cup {NoKey},
                              market : Markets \cup {NoMarket, Unrouted},
                              found : KeyStates]]
    /\ identity \in [Requests -> Keys \cup {NoKey, Anonymous}]
    /\ market \in [Requests -> Markets \cup {NoMarket}]
    /\ status \in [Requests -> Statuses \cup {0}]

Init ==
    /\ authEnabled \in BOOLEAN
    /\ storeFailed = FALSE
    /\ keys = [k \in Keys |-> "unissued"]
    /\ lastUsed = {}
    /\ usage = {}
    /\ hits = [k \in Keys |-> 0]
    /\ pc = [r \in Requests |-> "unsent"]
    /\ sent = [r \in Requests |->
                  [key |-> NoKey, market |-> NoMarket, found |-> "unissued"]]
    /\ identity = [r \in Requests |-> NoKey]
    /\ market = [r \in Requests |-> NoMarket]
    /\ status = [r \in Requests |-> 0]

------------------------------------------------------------------------------
(* The command line.                                                       *)

store == <<authEnabled, storeFailed, keys, lastUsed, usage>>
local == <<pc, sent, identity, market, status>>

IssueKey(k) ==
    /\ keys[k] = "unissued"
    /\ keys' = [keys EXCEPT ![k] = "active"]
    /\ UNCHANGED <<authEnabled, storeFailed, lastUsed, usage, hits, local>>

(* UPDATE ... WHERE revoked_at IS NULL: once, and never undone.            *)
Revoke(k) ==
    /\ keys[k] = "active"
    /\ keys' = [keys EXCEPT ![k] = "revoked"]
    /\ UNCHANGED <<authEnabled, storeFailed, lastUsed, usage, hits, local>>

------------------------------------------------------------------------------
(* A request.                                                              *)

(* found is a history variable: what the store holds when the client sends. *)
Send(r) ==
    /\ pc[r] = "unsent"
    /\ \E k \in Keys \cup {NoKey}, m \in Markets \cup {NoMarket, Unrouted} :
           sent' = [sent EXCEPT ![r] =
               [key |-> k, market |-> m,
                found |-> IF k \in Keys THEN keys[k] ELSE "unissued"]]
    /\ pc' = [pc EXCEPT ![r] = "arrived"]
    /\ UNCHANGED <<store, hits, identity, market, status>>

Goto(r, label) == pc' = [pc EXCEPT ![r] = label]

(* An HTTPException or a response, which the middleware sees.              *)
Respond(r, code) ==
    /\ status' = [status EXCEPT ![r] = code]
    /\ Goto(r, "metering")

(* Any other exception passes through the middleware's call_next.          *)
Raise(r) ==
    /\ status' = [status EXCEPT ![r] = 500]
    /\ Goto(r, "answered")

(* No route, no dependencies: whatever key was sent is not looked at.      *)
NotFound(r) ==
    /\ pc[r] = "arrived"
    /\ sent[r].market = Unrouted
    /\ Respond(r, 404)
    /\ UNCHANGED <<store, hits, sent, identity, market>>

Routed(r) == pc[r] = "arrived" /\ sent[r].market # Unrouted

(* Faulty variant of SkipAuth: the header is believed without a lookup.    *)
SkipAuthTrusting(r) ==
    /\ Routed(r)
    /\ ~ authEnabled
    /\ identity' = [identity EXCEPT ![r] = sent[r].key]
    /\ Goto(r, IF sent[r].key \in Keys THEN "entitling" ELSE "handling")
    /\ UNCHANGED <<store, hits, sent, market, status>>

SkipAuth(r) ==
    /\ Routed(r)
    /\ ~ authEnabled
    /\ identity' = [identity EXCEPT ![r] = Anonymous]
    /\ Goto(r, "entitling")
    /\ UNCHANGED <<store, hits, sent, market, status>>

(* Faulty variant of Accepts: is_active is not asked.                      *)
AcceptsKnown(k) == k \in Keys /\ keys[k] # "unissued"

Accepts(k) == k \in Keys /\ keys[k] = "active"

(* No header, no record for it, or a revoked one.                          *)
Reject(r) ==
    /\ Routed(r)
    /\ authEnabled
    /\ ~ Accepts(sent[r].key)
    /\ Respond(r, 401)
    /\ UNCHANGED <<store, hits, sent, identity, market>>

(* lookup finds an active record: the identity is attached to the request. *)
Identify(r) ==
    /\ Routed(r)
    /\ authEnabled
    /\ Accepts(sent[r].key)
    /\ identity' = [identity EXCEPT ![r] = sent[r].key]
    /\ Goto(r, "limiting")
    /\ UNCHANGED <<store, hits, sent, market, status>>

LookupFails(r) ==
    /\ Routed(r)
    /\ authEnabled
    /\ sent[r].key # NoKey
    /\ storeFailed' = TRUE
    /\ Raise(r)
    /\ UNCHANGED <<authEnabled, keys, lastUsed, usage, hits, sent, identity, market>>

(* Faulty variants of Admit: off by one, and last_used_at forgotten.       *)
AdmitOneMore(r) ==
    /\ pc[r] = "limiting"
    /\ hits[identity[r]] <= Limit
    /\ hits' = [hits EXCEPT ![identity[r]] = @ + 1]
    /\ Goto(r, "touching")
    /\ UNCHANGED <<store, sent, identity, market, status>>
AdmitUntouched(r) ==
    /\ pc[r] = "limiting"
    /\ hits[identity[r]] < Limit
    /\ hits' = [hits EXCEPT ![identity[r]] = @ + 1]
    /\ Goto(r, "entitling")
    /\ UNCHANGED <<store, sent, identity, market, status>>

(* limiter.check                                                           *)
Admit(r) ==
    /\ pc[r] = "limiting"
    /\ hits[identity[r]] < Limit
    /\ hits' = [hits EXCEPT ![identity[r]] = @ + 1]
    /\ Goto(r, "touching")
    /\ UNCHANGED <<store, sent, identity, market, status>>

(* Faulty variant of Throttle: a denied attempt is counted as a hit.       *)
ThrottleCounted(r) ==
    /\ pc[r] = "limiting"
    /\ hits[identity[r]] >= Limit
    /\ hits' = [hits EXCEPT ![identity[r]] = @ + 1]
    /\ Respond(r, 429)
    /\ UNCHANGED <<store, sent, identity, market>>

Throttle(r) ==
    /\ pc[r] = "limiting"
    /\ hits[identity[r]] >= Limit
    /\ Respond(r, 429)
    /\ UNCHANGED <<store, hits, sent, identity, market>>

(* Faulty variant of Touch: a fault starts the check all over.             *)
TouchRetried(r) ==
    /\ pc[r] = "touching"
    /\ \/ /\ lastUsed' = lastUsed \cup {identity[r]}
          /\ Goto(r, "entitling")
          /\ UNCHANGED storeFailed
       \/ /\ storeFailed' = TRUE
          /\ Goto(r, "limiting")
          /\ UNCHANGED lastUsed
    /\ UNCHANGED <<authEnabled, keys, usage, hits, sent, identity, market,
                   status>>

(* touch swallows sqlite3.Error.                                           *)
Touch(r) ==
    /\ pc[r] = "touching"
    /\ \/ lastUsed' = lastUsed \cup {identity[r]} /\ UNCHANGED storeFailed
       \/ storeFailed' = TRUE /\ UNCHANGED lastUsed
    /\ Goto(r, "entitling")
    /\ UNCHANGED <<authEnabled, keys, usage, hits, sent, identity, market,
                   status>>

(* The anonymous identity has "*" in its markets; /v1/me has no market.    *)
MayRead(id, m) == id = Anonymous \/ m = NoMarket \/ m \in Entitled[id]

(* Faulty variant of CheckMarket: the market is attached after the check.  *)
CheckMarketUnlabelled(r) ==
    /\ pc[r] = "entitling"
    /\ IF MayRead(identity[r], sent[r].market)
       THEN /\ market' = [market EXCEPT ![r] = sent[r].market]
            /\ Goto(r, "handling")
            /\ UNCHANGED status
       ELSE Respond(r, 403) /\ UNCHANGED market
    /\ UNCHANGED <<store, hits, sent, identity>>

(* require_market_access                                                   *)
CheckMarket(r) ==
    /\ pc[r] = "entitling"
    /\ market' = [market EXCEPT ![r] = sent[r].market]
    /\ IF MayRead(identity[r], sent[r].market)
       THEN Goto(r, "handling") /\ UNCHANGED status
       ELSE Respond(r, 403)
    /\ UNCHANGED <<store, hits, sent, identity>>

(* A market route answers, reports an error (503 stands for its own 404,   *)
(* 422, 501 and 503 alike) or raises; /v1/me echoes the identity.          *)
Handle(r) ==
    /\ pc[r] = "handling"
    /\ \/ Respond(r, 200)
       \/ sent[r].market # NoMarket /\ (Respond(r, 503) \/ Raise(r))
    /\ UNCHANGED <<store, hits, sent, identity, market>>

(* Faulty variant of Meter: only requests with an identity are metered.    *)
MeterIdentified(r) ==
    /\ pc[r] = "metering"
    /\ usage' = usage \cup
           {[request |-> r, key |-> k, market |-> market[r],
             status |-> status[r]] : k \in {identity[r]} \cap Keys}
    /\ Goto(r, "answered")
    /\ UNCHANGED <<authEnabled, storeFailed, keys, lastUsed, hits, sent,
                   identity, market, status>>

(* record_usage swallows sqlite3.Error.                                    *)
Meter(r) ==
    /\ pc[r] = "metering"
    /\ \/ /\ usage' = usage \cup
                  {[request |-> r,
                    key |-> IF identity[r] = Anonymous THEN NoKey
                            ELSE identity[r],
                    market |-> market[r], status |-> status[r]]}
          /\ UNCHANGED storeFailed
       \/ storeFailed' = TRUE /\ UNCHANGED usage
    /\ Goto(r, "answered")
    /\ UNCHANGED <<authEnabled, keys, lastUsed, hits, sent, identity, market,
                   status>>

(* A hit leaves the window. *)
Expire(k) ==
    /\ hits[k] > 0
    /\ hits' = [hits EXCEPT ![k] = @ - 1]
    /\ UNCHANGED <<store, local>>

(* The API process restarts: the limiter and requests in flight are lost.  *)
Restart ==
    /\ hits' = [k \in Keys |-> 0]
    /\ pc' = [r \in Requests |-> IF pc[r] \in InFlight THEN "lost" ELSE pc[r]]
    /\ UNCHANGED <<store, sent, identity, market, status>>

Proceed(r) ==
    \/ NotFound(r)
    \/ SkipAuth(r)
    \/ Reject(r)
    \/ Identify(r)
    \/ LookupFails(r)
    \/ Admit(r)
    \/ Throttle(r)
    \/ Touch(r)
    \/ CheckMarket(r)
    \/ Handle(r)
    \/ Meter(r)

Next ==
    \/ \E k \in Keys : IssueKey(k) \/ Revoke(k) \/ Expire(k)
    \/ \E r \in Requests : Send(r) \/ Proceed(r)
    \/ Restart

Spec == Init /\ [][Next]_vars

(* The threadpool and the event loop run every request to its end.         *)
FairSpec == Spec /\ \A r \in Requests : WF_vars(Proceed(r))
------------------------------------------------------------------------------
(* Who a usage event must be charged to, given how its request fared.  A   *)
(* request that never had its key accepted, or took no route, has no key;  *)
(* a throttled one has its key and, market access never having been asked  *)
(* for, no market; a forbidden one has its key as well and names a market  *)
(* outside the key's plan; an answered one a market inside it.             *)
EventsAttributed ==
    authEnabled => \A e \in usage :
        /\ e.key = (IF e.status \in {401, 404} THEN NoKey ELSE sent[e.request].key)
        /\ e.market = (IF e.status \in {401, 404, 429} THEN NoMarket
                       ELSE sent[e.request].market)
        /\ e.key \in Keys /\ e.market \in Markets =>
               (e.status = 403) = (e.market \notin Entitled[e.key])

(* With authentication disabled nothing is charged to a key, and no key    *)
(* looks used.                                                             *)
AnonymousIsFree ==
    ~ authEnabled => lastUsed = {} /\ \A e \in usage : e.key = NoKey

(* The usage table charges every request to the right key, or to none.     *)
EventsHold == TypeOK /\ EventsAttributed /\ AnonymousIsFree

(* A request that carries a key revoked before it was sent reaches neither *)
(* the limiter nor a handler, however the store's transactions interleave. *)
RevocationHolds ==
    \A r \in Requests :
        authEnabled /\ sent[r].found = "revoked" =>
            identity[r] = NoKey /\ status[r] \in {0, 401, 404, 500}

(* What the client was answered is what is metered, once: an answer        *)
(* without an event is one whose request raised, or the store failed.      *)
AnswersMetered ==
    \A r \in Requests : pc[r] = "answered" =>
        LET events == {e \in usage : e.request = r}
        IN  /\ status[r] # 500 /\ ~ storeFailed => events # {}
            /\ \A e \in events : events = {e} /\ e.status = status[r]

(* The two commands of the key tool agree: unless the store failed, a key  *)
(* with usage beyond throttling shows a last use; and a key with a last use *)
(* was admitted.                                                           *)
LastUseMatchesUsage ==
    /\ ~ storeFailed =>
           \A e \in usage :
               e.key \in Keys /\ e.status # 429 => e.key \in lastUsed
    /\ \A k \in lastUsed : \E r \in Requests :
           /\ identity[r] = k
           /\ status[r] # 429
           /\ keys[k] # "unissued"

(* The requests that were admitted with a key. *)
Spenders(k) ==
    {r \in Requests :
        identity[r] = k /\ pc[r] # "limiting" /\ status[r] # 429}

(* Only requests that were admitted with a key use up its quota.           *)
QuotaIsSpentByOwner == \A k \in Keys : hits[k] <= Cardinality(Spenders(k))

(* The two side effects of an admission, on the limiter and on the store,  *)
(* belong to the key that was admitted.                                    *)
AdmissionsAccounted == LastUseMatchesUsage /\ QuotaIsSpentByOwner

(* A request is answered, or dies with the process: faults of the store    *)
(* and of the metering never leave a client waiting.                       *)
EveryRequestAnswered ==
    \A r \in Requests : pc[r] = "arrived" ~> pc[r] \in {"answered", "lost"}

(* REFUTED.  middleware.py: "Every ``/v1`` request is recorded".  That of a *)
(* handler that raises is not.                                             *)
EveryV1RequestRecorded ==
    \A r \in Requests :
        pc[r] = "answered" /\ ~ storeFailed => \E e \in usage : e.request = r

(* REFUTED.  middleware.py: "Rejected requests are recorded too (with a    *)
(* null key), because sustained 401s and 403s are the first signal".  A 403 *)
(* is raised after the identity was attached, and has its key.             *)
RejectedHaveNoKey ==
    \A e \in usage : e.status \in {401, 403} => e.key = NoKey
==============================================================================
