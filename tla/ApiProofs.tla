------------------------------- MODULE ApiProofs -------------------------------
(***************************************************************************)
(* The two parts of the API, with no state in common.                      *)
(*                                                                         *)
(* ApiGateway, for any requests, keys, markets and limit: the usage table  *)
(* charges each answer once and to the right key, a revoked key reaches    *)
(* nothing, and what an admission leaves on the limiter and in the store   *)
(* belongs to the key that was admitted, however the requests and the key  *)
(* tool interleave and whatever the store and the process do.              *)
(*                                                                         *)
(* RateLimiter, for any number of attempts and threads and any limit,      *)
(* window and clock: the deque never outgrows the limit, n overlapping     *)
(* threads overrun it by less than n, one thread at a time denies only     *)
(* when the window is full, and a denied client that waits for retry_after *)
(* finds room.                                                             *)
(***************************************************************************)
EXTENDS ApiGateway, RateLimiter, FiniteSetTheorems, SequenceTheorems,
        WellFoundedInduction, TLAPS

------------------------------------------------------------------------------
(* The gateway.                                                            *)

(* A request is nobody's until its key was looked up, and then its own.    *)
IdentityIsSent ==
    \A r \in Requests :
        /\ pc[r] \in {"unsent", "arrived"} =>
               /\ identity[r] = NoKey
               /\ market[r] = NoMarket
               /\ status[r] = 0
        /\ authEnabled => identity[r] \in {NoKey, sent[r].key} \cap (Keys \cup {NoKey})
        /\ ~ authEnabled => identity[r] \in {NoKey, Anonymous}
        /\ identity[r] \in Keys => keys[identity[r]] # "unissued"

(* What holds at each point of a request's way. *)
OnItsWay ==
    \A r \in Requests :
        /\ pc[r] \in {"limiting", "touching"} => identity[r] \in Keys
        /\ pc[r] \in {"limiting", "touching", "entitling"} =>
               /\ market[r] = NoMarket /\ sent[r].market # Unrouted
               /\ status[r] = 0 /\ identity[r] # NoKey
        /\ pc[r] = "handling" =>
               /\ status[r] = 0
               /\ identity[r] # NoKey
               /\ market[r] = sent[r].market
               /\ MayRead(identity[r], market[r])
        /\ pc[r] = "metering" => status[r] \notin {0, 500}
        /\ pc[r] = "answered" => status[r] # 0

(* What an answer tells of the way it took. *)
AnswerExplained ==
    \A r \in Requests :
        /\ status[r] \in {401, 404} => identity[r] = NoKey /\ market[r] = NoMarket
        /\ status[r] = 429 => identity[r] \in Keys /\ market[r] = NoMarket
        /\ status[r] = 403 =>
               /\ identity[r] # NoKey
               /\ market[r] = sent[r].market
               /\ ~ MayRead(identity[r], market[r])
        /\ status[r] \in {200, 503} =>
               /\ identity[r] # NoKey
               /\ market[r] = sent[r].market
               /\ MayRead(identity[r], market[r])

(* A usage event is a copy of what the request's state holds at its end.   *)
UsageCopies ==
    /\ \A e \in usage :
           /\ pc[e.request] = "answered"
           /\ e.key = (IF identity[e.request] = Anonymous THEN NoKey
                       ELSE identity[e.request])
           /\ e.market = market[e.request]
           /\ e.status = status[e.request]
           /\ e.status # 500
    /\ ~ storeFailed =>
           \A r \in Requests : pc[r] = "answered" /\ status[r] # 500 =>
               \E e \in usage : e.request = r

(* A key found revoked when its request was sent still is, and the request *)
(* stays nobody's.                                                         *)
RevokedIsRefused ==
    \A r \in Requests : sent[r].found = "revoked" =>
        /\ sent[r].key \in Keys
        /\ keys[sent[r].key] = "revoked"
        /\ authEnabled => identity[r] = NoKey

(* r went through the limiter and was not throttled. *)
Passed(r) == pc[r] \notin {"unsent", "arrived", "limiting"} /\ status[r] # 429

(* A last use is that of a request past the limiter ...                    *)
LastUseEarned ==
    \A k \in lastUsed : \E r \in Requests : identity[r] = k /\ Passed(r)

(* ... and such a request leaves one, unless the store failed.             *)
PassingTouches ==
    ~ storeFailed =>
        \A r \in Requests :
            pc[r] # "touching" /\ pc[r] # "lost" /\ Passed(r) =>
                identity[r] \in lastUsed \cup {NoKey, Anonymous}

(* The inductive invariant. *)
IInv ==
    /\ TypeOK
    /\ IdentityIsSent
    /\ OnItsWay
    /\ AnswerExplained
    /\ UsageCopies
    /\ RevokedIsRefused
    /\ LastUseEarned
    /\ PassingTouches
    /\ QuotaIsSpentByOwner

------------------------------------------------------------------------------
(* A key's spenders are finitely many, and no fewer when there are more.   *)
LEMMA SpendersCount ==
    ASSUME NEW k \in Keys, Spenders(k) \subseteq Spenders(k)'
    PROVE  /\ Cardinality(Spenders(k)) \in Nat
           /\ Cardinality(Spenders(k)') \in Nat
           /\ Cardinality(Spenders(k)) <= Cardinality(Spenders(k)')
<1>1. IsFiniteSet(Spenders(k)')
  BY GatewayAssumption, FS_Subset DEF Spenders
<1>2. IsFiniteSet(Spenders(k))
  BY GatewayAssumption, FS_Subset DEF Spenders
<1>3. QED
  BY <1>1, FS_Subset, FS_CardinalityType

(* Quotas are respected by a step that takes no hit and no spender away.   *)
LEMMA QuotaKept ==
    ASSUME TypeOK, TypeOK', QuotaIsSpentByOwner,
           \A k \in Keys : hits'[k] <= hits[k],
           \A k \in Keys : Spenders(k) \subseteq Spenders(k)'
    PROVE  QuotaIsSpentByOwner'
<1> SUFFICES ASSUME NEW k \in Keys
             PROVE  hits'[k] <= Cardinality(Spenders(k)')
  BY DEF QuotaIsSpentByOwner
<1>1. hits[k] <= Cardinality(Spenders(k)) /\ hits'[k] <= hits[k]
  BY DEF QuotaIsSpentByOwner
<1>2. hits[k] \in Nat /\ hits'[k] \in Nat
  BY DEF TypeOK
<1>3. QED
  BY <1>1, <1>2, SpendersCount

(* A new key has no history.                                               *)
LEMMA IssueKeyKeeps ==
    ASSUME IInv, NEW k \in Keys, IssueKey(k)
    PROVE  IInv'
<1>1. TypeOK'
  BY DEF IInv, TypeOK, IssueKey, local, KeyStates
<1>2. IdentityIsSent'
  BY DEF IInv, IdentityIsSent, IssueKey, local
<1>3. RevokedIsRefused'
  BY DEF IInv, RevokedIsRefused, IssueKey, local
<1>4. /\ OnItsWay'
     /\ AnswerExplained'
     /\ UsageCopies'
     /\ LastUseEarned'
     /\ PassingTouches'
     /\ QuotaIsSpentByOwner'
  BY DEF IInv, OnItsWay, AnswerExplained, UsageCopies, LastUseEarned,
     PassingTouches, QuotaIsSpentByOwner, IssueKey, local, Spenders, Passed
<1>5. QED
  BY <1>1, <1>2, <1>3, <1>4 DEF IInv

(* Revocation changes keys alone.                                          *)
LEMMA RevokeKeeps ==
    ASSUME IInv, NEW k \in Keys, Revoke(k)
    PROVE  IInv'
<1>1. TypeOK'
  BY DEF IInv, TypeOK, Revoke, local, KeyStates
<1>2. IdentityIsSent'
  BY DEF IInv, IdentityIsSent, Revoke, local
<1>3. RevokedIsRefused'
  BY DEF IInv, RevokedIsRefused, Revoke, local
<1>4. /\ OnItsWay'
     /\ AnswerExplained'
     /\ UsageCopies'
     /\ LastUseEarned'
     /\ PassingTouches'
     /\ QuotaIsSpentByOwner'
  BY DEF IInv, OnItsWay, AnswerExplained, UsageCopies, LastUseEarned,
     PassingTouches, QuotaIsSpentByOwner, Revoke, local, Spenders, Passed
<1>5. QED
  BY <1>1, <1>2, <1>3, <1>4 DEF IInv

(* An expiring hit frees quota.                                            *)
LEMMA ExpireKeeps ==
    ASSUME IInv, NEW k \in Keys, Expire(k)
    PROVE  IInv'
<1>1. TypeOK'
  BY GatewayAssumption DEF IInv, TypeOK, Expire, store, local
<1>2. QuotaIsSpentByOwner'
  <2>1. \A q \in Keys : Spenders(q) \subseteq Spenders(q)'
    BY DEF Expire, local, Spenders
  <2>2. \A q \in Keys : hits'[q] <= hits[q]
    BY DEF IInv, TypeOK, Expire
  <2>3. QED
    BY <1>1, <2>1, <2>2, QuotaKept DEF IInv
<1>3. /\ IdentityIsSent'
     /\ OnItsWay'
     /\ AnswerExplained'
     /\ UsageCopies'
     /\ RevokedIsRefused'
     /\ LastUseEarned'
     /\ PassingTouches'
  BY DEF IInv, IdentityIsSent, OnItsWay, AnswerExplained, UsageCopies,
     RevokedIsRefused, LastUseEarned, PassingTouches, Expire, store, local,
     Passed
<1>4. QED
  BY <1>1, <1>2, <1>3 DEF IInv

(* A request leaves its client.                                            *)
LEMMA SendKeeps ==
    ASSUME IInv, NEW r \in Requests, Send(r)
    PROVE  IInv'
<1>1. TypeOK'
  BY DEF IInv, TypeOK, Send, store, InFlight, KeyStates
<1>2. IdentityIsSent'
  BY DEF IInv, IdentityIsSent, Send, store
<1>3. OnItsWay'
  BY DEF IInv, OnItsWay, Send
<1>4. AnswerExplained'
  BY DEF IInv, AnswerExplained, IdentityIsSent, Send
<1>5. UsageCopies'
  BY DEF IInv, UsageCopies, Send, store
<1>6. RevokedIsRefused'
  BY DEF IInv, RevokedIsRefused, IdentityIsSent, Send, store
<1>7. LastUseEarned'
  BY DEF IInv, LastUseEarned, Send, store, Passed
<1>8. PassingTouches'
  BY DEF IInv, PassingTouches, Send, store, Passed
<1>9. QuotaIsSpentByOwner'
  <2>1. \A k \in Keys : Spenders(k) \subseteq Spenders(k)'
    BY DEF Send, Spenders
  <2>2. \A q \in Keys : hits'[q] <= hits[q]
    BY DEF IInv, TypeOK, Send
  <2>3. QED
    BY <1>1, <2>1, <2>2, QuotaKept DEF IInv
<1>10. QED
  BY <1>1, <1>2, <1>3, <1>4, <1>5, <1>6, <1>7, <1>8, <1>9 DEF IInv

(* Authentication disabled.                                                *)
LEMMA SkipAuthKeeps ==
    ASSUME IInv, NEW r \in Requests, SkipAuth(r)
    PROVE  IInv'
<1>1. TypeOK'
  BY DEF IInv, TypeOK, SkipAuth, Routed, Goto, store, InFlight
<1>2. IdentityIsSent'
  BY GatewayAssumption DEF IInv, TypeOK, IdentityIsSent, SkipAuth, Routed, Goto, store
<1>3. OnItsWay'
  BY GatewayAssumption DEF IInv, TypeOK, OnItsWay, IdentityIsSent, SkipAuth, Routed,
     Goto
<1>4. AnswerExplained'
  BY DEF IInv, AnswerExplained, IdentityIsSent, SkipAuth, Routed
<1>5. UsageCopies'
  BY DEF IInv, UsageCopies, SkipAuth, Routed, Goto, store
<1>6. RevokedIsRefused'
  BY DEF IInv, RevokedIsRefused, SkipAuth, Routed, store
<1>7. LastUseEarned'
  BY DEF IInv, LastUseEarned, SkipAuth, Routed, Goto, store, Passed
<1>8. PassingTouches'
  BY DEF IInv, PassingTouches, IdentityIsSent, SkipAuth, Routed
<1>9. QuotaIsSpentByOwner'
  <2>1. \A k \in Keys : Spenders(k) \subseteq Spenders(k)'
    BY GatewayAssumption DEF IInv, IdentityIsSent, SkipAuth, Routed, Spenders
  <2>2. \A q \in Keys : hits'[q] <= hits[q]
    BY DEF IInv, TypeOK, SkipAuth, Routed
  <2>3. QED
    BY <1>1, <2>1, <2>2, QuotaKept DEF IInv
<1>10. QED
  BY <1>1, <1>2, <1>3, <1>4, <1>5, <1>6, <1>7, <1>8, <1>9 DEF IInv

(* A path without a route.                                                 *)
LEMMA NotFoundKeeps ==
    ASSUME IInv, NEW r \in Requests, NotFound(r)
    PROVE  IInv'
<1>1. TypeOK'
  BY DEF IInv, TypeOK, NotFound, Respond, Goto, store, InFlight, Statuses
<1>2. IdentityIsSent'
  BY DEF IInv, TypeOK, IdentityIsSent, NotFound, Respond, Goto, store
<1>3. OnItsWay'
  BY DEF IInv, TypeOK, OnItsWay, NotFound, Respond, Goto
<1>4. AnswerExplained'
  BY DEF IInv, AnswerExplained, IdentityIsSent, NotFound, Respond
<1>5. UsageCopies'
  BY DEF IInv, UsageCopies, NotFound, Respond, Goto, store
<1>6. LastUseEarned'
  BY DEF IInv, LastUseEarned, NotFound, Respond, Goto, store, Passed
<1>7. PassingTouches'
  BY DEF IInv, PassingTouches, IdentityIsSent, NotFound, Respond, Goto, store,
     Passed
<1>8. QuotaIsSpentByOwner'
  <2>1. \A k \in Keys : Spenders(k) \subseteq Spenders(k)'
    BY DEF NotFound, Respond, Goto, Spenders
  <2>2. \A q \in Keys : hits'[q] <= hits[q]
    BY DEF IInv, TypeOK, NotFound
  <2>3. QED
    BY <1>1, <2>1, <2>2, QuotaKept DEF IInv
<1>9. RevokedIsRefused'
  BY DEF IInv, RevokedIsRefused, NotFound, store
<1>10. QED
  BY <1>1, <1>2, <1>3, <1>4, <1>5, <1>6, <1>7, <1>8, <1>9 DEF IInv

(* A request is refused.                                                   *)
LEMMA RejectKeeps ==
    ASSUME IInv, NEW r \in Requests, Reject(r)
    PROVE  IInv'
<1>1. TypeOK'
  BY DEF IInv, TypeOK, Reject, Routed, Respond, Goto, store, InFlight, Statuses
<1>2. IdentityIsSent'
  BY DEF IInv, TypeOK, IdentityIsSent, Reject, Routed, Respond, Goto, store
<1>3. OnItsWay'
  BY DEF IInv, TypeOK, OnItsWay, Reject, Routed, Respond, Goto
<1>4. AnswerExplained'
  BY DEF IInv, AnswerExplained, IdentityIsSent, Reject, Routed, Respond
<1>5. UsageCopies'
  BY DEF IInv, UsageCopies, Reject, Routed, Respond, Goto, store
<1>6. LastUseEarned'
  BY DEF IInv, LastUseEarned, Reject, Routed, Respond, Goto, store, Passed
<1>7. PassingTouches'
  BY DEF IInv, PassingTouches, IdentityIsSent, Reject, Routed, Respond, Goto, store,
     Passed
<1>8. QuotaIsSpentByOwner'
  <2>1. \A k \in Keys : Spenders(k) \subseteq Spenders(k)'
    BY DEF Reject, Routed, Respond, Goto, Spenders
  <2>2. \A q \in Keys : hits'[q] <= hits[q]
    BY DEF IInv, TypeOK, Reject, Routed
  <2>3. QED
    BY <1>1, <2>1, <2>2, QuotaKept DEF IInv
<1>9. RevokedIsRefused'
  BY DEF IInv, RevokedIsRefused, Reject, Routed, store
<1>10. QED
  BY <1>1, <1>2, <1>3, <1>4, <1>5, <1>6, <1>7, <1>8, <1>9 DEF IInv

(* A key is found to be active.                                            *)
LEMMA IdentifyKeeps ==
    ASSUME IInv, NEW r \in Requests, Identify(r)
    PROVE  IInv'
<1>1. TypeOK'
  BY DEF IInv, TypeOK, Identify, Routed, Goto, store, InFlight
<1>2. IdentityIsSent'
  BY DEF IInv, TypeOK, IdentityIsSent, Identify, Routed, Accepts, Goto, store
<1>3. OnItsWay'
  BY GatewayAssumption DEF IInv, TypeOK, OnItsWay, IdentityIsSent, Identify, Routed,
     Accepts, Goto
<1>4. AnswerExplained'
  BY DEF IInv, AnswerExplained, IdentityIsSent, Identify, Routed
<1>5. UsageCopies'
  BY DEF IInv, UsageCopies, Identify, Routed, Goto, store
<1>6. RevokedIsRefused'
  BY DEF IInv, RevokedIsRefused, Identify, Routed, Accepts, store
<1>7. LastUseEarned'
  BY DEF IInv, LastUseEarned, Identify, Routed, Goto, store, Passed
<1>8. PassingTouches'
  BY DEF IInv, PassingTouches, Identify, Routed, Goto, store, Passed
<1>9. QuotaIsSpentByOwner'
  <2>1. \A k \in Keys : Spenders(k) \subseteq Spenders(k)'
    BY GatewayAssumption DEF IInv, IdentityIsSent, Identify, Routed, Goto, Spenders
  <2>2. \A q \in Keys : hits'[q] <= hits[q]
    BY DEF IInv, TypeOK, Identify, Routed
  <2>3. QED
    BY <1>1, <2>1, <2>2, QuotaKept DEF IInv
<1>10. QED
  BY <1>1, <1>2, <1>3, <1>4, <1>5, <1>6, <1>7, <1>8, <1>9 DEF IInv

(* The lookup raises.                                                      *)
LEMMA LookupFailsKeeps ==
    ASSUME IInv, NEW r \in Requests, LookupFails(r)
    PROVE  IInv'
<1>1. TypeOK'
  BY DEF IInv, TypeOK, LookupFails, Routed, Raise, Goto, Statuses
<1>2. IdentityIsSent'
  BY DEF IInv, TypeOK, IdentityIsSent, LookupFails, Routed, Raise, Goto
<1>3. OnItsWay'
  BY DEF IInv, TypeOK, OnItsWay, LookupFails, Routed, Raise, Goto
<1>4. AnswerExplained'
  BY DEF IInv, AnswerExplained, LookupFails, Routed, Raise
<1>5. UsageCopies'
  BY DEF IInv, UsageCopies, LookupFails, Routed, Raise, Goto
<1>6. LastUseEarned'
  BY DEF IInv, LastUseEarned, LookupFails, Routed, Raise, Goto, Passed
<1>7. PassingTouches'
  BY DEF PassingTouches, LookupFails, Routed
<1>8. QuotaIsSpentByOwner'
  <2>1. \A k \in Keys : Spenders(k) \subseteq Spenders(k)'
    BY DEF LookupFails, Routed, Raise, Goto, Spenders
  <2>2. \A q \in Keys : hits'[q] <= hits[q]
    BY DEF IInv, TypeOK, LookupFails, Routed
  <2>3. QED
    BY <1>1, <2>1, <2>2, QuotaKept DEF IInv
<1>9. RevokedIsRefused'
  BY DEF IInv, RevokedIsRefused, LookupFails, Routed
<1>10. QED
  BY <1>1, <1>2, <1>3, <1>4, <1>5, <1>6, <1>7, <1>8, <1>9 DEF IInv

(* The limiter counts a hit for the request's key.                         *)
LEMMA AdmitKeeps ==
    ASSUME IInv, NEW r \in Requests, Admit(r)
    PROVE  IInv'
<1>1. TypeOK'
  BY GatewayAssumption DEF IInv, TypeOK, OnItsWay, Admit, Goto, store,
     InFlight
<1>2. IdentityIsSent'
  BY DEF IInv, IdentityIsSent, Admit, Goto, store
<1>3. OnItsWay'
  BY DEF IInv, OnItsWay, Admit, Goto
<1>4. UsageCopies'
  BY DEF IInv, UsageCopies, Admit, Goto, store
<1>5. LastUseEarned'
  BY DEF IInv, LastUseEarned, Admit, Goto, store, Passed
<1>6. PassingTouches'
  BY DEF IInv, PassingTouches, Admit, Goto, store, Passed
<1>7. QuotaIsSpentByOwner'
  <2>1. PICK own \in Keys :
            own = identity[r] /\ pc[r] = "limiting" /\ status[r] = 0
    BY DEF IInv, OnItsWay, Admit
  <2>2. \A k \in Keys : Spenders(k) \subseteq Spenders(k)'
    BY DEF Spenders, Admit, Goto
  <2>3. Spenders(own)' = Spenders(own) \cup {r} /\ r \notin Spenders(own)
    BY <2>1 DEF IInv, TypeOK, Spenders, Admit, Goto
  <2>4. IsFiniteSet(Spenders(own))
    BY GatewayAssumption, FS_Subset DEF Spenders
  <2>5. Cardinality(Spenders(own)') = Cardinality(Spenders(own)) + 1
    BY <2>3, <2>4, FS_AddElement
  <2>6. SUFFICES ASSUME NEW k \in Keys
                 PROVE  hits'[k] <= Cardinality(Spenders(k)')
    BY DEF QuotaIsSpentByOwner
  <2>7. hits[k] \in Nat /\ hits[k] <= Cardinality(Spenders(k))
    BY DEF IInv, TypeOK, QuotaIsSpentByOwner
  <2>8. CASE k = own
    <3>1. hits'[k] = hits[k] + 1
      BY <2>1, <2>8 DEF IInv, TypeOK, Admit
    <3>2. QED
      BY <2>2, <2>5, <2>7, <2>8, <3>1, SpendersCount
  <2>9. CASE k # own
    <3>1. hits'[k] = hits[k]
      BY <2>1, <2>9 DEF Admit
    <3>2. QED
      BY <2>2, <2>7, <3>1, SpendersCount
  <2>10. QED
    BY <2>8, <2>9
<1>8. /\ AnswerExplained'
     /\ RevokedIsRefused'
  BY DEF IInv, AnswerExplained, RevokedIsRefused, Admit, store
<1>9. QED
  BY <1>1, <1>2, <1>3, <1>4, <1>5, <1>6, <1>7, <1>8 DEF IInv

(* The limiter is full.                                                    *)
LEMMA ThrottleKeeps ==
    ASSUME IInv, NEW r \in Requests, Throttle(r)
    PROVE  IInv'
<1>1. TypeOK'
  BY DEF IInv, TypeOK, Throttle, Respond, Goto, store, InFlight, Statuses
<1>2. IdentityIsSent'
  BY DEF IInv, IdentityIsSent, Throttle, Respond, Goto, store
<1>3. OnItsWay'
  BY DEF IInv, TypeOK, OnItsWay, Throttle, Respond, Goto
<1>4. AnswerExplained'
  BY DEF IInv, AnswerExplained, OnItsWay, Throttle, Respond
<1>5. UsageCopies'
  BY DEF IInv, UsageCopies, Throttle, Respond, Goto, store
<1>6. LastUseEarned'
  BY DEF IInv, LastUseEarned, Throttle, Respond, Goto, store, Passed
<1>7. PassingTouches'
  BY DEF IInv, TypeOK, PassingTouches, Throttle, Respond, Goto, store, Passed
<1>8. QuotaIsSpentByOwner'
  <2>1. \A k \in Keys : Spenders(k) \subseteq Spenders(k)'
    BY DEF Throttle, Respond, Goto, Spenders
  <2>2. \A q \in Keys : hits'[q] <= hits[q]
    BY DEF IInv, TypeOK, Throttle
  <2>3. QED
    BY <1>1, <2>1, <2>2, QuotaKept DEF IInv
<1>9. RevokedIsRefused'
  BY DEF IInv, RevokedIsRefused, Throttle, store
<1>10. QED
  BY <1>1, <1>2, <1>3, <1>4, <1>5, <1>6, <1>7, <1>8, <1>9 DEF IInv

(* The last use is stored, or the store fails.                             *)
LEMMA TouchKeeps ==
    ASSUME IInv, NEW r \in Requests, Touch(r)
    PROVE  IInv'
<1>1. TypeOK'
  <2>1. identity[r] \in Keys
    BY DEF IInv, OnItsWay, Touch
  <2>2. lastUsed' \subseteq Keys /\ storeFailed' \in BOOLEAN
    BY <2>1 DEF IInv, TypeOK, Touch
  <2>3. QED
    BY <2>2 DEF IInv, TypeOK, Touch, Goto, InFlight
<1>2. IdentityIsSent'
  BY DEF IInv, IdentityIsSent, Touch, Goto
<1>3. OnItsWay'
  BY DEF IInv, OnItsWay, Touch, Goto
<1>4. UsageCopies'
  BY DEF IInv, UsageCopies, Touch, Goto
<1>5. LastUseEarned'
  BY DEF IInv, LastUseEarned, OnItsWay, Touch, Goto, Passed
<1>6. PassingTouches'
  BY DEF IInv, PassingTouches, Touch, Goto, Passed
<1>7. QuotaIsSpentByOwner'
  <2>1. \A k \in Keys : Spenders(k) \subseteq Spenders(k)'
    BY DEF Touch, Goto, Spenders
  <2>2. \A q \in Keys : hits'[q] <= hits[q]
    BY DEF IInv, TypeOK, Touch
  <2>3. QED
    BY <1>1, <2>1, <2>2, QuotaKept DEF IInv
<1>8. /\ AnswerExplained'
     /\ RevokedIsRefused'
  BY DEF IInv, AnswerExplained, RevokedIsRefused, Touch
<1>9. QED
  BY <1>1, <1>2, <1>3, <1>4, <1>5, <1>6, <1>7, <1>8 DEF IInv

(* Entitlement to the market of the path.                                  *)
LEMMA CheckMarketKeeps ==
    ASSUME IInv, NEW r \in Requests, CheckMarket(r)
    PROVE  IInv'
<1>1. TypeOK'
  <2>1. pc' \in [Requests -> InFlight \cup {"unsent", "answered", "lost"}]
    BY DEF IInv, TypeOK, CheckMarket, Respond, Goto, InFlight
  <2>2. market' \in [Requests -> Markets \cup {NoMarket}]
    BY DEF IInv, TypeOK, OnItsWay, CheckMarket
  <2>3. status' \in [Requests -> Statuses \cup {0}]
    BY DEF IInv, TypeOK, CheckMarket, Respond, Goto, Statuses
  <2>4. UNCHANGED <<authEnabled, storeFailed, keys, lastUsed, usage, hits, sent, identity>>
    BY DEF CheckMarket, store
  <2>5. QED
    BY <2>1, <2>2, <2>3, <2>4 DEF IInv, TypeOK
<1>2. IdentityIsSent'
  BY DEF IInv, TypeOK, IdentityIsSent, CheckMarket, Respond, Goto, store
<1>3. OnItsWay'
  BY DEF IInv, TypeOK, OnItsWay, CheckMarket, Respond, Goto
<1>4. AnswerExplained'
  BY DEF IInv, TypeOK, AnswerExplained, OnItsWay, CheckMarket, Respond
<1>5. UsageCopies'
  BY DEF IInv, TypeOK, UsageCopies, CheckMarket, Respond, Goto, store, MayRead
<1>6. LastUseEarned'
  BY DEF IInv, TypeOK, LastUseEarned, CheckMarket, Respond, Goto, store,
     Passed
<1>7. PassingTouches'
  BY DEF IInv, TypeOK, PassingTouches, OnItsWay, CheckMarket, Respond, Goto,
     store, MayRead, Passed
<1>8. QuotaIsSpentByOwner'
  <2>1. \A k \in Keys : Spenders(k) \subseteq Spenders(k)'
    BY DEF IInv, TypeOK, CheckMarket, Respond, Goto, Spenders
  <2>2. \A q \in Keys : hits'[q] <= hits[q]
    BY DEF IInv, TypeOK, CheckMarket
  <2>3. QED
    BY <1>1, <2>1, <2>2, QuotaKept DEF IInv
<1>9. RevokedIsRefused'
  BY DEF IInv, RevokedIsRefused, CheckMarket, store
<1>10. QED
  BY <1>1, <1>2, <1>3, <1>4, <1>5, <1>6, <1>7, <1>8, <1>9 DEF IInv

(* A route answers, reports an error or raises.                            *)
LEMMA HandleKeeps ==
    ASSUME IInv, NEW r \in Requests, Handle(r)
    PROVE  IInv'
<1>1. TypeOK'
  <2>1. PICK code \in Statuses, label \in {"metering", "answered"} :
            /\ status' = [status EXCEPT ![r] = code]
            /\ pc' = [pc EXCEPT ![r] = label]
    BY DEF Handle, Respond, Raise, Goto, Statuses
  <2>2. QED
    BY <2>1 DEF IInv, TypeOK, Handle, store, InFlight
<1>2. IdentityIsSent'
  BY DEF IInv, TypeOK, IdentityIsSent, Handle, Respond, Raise, Goto, store
<1>3. OnItsWay'
  BY DEF IInv, TypeOK, OnItsWay, Handle, Respond, Raise, Goto
<1>4. AnswerExplained'
  BY DEF IInv, TypeOK, AnswerExplained, OnItsWay, Handle, Respond, Raise
<1>5. UsageCopies'
  BY DEF IInv, TypeOK, UsageCopies, Handle, Respond, Raise, Goto, store
<1>6. LastUseEarned'
  BY DEF IInv, TypeOK, LastUseEarned, Handle, Respond, Raise, Goto, store,
     Passed
<1>7. PassingTouches'
  BY DEF IInv, TypeOK, PassingTouches, OnItsWay, Handle, Respond, Raise, Goto,
     store, Passed
<1>8. QuotaIsSpentByOwner'
  <2>1. \A k \in Keys : Spenders(k) \subseteq Spenders(k)'
    BY DEF IInv, TypeOK, Handle, Respond, Raise, Goto, Spenders
  <2>2. \A q \in Keys : hits'[q] <= hits[q]
    BY DEF IInv, TypeOK, Handle
  <2>3. QED
    BY <1>1, <2>1, <2>2, QuotaKept DEF IInv
<1>9. RevokedIsRefused'
  BY DEF IInv, RevokedIsRefused, Handle, store
<1>10. QED
  BY <1>1, <1>2, <1>3, <1>4, <1>5, <1>6, <1>7, <1>8, <1>9 DEF IInv

(* The answer is metered, or the store fails.                              *)
LEMMA MeterKeeps ==
    ASSUME IInv, NEW r \in Requests, Meter(r)
    PROVE  IInv'
<1>1. TypeOK'
  <2>1. status[r] \in Statuses
    BY DEF IInv, TypeOK, OnItsWay, Meter
  <2>2. usage' \subseteq [request : Requests, key : Keys \cup {NoKey},
                         market : Markets \cup {NoMarket}, status : Statuses]
    BY <2>1 DEF IInv, TypeOK, Meter
  <2>3. storeFailed' \in BOOLEAN
    BY DEF IInv, TypeOK, Meter
  <2>4. QED
    BY <2>2, <2>3 DEF IInv, TypeOK, Meter, Goto
<1>2. IdentityIsSent'
  BY DEF IInv, IdentityIsSent, Meter, Goto
<1>3. OnItsWay'
  BY DEF IInv, OnItsWay, Meter, Goto
<1>4. UsageCopies'
  <2>1. \A e \in usage : e.request # r
    BY DEF IInv, UsageCopies, Meter
  <2>2. CASE storeFailed' = TRUE /\ UNCHANGED usage
    BY <2>2 DEF IInv, UsageCopies, Meter, Goto
  <2> DEFINE new == [request |-> r,
                     key |-> IF identity[r] = Anonymous THEN NoKey
                             ELSE identity[r],
                     market |-> market[r], status |-> status[r]]
  <2>3. CASE usage' = usage \cup {new} /\ UNCHANGED storeFailed
    <3>1. usage' = usage \cup {new}
      BY <2>3
    <3>2. new.request = r /\ new.market = market[r] /\ new.status = status[r]
          /\ new.key = (IF identity[r] = Anonymous THEN NoKey ELSE identity[r])
      OBVIOUS
    <3> HIDE DEF new
    <3>3. pc' = [pc EXCEPT ![r] = "answered"] /\ status[r] # 500
          /\ UNCHANGED <<storeFailed, identity, market, status>>
      BY <2>3 DEF IInv, OnItsWay, Meter, Goto
    <3>4. QED
      BY <3>1, <3>2, <3>3 DEF IInv, TypeOK, UsageCopies
  <2>4. QED
    BY <2>2, <2>3 DEF Meter
<1>5. LastUseEarned'
  BY DEF IInv, LastUseEarned, Meter, Goto, Passed
<1>6. PassingTouches'
  BY DEF IInv, PassingTouches, Meter, Goto, Passed
<1>7. QuotaIsSpentByOwner'
  <2>1. \A k \in Keys : Spenders(k) \subseteq Spenders(k)'
    BY DEF Meter, Goto, Spenders
  <2>2. \A q \in Keys : hits'[q] <= hits[q]
    BY DEF IInv, TypeOK, Meter
  <2>3. QED
    BY <1>1, <2>1, <2>2, QuotaKept DEF IInv
<1>8. /\ AnswerExplained'
     /\ RevokedIsRefused'
  BY DEF IInv, AnswerExplained, RevokedIsRefused, Meter
<1>9. QED
  BY <1>1, <1>2, <1>3, <1>4, <1>5, <1>6, <1>7, <1>8 DEF IInv

(* Requests in flight are lost, and so are all hits.                       *)
LEMMA RestartKeeps ==
    ASSUME IInv, Restart
    PROVE  IInv'
<1>1. TypeOK'
  BY GatewayAssumption DEF IInv, TypeOK, Restart, store
<1>2. IdentityIsSent'
  BY DEF IInv, IdentityIsSent, Restart, store
<1>3. OnItsWay'
  BY DEF IInv, OnItsWay, Restart
<1>4. UsageCopies'
  BY DEF IInv, TypeOK, UsageCopies, Restart, store, InFlight
<1>5. LastUseEarned'
  BY DEF IInv, LastUseEarned, Restart, store, Passed
<1>6. PassingTouches'
  BY DEF IInv, PassingTouches, Restart, store, Passed
<1>7. QuotaIsSpentByOwner'
  <2>1. \A k \in Keys : Spenders(k) \subseteq Spenders(k)'
    BY DEF Restart, Spenders
  <2>2. \A k \in Keys : hits'[k] <= hits[k]
    BY DEF IInv, TypeOK, Restart
  <2>3. QED
    BY <1>1, <2>1, <2>2, QuotaKept DEF IInv
<1>8. /\ AnswerExplained'
     /\ RevokedIsRefused'
  BY DEF IInv, AnswerExplained, RevokedIsRefused, Restart, store
<1>9. QED
  BY <1>1, <1>2, <1>3, <1>4, <1>5, <1>6, <1>7, <1>8 DEF IInv

------------------------------------------------------------------------------
LEMMA InitEstablishes == Init => IInv
<1> SUFFICES ASSUME Init
             PROVE  IInv
  OBVIOUS
<1>1. TypeOK
  <2>1. hits \in [Keys -> 0..Limit]
    BY GatewayAssumption DEF Init
  <2>2. sent \in [Requests -> [key : Keys \cup {NoKey},
                              market : Markets \cup {NoMarket, Unrouted},
                              found : KeyStates]]
    BY DEF Init, KeyStates
  <2>3. /\ keys \in [Keys -> KeyStates]
        /\ authEnabled \in BOOLEAN
        /\ storeFailed \in BOOLEAN
    BY DEF Init, KeyStates
  <2>4. /\ identity \in [Requests -> Keys \cup {NoKey, Anonymous}]
        /\ market \in [Requests -> Markets \cup {NoMarket}]
        /\ status \in [Requests -> Statuses \cup {0}]
        /\ pc \in [Requests -> InFlight \cup {"unsent", "answered", "lost"}]
        /\ lastUsed = {} /\ usage = {}
    BY DEF Init
  <2>5. QED
    BY <2>1, <2>2, <2>3, <2>4 DEF TypeOK
<1>2. /\ IdentityIsSent
      /\ OnItsWay
      /\ AnswerExplained
      /\ UsageCopies
      /\ RevokedIsRefused
      /\ LastUseEarned
      /\ PassingTouches
  BY GatewayAssumption DEF Init, IdentityIsSent, OnItsWay, AnswerExplained,
     UsageCopies, RevokedIsRefused, LastUseEarned, PassingTouches
<1>3. QuotaIsSpentByOwner
  <2>1. \A k \in Keys : IsFiniteSet(Spenders(k))
    BY GatewayAssumption, FS_Subset DEF Spenders
  <2>2. QED
    BY <2>1, FS_CardinalityType DEF Init, QuotaIsSpentByOwner
<1>4. QED
  BY <1>1, <1>2, <1>3 DEF IInv

LEMMA StutterKeeps == IInv /\ UNCHANGED vars => IInv'
<1> SUFFICES ASSUME IInv, UNCHANGED vars
             PROVE  IInv'
  OBVIOUS
<1>1. \A k \in Keys : Spenders(k)' = Spenders(k)
  BY DEF vars, Spenders
<1>2. QED
  BY <1>1 DEF vars, IInv, TypeOK, IdentityIsSent, OnItsWay, AnswerExplained,
     UsageCopies, RevokedIsRefused, LastUseEarned, PassingTouches, Passed,
     QuotaIsSpentByOwner

(* The inductive invariant holds in every reachable state.                 *)
THEOREM Inductive == Spec => []IInv
<1>1. IInv /\ Next => IInv'
  <2> SUFFICES ASSUME IInv, Next
               PROVE  IInv'
    OBVIOUS
  <2>1. ASSUME NEW r \in Requests, Proceed(r)
        PROVE  IInv'
    BY <2>1, NotFoundKeeps, SkipAuthKeeps, RejectKeeps, IdentifyKeeps, LookupFailsKeeps,
       AdmitKeeps, ThrottleKeeps, TouchKeeps, CheckMarketKeeps, HandleKeeps,
       MeterKeeps DEF Proceed
  <2>2. QED
    BY <2>1, IssueKeyKeeps, RevokeKeeps, ExpireKeeps, SendKeeps, RestartKeeps
       DEF Next
<1>2. QED
  BY <1>1, InitEstablishes, StutterKeeps, PTL DEF Spec

(* An event is charged to the key its request carried and to the market it *)
(* asked for, a 403 exactly when the key's plan lacks the market, and      *)
(* nothing is charged to anyone while authentication is disabled.          *)
THEOREM UsageIsChargedRight == Spec => []EventsHold
<1>1. IInv => EventsHold
  <2> SUFFICES ASSUME IInv
               PROVE  EventsHold
    OBVIOUS
  <2>1. EventsAttributed
    <3> SUFFICES ASSUME authEnabled, NEW e \in usage
                 PROVE
        /\ e.key = (IF e.status \in {401, 404} THEN NoKey ELSE sent[e.request].key)
        /\ e.market = (IF e.status \in {401, 404, 429} THEN NoMarket
                       ELSE sent[e.request].market)
        /\ e.key \in Keys /\ e.market \in Markets =>
               (e.status = 403) = (e.market \notin Entitled[e.key])
      BY DEF EventsAttributed
    <3>1. PICK r \in Requests : r = e.request
      BY DEF IInv, TypeOK
    <3>2. /\ e.key = (IF identity[r] = Anonymous THEN NoKey ELSE identity[r])
          /\ e.market = market[r]
          /\ e.status = status[r]
          /\ status[r] \in {200, 401, 403, 404, 429, 503}
      BY <3>1 DEF IInv, TypeOK, OnItsWay, UsageCopies, Statuses
    <3>3. identity[r] \in {NoKey, sent[r].key} /\ identity[r] \in Keys \cup {NoKey}
      BY DEF IInv, IdentityIsSent
    <3>4. QED
      BY <3>1, <3>2, <3>3, GatewayAssumption DEF IInv, AnswerExplained,
         MayRead
  <2>2. AnonymousIsFree
    <3> SUFFICES ASSUME ~ authEnabled
                 PROVE  lastUsed = {} /\ \A e \in usage : e.key = NoKey
      BY DEF AnonymousIsFree
    <3>1. \A r \in Requests : identity[r] \in {NoKey, Anonymous}
      BY DEF IInv, IdentityIsSent
    <3>2. lastUsed = {}
      BY <3>1, GatewayAssumption DEF IInv, TypeOK, LastUseEarned
    <3>3. \A e \in usage : e.key = NoKey
      BY <3>1 DEF IInv, TypeOK, UsageCopies
    <3>4. QED
      BY <3>2, <3>3
  <2>3. QED
    BY <2>1, <2>2 DEF IInv, EventsHold
<1>2. QED
  BY <1>1, Inductive, PTL

(* A request sent with a key that was revoked before is refused, or fails, *)
(* and never gets an identity, whatever happens to it and around it.       *)
THEOREM RevokedKeysAreRefused == Spec => []RevocationHolds
<1>1. IInv => RevocationHolds
  <2> SUFFICES ASSUME IInv, NEW r \in Requests, authEnabled,
                      sent[r].found = "revoked"
               PROVE  identity[r] = NoKey /\ status[r] \in {0, 401, 404, 500}
    BY DEF RevocationHolds
  <2>1. identity[r] = NoKey
    BY DEF IInv, RevokedIsRefused
  <2>2. QED
    BY <2>1, GatewayAssumption DEF IInv, TypeOK, AnswerExplained, Statuses
<1>2. QED
  BY <1>1, Inductive, PTL

(* An answered request has one event, with the status its client got,      *)
(* unless it raised or the store failed.                                   *)
THEOREM AnswersAreMeteredOnce == Spec => []AnswersMetered
<1>1. IInv => AnswersMetered
  <2> SUFFICES ASSUME IInv, NEW r \in Requests, pc[r] = "answered"
               PROVE
        LET events == {e \in usage : e.request = r}
        IN  /\ status[r] # 500 /\ ~ storeFailed => events # {}
            /\ \A e \in events : events = {e} /\ e.status = status[r]
    BY DEF AnswersMetered
  <2>1. \A e, f \in usage : e.request = r /\ f.request = r => e = f
    BY DEF IInv, TypeOK, UsageCopies
  <2>2. QED
    BY <2>1 DEF IInv, UsageCopies
<1>2. QED
  BY <1>1, Inductive, PTL

(* A key's hits never outnumber the requests admitted with it, and a last  *)
(* use is stored for exactly the keys that were admitted, short of faults. *)
THEOREM AdmissionsBelongToTheirKey == Spec => []AdmissionsAccounted
<1>1. IInv => AdmissionsAccounted
  <2> SUFFICES ASSUME IInv
               PROVE  LastUseMatchesUsage
    BY DEF AdmissionsAccounted, IInv
  <2>1. ASSUME ~ storeFailed, NEW e \in usage, e.key \in Keys, e.status # 429
        PROVE  e.key \in lastUsed
    BY <2>1, GatewayAssumption DEF IInv, TypeOK, UsageCopies, PassingTouches,
       Passed
  <2>2. ASSUME NEW k \in lastUsed
        PROVE  \E r \in Requests :
                   identity[r] = k /\ status[r] # 429 /\ keys[k] # "unissued"
    BY DEF IInv, TypeOK, LastUseEarned, Passed, IdentityIsSent
  <2>3. QED
    BY <2>1, <2>2 DEF LastUseMatchesUsage
<1>2. QED
  BY <1>1, Inductive, PTL

------------------------------------------------------------------------------
(* The limiter.                                                            *)

(* Nobody has read a time that is yet to come. *)
StampsArePast == \A a \in Attempts : now[a] <= clock

PoolBounded == Cardinality(In("stamped")) <= threads

(* The deque counts allowed attempts, each of them once.                   *)
HitsAreAllowed ==
    /\ \A i \in 1..Len(deque) : stage[deque[i]] = "allowed"
    /\ \A i, j \in 1..Len(deque) : deque[i] = deque[j] => i = j

(* One thread at a time, the deque is in the order of the clock, and the   *)
(* attempt under way read it last.                                         *)
OneThreadInOrder ==
    threads = 1 =>
        /\ \A i, j \in 1..Len(deque) : i <= j => now[deque[i]] <= now[deque[j]]
        /\ \A i \in 1..Len(deque), a \in In("stamped") : now[deque[i]] <= now[a]

(* The attempts that are, or may yet be, allowed in the window ending at t. *)
Contenders(t) ==
    {a \in Attempts : /\ stage[a] \in {"stamped", "allowed"}
                      /\ t - Window < now[a] /\ now[a] <= t}

(* A window none of whose hits was popped is covered by the deque.  The    *)
(* attempt that pops one of its hits read a later time than its end, and   *)
(* from then on it can only be entered by attempts that overlap that one.  *)
WindowsCovered ==
    \A t \in 0..Horizon :
        \/ \A a \in AllowedUntil(t) : \E i \in 1..Len(deque) : deque[i] = a
        \/ /\ t < clock
           /\ Cardinality(Contenders(t)) <= RateLimit + threads - 1

(* The inductive invariant. *)
LimiterIInv ==
    /\ LimiterTypeOK
    /\ StampsArePast
    /\ PoolBounded
    /\ DequeBounded
    /\ HitsAreAllowed
    /\ OneThreadInOrder
    /\ WindowsCovered

------------------------------------------------------------------------------
(* Lemmas about the operators of RateLimiter.                              *)

(* A non-empty set of positive numbers has a least element, and Min is it. *)
LEMMA MinIsLeast ==
    ASSUME NEW S \in SUBSET (Nat \ {0}), S # {}
    PROVE  Min(S) \in S /\ \A i \in S : Min(S) <= i
<1> DEFINE Less == {ss \in Nat \X Nat : ss[1] < ss[2]}
<1>1. IsWellFoundedOn(Less, Nat)
  BY NatLessThanWellFounded DEF OpToRel
<1>2. \E m \in S : \A n \in S : ~ (<<n, m>> \in Less)
  <2> HIDE DEF Less
  <2>1. QED
    BY <1>1, WFMin
<1>3. PICK m \in S : \A n \in S : ~ (<<n, m>> \in Less)
  BY <1>2
<1>4. \A n \in S : m <= n
  <2> SUFFICES ASSUME NEW n \in S, n < m
               PROVE  FALSE
    OBVIOUS
  <2>1. <<n, m>> \in Nat \X Nat /\ <<n, m>>[1] < <<n, m>>[2]
    OBVIOUS
  <2>2. QED
    BY <1>3, <2>1
<1>5. QED
  BY <1>3, <1>4 DEF Min

(* Popping for attempt a drops the k oldest hits. *)
Drops(a, k) ==
    /\ Len(Unexpired(a)) = Len(deque) - k
    /\ \A i \in 1..Len(deque) - k : Unexpired(a)[i] = deque[k + i]
    /\ \A i \in 1..k : Expired(deque[i], a)
    /\ k < Len(deque) => ~ Expired(deque[k + 1], a)

(* Popping leaves a suffix: what precedes it has expired, and its head has *)
(* not.                                                                    *)
LEMMA UnexpiredIsSuffix ==
    ASSUME LimiterTypeOK, NEW a \in Attempts
    PROVE  /\ Unexpired(a) \in Seq(Attempts)
           /\ \E k \in 0..Len(deque) : Drops(a, k)
<1> DEFINE live == {i \in DOMAIN deque : ~ Expired(deque[i], a)}
<1>1. deque \in Seq(Attempts) /\ Len(deque) \in Nat /\ DOMAIN deque = 1..Len(deque)
  BY LenProperties DEF LimiterTypeOK
<1>2. CASE live = {}
  <2>1. Unexpired(a) = <<>>
    BY <1>2 DEF Unexpired
  <2>2. \A i \in 1..Len(deque) : Expired(deque[i], a)
    BY <1>1, <1>2 DEF Expired
  <2>3. Drops(a, Len(deque))
    BY <1>1, <2>1, <2>2 DEF Drops
  <2>4. QED
    BY <1>1, <2>1, <2>3
<1>3. CASE live # {}
  <2>1. live \in SUBSET (Nat \ {0})
    BY <1>1
  <2>2. PICK m \in live : m = Min(live) /\ \A i \in live : m <= i
    <3> HIDE DEF live
    <3>1. QED
      BY <1>3, <2>1, MinIsLeast
  <2>3. m \in 1..Len(deque)
    BY <1>1, <2>2
  <2>4. Unexpired(a) = SubSeq(deque, m, Len(deque))
    BY <1>3, <2>2 DEF Unexpired
  <2>5. \A i \in 1..m - 1 : Expired(deque[i], a)
    <3> SUFFICES ASSUME NEW i \in 1..m - 1, ~ Expired(deque[i], a)
                 PROVE  FALSE
      BY DEF Expired
    <3>1. i \in DOMAIN deque /\ i < m
      BY <1>1, <2>3
    <3>2. i \in live
      BY <3>1
    <3>3. m <= i
      BY <2>2, <3>2
    <3>4. QED
      BY <2>3, <3>1, <3>3
  <2>6. /\ Unexpired(a) \in Seq(Attempts)
        /\ Len(Unexpired(a)) = Len(deque) - m + 1
        /\ \A i \in 1..Len(deque) - m + 1 : Unexpired(a)[i] = deque[m + i - 1]
    BY <1>1, <2>3, <2>4, SubSeqProperties, ElementOfSeq
  <2>7. ~ Expired(deque[m], a)
    BY <2>2
  <2>8. m - 1 \in 0..Len(deque) /\ m - 1 + 1 = m
    BY <1>1, <2>3
  <2>9. Drops(a, m - 1)
    <3>1. Len(deque) - m + 1 = Len(deque) - (m - 1)
      BY <1>1, <2>3
    <3>2. \A i \in 1..Len(deque) - (m - 1) : m + i - 1 = m - 1 + i
      BY <1>1, <2>3
    <3>3. QED
      BY <2>5, <2>6, <2>7, <2>8, <3>1, <3>2 DEF Drops
  <2>10. QED
    BY <2>6, <2>8, <2>9
<1>4. QED
  BY <1>2, <1>3

(* Finite sets of attempts. *)
LEMMA PhasesFinite ==
    ASSUME NEW S \in SUBSET Attempts
    PROVE  IsFiniteSet(S) /\ Cardinality(S) \in Nat
  BY LimiterAssumption, FS_Subset, FS_CardinalityType

(* A set of attempts that a sequence covers is no larger than it is long.  *)
LEMMA CoveredBound ==
    ASSUME NEW s \in Seq(Attempts), NEW S \in SUBSET Attempts,
           \A a \in S : \E i \in 1..Len(s) : s[i] = a
    PROVE  Cardinality(S) <= Len(s)
<1>1. Len(s) \in Nat /\ \A i \in 1..Len(s) : s[i] \in Attempts
  BY LenProperties, ElementOfSeq
<1>2. CASE S = {}
  BY <1>1, <1>2, FS_EmptySet
<1>3. CASE S # {}
  <2>1. PICK b \in S : TRUE
    BY <1>3
  <2>2. [i \in 1..Len(s) |-> IF s[i] \in S THEN s[i] ELSE b]
            \in Surjection(1..Len(s), S)
    BY <1>1, <2>1 DEF Surjection
  <2>3. QED
    BY <1>1, <2>2, FS_SurjCardinalityBound DEF ExistsSurjection
<1>4. QED
  BY <1>2, <1>3

(* The elements of a sequence without repetition are as many as it is long. *)
LEMMA DistinctCount ==
    ASSUME NEW s \in Seq(Attempts), NEW S \in SUBSET Attempts,
           \A i, j \in 1..Len(s) : s[i] = s[j] => i = j,
           \A i \in 1..Len(s) : s[i] \in S
    PROVE  Len(s) <= Cardinality(S)
<1>1. Len(s) \in Nat
  BY LenProperties
<1>2. [i \in 1..Len(s) |-> s[i]] \in Injection(1..Len(s), S)
  BY DEF Injection, IsInjective
<1>3. IsFiniteSet(S)
  BY PhasesFinite
<1>4. Cardinality(1..Len(s)) = Len(s)
  <2>1. Cardinality(1..Len(s)) = IF 1 > Len(s) THEN 0 ELSE Len(s) - 1 + 1
    BY <1>1, FS_Interval
  <2>2. QED
    BY <1>1, <2>1
<1>5. QED
  BY <1>2, <1>3, <1>4, FS_Injection

(* A wait of retry_after seconds outlasts the rest of the head's window.   *)
LEMMA RetryAfterCovers ==
    ASSUME LimiterTypeOK, NEW a \in Attempts, NEW h \in Attempts
    PROVE  /\ RetryAfter(h, a) \in Nat
           /\ now[h] + Window - now[a] <= RetryAfter(h, a) * TicksPerSecond
<1> DEFINE d == now[h] + Window - now[a]
           q == d \div TicksPerSecond
<1>1. d \in Int /\ TicksPerSecond \in Nat \ {0}
  BY LimiterAssumption DEF LimiterTypeOK
<1>2. q \in Int /\ d <= (q + 1) * TicksPerSecond
  BY <1>1
<1>3. RetryAfter(h, a) = (IF q + 1 >= 1 THEN q + 1 ELSE 1)
  BY <1>2 DEF RetryAfter, Max
<1>4. QED
  BY <1>1, <1>2, <1>3

------------------------------------------------------------------------------
(* The actions.                                                            *)

(* What popping for attempt a does to the deque alone.                     *)
LEMMA PoppedDeque ==
    ASSUME LimiterIInv, NEW a \in Attempts
    PROVE  /\ Unexpired(a) \in Seq(Attempts)
           /\ Len(Unexpired(a)) \in 0..Len(deque)
           /\ \A i \in 1..Len(Unexpired(a)) : stage[Unexpired(a)[i]] = "allowed"
           /\ \A i, j \in 1..Len(Unexpired(a)) :
                  Unexpired(a)[i] = Unexpired(a)[j] => i = j
<1>1. PICK k \in 0..Len(deque) : Drops(a, k)
  BY UnexpiredIsSuffix DEF LimiterIInv
<1>2. Len(deque) \in Nat
  BY LenProperties DEF LimiterIInv, LimiterTypeOK
<1>3. \A i \in 1..Len(deque) - k : k + i \in 1..Len(deque)
  BY <1>2
<1>4. /\ Len(Unexpired(a)) = Len(deque) - k
      /\ \A i \in 1..Len(deque) - k : Unexpired(a)[i] = deque[k + i]
  BY <1>1 DEF Drops
<1>5. \A i \in 1..Len(Unexpired(a)) : stage[Unexpired(a)[i]] = "allowed"
  BY <1>3, <1>4 DEF LimiterIInv, HitsAreAllowed
<1>6. ASSUME NEW i \in 1..Len(Unexpired(a)), NEW j \in 1..Len(Unexpired(a)),
             Unexpired(a)[i] = Unexpired(a)[j]
      PROVE  i = j
  <2>1. /\ k + i \in 1..Len(deque) /\ k + j \in 1..Len(deque)
        /\ deque[k + i] = deque[k + j]
    BY <1>3, <1>4, <1>6
  <2>2. k + i = k + j
    BY <2>1 DEF LimiterIInv, HitsAreAllowed
  <2>3. QED
    BY <2>2
<1>7. QED
  BY <1>2, <1>4, <1>5, <1>6, UnexpiredIsSuffix DEF LimiterIInv

(* The deque is popped in order while one thread runs at a time.           *)
LEMMA PoppedInOrder ==
    ASSUME LimiterIInv, threads = 1, NEW a \in In("stamped")
    PROVE  /\ \A i, j \in 1..Len(Unexpired(a)) :
                  i <= j => now[Unexpired(a)[i]] <= now[Unexpired(a)[j]]
           /\ \A i \in 1..Len(Unexpired(a)) :
                  /\ now[Unexpired(a)[i]] <= now[a]
                  /\ now[a] - Window < now[Unexpired(a)[i]]
<1>0. a \in Attempts
  BY DEF In
<1>1. PICK k \in 0..Len(deque) : Drops(a, k)
  BY <1>0, UnexpiredIsSuffix DEF LimiterIInv
<1>2. deque \in Seq(Attempts) /\ Len(deque) \in Nat
  BY LenProperties DEF LimiterIInv, LimiterTypeOK
<1>3. \A i \in 1..Len(deque) - k :
          k + i \in 1..Len(deque) /\ k + 1 \in 1..Len(deque) /\ k + 1 <= k + i
  BY <1>2
<1>4. \A i, j \in 1..Len(deque) : i <= j => now[deque[i]] <= now[deque[j]]
  BY DEF LimiterIInv, OneThreadInOrder
<1>5. \A i \in 1..Len(deque) : now[deque[i]] \in Nat /\ now[deque[i]] <= now[a]
  BY <1>2, ElementOfSeq DEF LimiterIInv, OneThreadInOrder, LimiterTypeOK
<1>6. now[a] \in Nat /\ Window \in Nat
  BY <1>0, LimiterAssumption DEF LimiterIInv, LimiterTypeOK
<1>7. k < Len(deque) => now[a] - Window < now[deque[k + 1]]
  <2> SUFFICES ASSUME k < Len(deque)
               PROVE  now[a] - Window < now[deque[k + 1]]
    OBVIOUS
  <2>1. ~ (now[deque[k + 1]] <= now[a] - Window)
    BY <1>1 DEF Drops, Expired
  <2>2. now[deque[k + 1]] \in Nat
    BY <1>2, <1>5
  <2>3. QED
    BY <1>6, <2>1, <2>2
<1>8. \A i \in 1..Len(deque) - k : now[a] - Window < now[deque[k + i]]
  <2> SUFFICES ASSUME NEW i \in 1..Len(deque) - k
               PROVE  now[a] - Window < now[deque[k + i]]
    OBVIOUS
  <2>1. now[deque[k + 1]] <= now[deque[k + i]] /\ k < Len(deque)
    BY <1>2, <1>3, <1>4
  <2>2. now[a] - Window < now[deque[k + 1]]
    BY <1>7, <2>1
  <2>3. now[deque[k + 1]] \in Nat /\ now[deque[k + i]] \in Nat
    BY <1>3, <1>5
  <2>4. QED
    BY <1>6, <2>1, <2>2, <2>3
<1>9. \A i, j \in 1..Len(deque) - k : i <= j => k + i <= k + j
  BY <1>2
<1>10. /\ Len(Unexpired(a)) = Len(deque) - k
       /\ \A i \in 1..Len(deque) - k : Unexpired(a)[i] = deque[k + i]
  BY <1>1 DEF Drops
<1>11. ASSUME NEW i \in 1..Len(deque) - k, NEW j \in 1..Len(deque) - k, i <= j
       PROVE  now[deque[k + i]] <= now[deque[k + j]]
  BY <1>3, <1>4, <1>9, <1>11
<1>12. ASSUME NEW i \in 1..Len(Unexpired(a)),
              NEW j \in 1..Len(Unexpired(a)), i <= j
       PROVE  now[Unexpired(a)[i]] <= now[Unexpired(a)[j]]
  BY <1>10, <1>11, <1>12
<1>13. ASSUME NEW i \in 1..Len(Unexpired(a))
       PROVE  /\ now[Unexpired(a)[i]] <= now[a]
              /\ now[a] - Window < now[Unexpired(a)[i]]
  BY <1>3, <1>5, <1>8, <1>10
<1>14. QED
  BY <1>12, <1>13

(* An attempt that pops a hit of a window comes after its end, so whoever  *)
(* may still enter the window is under way together with it.               *)
LEMMA WindowsStayCovered ==
    ASSUME LimiterIInv, NEW a \in In("stamped"), NEW t \in 0..Horizon,
           clock' = clock, now' = now, threads' = threads,
           \/ deque' = Unexpired(a) /\ stage' = [stage EXCEPT ![a] = "denied"]
           \/ /\ deque' = Append(Unexpired(a), a)
              /\ stage' = [stage EXCEPT ![a] = "allowed"]
    PROVE  \/ \A b \in AllowedUntil(t)' : \E i \in 1..Len(deque') : deque'[i] = b
           \/ /\ t < clock'
              /\ Cardinality(Contenders(t)') <= RateLimit + threads' - 1
<1>0. a \in Attempts /\ stage[a] = "stamped"
  BY DEF In
<1>1. Contenders(t)' \subseteq Contenders(t)
  BY <1>0 DEF Contenders, LimiterIInv, LimiterTypeOK
<1>2. /\ RateLimit \in Nat /\ threads \in Nat \ {0} /\ clock \in Nat
      /\ now[a] \in Nat /\ Window \in Nat /\ now[a] <= clock
      /\ Len(deque) \in Nat
  BY <1>0, LimiterAssumption, LenProperties DEF LimiterIInv, LimiterTypeOK, StampsArePast
<1>3. CASE t < clock /\ Cardinality(Contenders(t)) <= RateLimit + threads - 1
  <2>1. Contenders(t) \in SUBSET Attempts /\ Contenders(t)' \in SUBSET Attempts
    BY DEF Contenders
  <2>2. Cardinality(Contenders(t)') <= Cardinality(Contenders(t))
    BY <1>1, <2>1, PhasesFinite, FS_Subset
  <2>3. QED
    BY <1>2, <1>3, <2>1, <2>2, PhasesFinite
<1>4. CASE \A b \in AllowedUntil(t) : \E i \in 1..Len(deque) : deque[i] = b
  <2>1. PICK k \in 0..Len(deque) : Drops(a, k)
    BY <1>0, UnexpiredIsSuffix DEF LimiterIInv
  <2>2. CASE \A b \in AllowedUntil(t) : \E i \in k + 1..Len(deque) : deque[i] = b
    <3>1. \A b \in AllowedUntil(t) :
              \E i \in 1..Len(Unexpired(a)) : Unexpired(a)[i] = b
      <4> SUFFICES ASSUME NEW b \in AllowedUntil(t)
                   PROVE  \E i \in 1..Len(Unexpired(a)) : Unexpired(a)[i] = b
        OBVIOUS
      <4>1. PICK i \in k + 1..Len(deque) : deque[i] = b
        BY <2>2
      <4>2. i - k \in 1..Len(deque) - k /\ k + (i - k) = i
        BY <1>2
      <4>3. QED
        BY <2>1, <4>1, <4>2 DEF Drops
    <3>2. AllowedUntil(t)' \subseteq AllowedUntil(t) \cup {a}
      BY <1>0 DEF AllowedUntil, In, LimiterIInv, LimiterTypeOK
    <3>3. CASE deque' = Unexpired(a) /\ stage' = [stage EXCEPT ![a] = "denied"]
      <4>1. a \notin AllowedUntil(t)'
        BY <1>0, <3>3 DEF AllowedUntil, In, LimiterIInv, LimiterTypeOK
      <4>2. QED
        BY <3>1, <3>2, <3>3, <4>1
    <3>4. CASE deque' = Append(Unexpired(a), a)
      <4>1. /\ Len(deque') = Len(Unexpired(a)) + 1
            /\ \A i \in 1..Len(Unexpired(a)) : deque'[i] = Unexpired(a)[i]
            /\ deque'[Len(Unexpired(a)) + 1] = a
            /\ Len(Unexpired(a)) \in Nat
        BY <1>0, <3>4, PoppedDeque, AppendProperties, LenProperties
      <4>2. Len(deque') \in 1..Len(deque')
            /\ 1..Len(Unexpired(a)) \subseteq 1..Len(deque')
        BY <4>1
      <4>3. QED
        BY <3>1, <3>2, <4>1, <4>2
    <3>5. QED
      BY <3>3, <3>4
  <2>3. CASE \E b \in AllowedUntil(t) : \E i \in 1..k : deque[i] = b
    <3>1. PICK b \in AllowedUntil(t), i \in 1..k : deque[i] = b
      BY <2>3
    <3>2. t - Window < now[b] /\ now[b] \in Nat /\ now[b] <= now[a] - Window
      <4>1. t - Window < now[b] /\ now[b] \in Nat
        BY DEF AllowedUntil, In, LimiterIInv, LimiterTypeOK
      <4>2. Expired(b, a)
        BY <2>1, <3>1 DEF Drops
      <4>3. QED
        BY <4>1, <4>2 DEF Expired
    <3>3. t < now[a]
      BY <1>2, <3>2
    <3> DEFINE others == In("stamped") \ {a}
    <3>4. Contenders(t)' \subseteq AllowedUntil(t) \cup others
      BY <1>0, <3>3, <1>2
         DEF Contenders, AllowedUntil, In, LimiterIInv, LimiterTypeOK
    <3>5. /\ AllowedUntil(t) \in SUBSET Attempts
          /\ In("stamped") \in SUBSET Attempts /\ others \in SUBSET Attempts
          /\ Contenders(t)' \in SUBSET Attempts
      BY DEF AllowedUntil, In, Contenders
    <3>6. Cardinality(AllowedUntil(t)) <= RateLimit
      <4>1. Cardinality(AllowedUntil(t)) <= Len(deque)
        BY <1>4, <3>5, CoveredBound DEF LimiterIInv, LimiterTypeOK
      <4>2. QED
        BY <1>2, <3>5, <4>1, PhasesFinite DEF LimiterIInv, DequeBounded
    <3>7. Cardinality(others) <= threads - 1
      <4>1. Cardinality(others) = Cardinality(In("stamped")) - 1
        BY <3>5, PhasesFinite, FS_RemoveElement
      <4>2. QED
        BY <1>2, <3>5, <4>1, PhasesFinite DEF LimiterIInv, PoolBounded
    <3>8. Cardinality(AllowedUntil(t) \cup others)
              <= Cardinality(AllowedUntil(t)) + Cardinality(others)
      <4>1. Cardinality(AllowedUntil(t) \cup others)
                = Cardinality(AllowedUntil(t)) + Cardinality(others)
                      - Cardinality(AllowedUntil(t) \cap others)
        BY <3>5, PhasesFinite, FS_Union
      <4>2. Cardinality(AllowedUntil(t) \cap others) \in Nat
        BY <3>5, PhasesFinite
      <4>3. QED
        BY <3>5, <4>1, <4>2, PhasesFinite
    <3>9. Cardinality(Contenders(t)') <= Cardinality(AllowedUntil(t) \cup others)
      BY <3>4, <3>5, PhasesFinite, FS_Subset
    <3>10. /\ Cardinality(AllowedUntil(t) \cup others) \in Nat
           /\ Cardinality(AllowedUntil(t)) \in Nat
           /\ Cardinality(others) \in Nat
           /\ Cardinality(Contenders(t)') \in Nat
      BY <3>5, PhasesFinite
    <3>11. QED
      BY <1>2, <3>3, <3>6, <3>7, <3>8, <3>9, <3>10
  <2>4. QED
    BY <1>2, <1>4, <2>2, <2>3
<1>5. QED
  BY <1>3, <1>4 DEF LimiterIInv, WindowsCovered

(* Time passes. *)
LEMMA TickKeeps ==
    ASSUME LimiterIInv, Tick
    PROVE  LimiterIInv'
<1>1. LimiterTypeOK'
  BY LimiterAssumption DEF LimiterIInv, LimiterTypeOK, Tick
<1>2. StampsArePast'
  BY LimiterAssumption DEF LimiterIInv, LimiterTypeOK, StampsArePast, Tick
<1>3. \A t \in 0..Horizon :
          AllowedUntil(t)' = AllowedUntil(t) /\ Contenders(t)' = Contenders(t)
  BY DEF Tick, AllowedUntil, Contenders, In
<1>4. clock \in Nat /\ clock' = clock + 1
  BY LimiterAssumption DEF LimiterIInv, LimiterTypeOK, Tick
<1>5. WindowsCovered'
  BY <1>3, <1>4 DEF LimiterIInv, WindowsCovered, Tick
<1>6. PoolBounded' /\ DequeBounded' /\ HitsAreAllowed' /\ OneThreadInOrder'
  BY DEF LimiterIInv, PoolBounded, DequeBounded, HitsAreAllowed, OneThreadInOrder,
         In, Tick
<1>7. QED
  BY <1>1, <1>2, <1>5, <1>6 DEF LimiterIInv

(* An attempt reads the clock. *)
LEMMA ReadClockKeeps ==
    ASSUME LimiterIInv, NEW a \in Attempts, ReadClock(a)
    PROVE  LimiterIInv'
<1>1. LimiterTypeOK'
  BY DEF LimiterIInv, LimiterTypeOK, ReadClock
<1>2. StampsArePast'
  BY LimiterAssumption DEF LimiterIInv, LimiterTypeOK, StampsArePast, ReadClock
<1>3. In("stamped")' = In("stamped") \cup {a} /\ a \notin In("stamped")
  BY DEF LimiterIInv, LimiterTypeOK, In, ReadClock
<1>4. PoolBounded'
  <2>1. IsFiniteSet(In("stamped")) /\ Cardinality(In("stamped")) \in Nat
    BY PhasesFinite DEF In
  <2>2. Cardinality(In("stamped")') = Cardinality(In("stamped")) + 1
    BY <1>3, <2>1, FS_AddElement
  <2>3. QED
    BY <2>1, <2>2 DEF LimiterIInv, LimiterTypeOK, PoolBounded, ReadClock
<1>5. \A i \in 1..Len(deque) : deque[i] # a /\ deque[i] \in Attempts
  BY ElementOfSeq DEF LimiterIInv, LimiterTypeOK, HitsAreAllowed, ReadClock
<1>6. HitsAreAllowed'
  BY <1>5 DEF LimiterIInv, LimiterTypeOK, HitsAreAllowed, ReadClock
<1>7. OneThreadInOrder'
  <2>1. SUFFICES ASSUME threads = 1
                 PROVE  OneThreadInOrder'
    BY DEF OneThreadInOrder, ReadClock
  <2>2. \A i \in 1..Len(deque) : now'[deque[i]] = now[deque[i]]
    BY <1>5 DEF LimiterIInv, LimiterTypeOK, ReadClock
  <2>3. In("stamped")' = {a}
    <3>1. IsFiniteSet(In("stamped")) /\ Cardinality(In("stamped")) \in Nat
      BY PhasesFinite DEF In
    <3>2. Cardinality(In("stamped")) = 0
      BY <2>1, <3>1 DEF ReadClock
    <3>3. QED
      BY <1>3, <3>1, <3>2, FS_EmptySet
  <2>4. \A i \in 1..Len(deque) : now[deque[i]] <= now'[a]
    BY <1>5 DEF LimiterIInv, LimiterTypeOK, StampsArePast, ReadClock
  <2>5. QED
    BY <2>2, <2>3, <2>4 DEF LimiterIInv, OneThreadInOrder, ReadClock
<1>8. WindowsCovered'
  <2> SUFFICES ASSUME NEW t \in 0..Horizon
               PROVE  \/ \A b \in AllowedUntil(t)' :
                             \E i \in 1..Len(deque') : deque'[i] = b
                      \/ /\ t < clock'
                         /\ Cardinality(Contenders(t)') <= RateLimit + threads' - 1
    BY DEF WindowsCovered
  <2>1. AllowedUntil(t)' = AllowedUntil(t)
    BY DEF LimiterIInv, LimiterTypeOK, ReadClock, AllowedUntil, In
  <2>2. t < clock => Contenders(t)' = Contenders(t)
    BY LimiterAssumption DEF LimiterIInv, LimiterTypeOK, ReadClock, Contenders
  <2>3. QED
    BY <2>1, <2>2 DEF LimiterIInv, WindowsCovered, ReadClock
<1>9. DequeBounded'
  BY DEF LimiterIInv, DequeBounded, ReadClock
<1>10. QED
  BY <1>1, <1>2, <1>4, <1>6, <1>7, <1>8, <1>9 DEF LimiterIInv

(* Leaving the lock makes room in the pool. *)
LEMMA PoolShrinks ==
    ASSUME LimiterIInv, NEW a \in In("stamped"), threads' = threads,
           In("stamped")' \subseteq In("stamped")
    PROVE  PoolBounded'
<1>1. In("stamped") \in SUBSET Attempts /\ In("stamped")' \in SUBSET Attempts
  BY DEF In
<1>2. Cardinality(In("stamped")') <= Cardinality(In("stamped"))
  BY <1>1, PhasesFinite, FS_Subset
<1>3. /\ Cardinality(In("stamped")) <= threads
      /\ threads \in Int
      /\ Cardinality(In("stamped")) \in Nat
      /\ Cardinality(In("stamped")') \in Nat
  BY <1>1, PhasesFinite DEF LimiterIInv, LimiterTypeOK, PoolBounded
<1>4. QED
  BY <1>2, <1>3 DEF PoolBounded

(* An allowed attempt becomes the newest hit. *)
LEMMA AllowKeeps ==
    ASSUME LimiterIInv, NEW a \in Attempts, Allow(a)
    PROVE  LimiterIInv'
<1> DEFINE u == Unexpired(a)
<1>1. a \in In("stamped")
  BY DEF Allow, In
<1>2. /\ deque' \in Seq(Attempts)
      /\ Len(deque') = Len(u) + 1
      /\ \A i \in 1..Len(u) : deque'[i] = u[i] /\ u[i] \in Attempts
      /\ deque'[Len(u) + 1] = a
      /\ Len(u) \in Nat
  BY PoppedDeque, AppendProperties, LenProperties, ElementOfSeq DEF Allow
<1>3. \A i \in 1..Len(deque') :
          \/ i \in 1..Len(u) /\ deque'[i] = u[i]
          \/ i = Len(u) + 1 /\ deque'[i] = a
  BY <1>2
<1>4. LimiterTypeOK'
  BY <1>2 DEF LimiterIInv, LimiterTypeOK, Allow
<1>5. StampsArePast'
  BY DEF LimiterIInv, StampsArePast, Allow
<1>6. PoolBounded'
  <2>1. In("stamped")' \subseteq In("stamped")
    BY DEF LimiterIInv, LimiterTypeOK, In, Allow
  <2>2. QED
    BY <1>1, <2>1, PoolShrinks DEF Allow
<1>7. DequeBounded'
  BY <1>2, LimiterAssumption DEF DequeBounded, Allow
<1>8. \A i \in 1..Len(u) : u[i] # a /\ stage'[u[i]] = "allowed"
  BY <1>1, <1>2, PoppedDeque DEF LimiterIInv, LimiterTypeOK, In, Allow
<1>9. HitsAreAllowed'
  <2>1. \A i \in 1..Len(deque') : stage'[deque'[i]] = "allowed"
    BY <1>3, <1>8 DEF LimiterIInv, LimiterTypeOK, Allow
  <2>2. \A i, j \in 1..Len(deque') : deque'[i] = deque'[j] => i = j
    <3>1. \A i, j \in 1..Len(u) : u[i] = u[j] => i = j
      BY PoppedDeque
    <3>2. \A i \in 1..Len(u) : u[i] # a
      BY <1>8
    <3> HIDE DEF u
    <3>3. QED
      BY <1>3, <3>1, <3>2
  <2>3. QED
    BY <2>1, <2>2 DEF HitsAreAllowed
<1>10. OneThreadInOrder'
  <2>1. SUFFICES ASSUME threads = 1
                 PROVE  OneThreadInOrder'
    BY DEF OneThreadInOrder, Allow
  <2>2. /\ \A i, j \in 1..Len(u) : i <= j => now[u[i]] <= now[u[j]]
        /\ \A i \in 1..Len(u) : now[u[i]] <= now[a]
    BY <1>1, <2>1, PoppedInOrder
  <2>3. In("stamped")' = {}
    <3>1. In("stamped") \in SUBSET Attempts
      BY DEF In
    <3>2. Cardinality(In("stamped")) = 1
      <4>1. Cardinality(In("stamped")) # 0
        BY <1>1, <3>1, PhasesFinite, FS_EmptySet
      <4>2. QED
        BY <2>1, <3>1, <4>1, PhasesFinite DEF LimiterIInv, PoolBounded
    <3>3. In("stamped") = {a}
      BY <1>1, <3>1, <3>2, PhasesFinite, FS_Singleton
    <3>4. QED
      BY <3>3 DEF LimiterIInv, LimiterTypeOK, In, Allow
  <2>4. now[a] <= now[a]
    BY DEF LimiterIInv, LimiterTypeOK
  <2>5. \A i, j \in 1..Len(deque') : i <= j => now[deque'[i]] <= now[deque'[j]]
    <3> SUFFICES ASSUME NEW i \in 1..Len(deque'), NEW j \in 1..Len(deque'),
                        i <= j
                 PROVE  now[deque'[i]] <= now[deque'[j]]
      OBVIOUS
    <3>1. CASE j \in 1..Len(u)
      <4>1. i \in 1..Len(u)
        BY <1>2, <3>1
      <4>2. QED
        BY <1>2, <2>2, <3>1, <4>1
    <3>2. CASE j = Len(u) + 1 /\ deque'[j] = a
      BY <1>3, <2>2, <2>4, <3>2
    <3>3. QED
      BY <1>3, <3>1, <3>2
  <2>6. QED
    BY <2>3, <2>5 DEF OneThreadInOrder, Allow
<1>11. WindowsCovered'
  BY <1>1, WindowsStayCovered DEF WindowsCovered, Allow
<1>12. QED
  BY <1>4, <1>5, <1>6, <1>7, <1>9, <1>10, <1>11 DEF LimiterIInv

(* A denied attempt leaves the popped deque behind. *)
LEMMA DenyKeeps ==
    ASSUME LimiterIInv, NEW a \in Attempts, Deny(a)
    PROVE  LimiterIInv'
<1> DEFINE u == Unexpired(a)
<1>1. a \in In("stamped")
  BY DEF Deny, In
<1>2. u # <<>> /\ Head(u) \in Attempts /\ deque' = u
  <2>1. Len(u) >= 1 /\ Len(u) \in Nat
    BY PoppedDeque, LimiterAssumption, LenProperties DEF Deny
  <2>2. u # <<>>
    BY <2>1, EmptySeq
  <2>3. QED
    BY <2>2, PoppedDeque, HeadTailProperties DEF Deny
<1>3. LimiterTypeOK'
  BY <1>2, PoppedDeque, RetryAfterCovers DEF LimiterIInv, LimiterTypeOK, Deny
<1>4. StampsArePast'
  BY DEF LimiterIInv, StampsArePast, Deny
<1>5. In("stamped")' \subseteq In("stamped")
  BY DEF LimiterIInv, LimiterTypeOK, In, Deny
<1>6. PoolBounded'
  BY <1>1, <1>5, PoolShrinks DEF Deny
<1>7. DequeBounded'
  BY <1>2, PoppedDeque, LimiterAssumption, LenProperties
     DEF LimiterIInv, LimiterTypeOK, DequeBounded
<1>8. HitsAreAllowed'
  <2>1. \A i \in 1..Len(u) : u[i] # a /\ u[i] \in Attempts
    BY <1>1, PoppedDeque, ElementOfSeq DEF In
  <2>2. \A i \in 1..Len(u) : stage'[u[i]] = "allowed"
    BY <2>1, PoppedDeque DEF LimiterIInv, LimiterTypeOK, Deny
  <2>3. QED
    BY <1>2, <2>2, PoppedDeque DEF HitsAreAllowed
<1>9. OneThreadInOrder'
  <2>1. SUFFICES ASSUME threads = 1
                 PROVE  OneThreadInOrder'
    BY DEF OneThreadInOrder, Deny
  <2>2. \A i, j \in 1..Len(u) : i <= j => now[u[i]] <= now[u[j]]
    BY <1>1, <2>1, PoppedInOrder
  <2>3. In("stamped")' = {}
    <3>1. In("stamped") \in SUBSET Attempts
      BY DEF In
    <3>2. Cardinality(In("stamped")) = 1
      <4>1. Cardinality(In("stamped")) # 0
        BY <1>1, <3>1, PhasesFinite, FS_EmptySet
      <4>2. QED
        BY <2>1, <3>1, <4>1, PhasesFinite DEF LimiterIInv, PoolBounded
    <3>3. In("stamped") = {a}
      BY <1>1, <3>1, <3>2, PhasesFinite, FS_Singleton
    <3>4. QED
      BY <3>3 DEF LimiterIInv, LimiterTypeOK, In, Deny
  <2>4. QED
    BY <1>2, <2>2, <2>3 DEF OneThreadInOrder, Deny
<1>10. WindowsCovered'
  BY <1>1, WindowsStayCovered DEF WindowsCovered, Deny
<1>11. QED
  BY <1>3, <1>4, <1>6, <1>7, <1>8, <1>9, <1>10 DEF LimiterIInv

------------------------------------------------------------------------------
LEMMA LimiterInitEstablishes == LimiterInit => LimiterIInv
<1> SUFFICES ASSUME LimiterInit
             PROVE  LimiterIInv
  OBVIOUS
<1>1. LimiterTypeOK
  BY LimiterAssumption DEF LimiterInit, LimiterTypeOK
<1>2. In("stamped") = {} /\ In("allowed") = {} /\ Len(deque) = 0
  BY DEF LimiterInit, In
<1>3. PoolBounded
  BY <1>2, FS_EmptySet DEF LimiterInit, PoolBounded
<1>4. WindowsCovered
  BY <1>2 DEF WindowsCovered, AllowedUntil
<1>5. QED
  BY <1>1, <1>2, <1>3, <1>4, LimiterAssumption
     DEF LimiterInit, LimiterIInv, LimiterTypeOK, StampsArePast, DequeBounded, HitsAreAllowed,
         OneThreadInOrder

LEMMA LimiterStutterKeeps == LimiterIInv /\ UNCHANGED limiterVars => LimiterIInv'
<1> SUFFICES ASSUME LimiterIInv, UNCHANGED limiterVars
             PROVE  LimiterIInv'
  OBVIOUS
<1>1. /\ LimiterTypeOK' /\ StampsArePast' /\ PoolBounded' /\ DequeBounded'
      /\ HitsAreAllowed' /\ OneThreadInOrder'
  BY DEF limiterVars, LimiterIInv, LimiterTypeOK, StampsArePast, PoolBounded, DequeBounded,
         HitsAreAllowed, OneThreadInOrder, In
<1>2. WindowsCovered'
  BY DEF limiterVars, LimiterIInv, WindowsCovered, AllowedUntil, Contenders, In
<1>3. QED
  BY <1>1, <1>2 DEF LimiterIInv

(* The inductive invariant holds in every reachable state.                 *)
THEOREM LimiterInductive == LimiterSpec => []LimiterIInv
<1>1. LimiterIInv /\ LimiterNext => LimiterIInv'
  BY TickKeeps, ReadClockKeeps, AllowKeeps, DenyKeeps DEF LimiterNext
<1>2. QED
  BY <1>1, LimiterInitEstablishes, LimiterStutterKeeps, PTL DEF LimiterSpec

(* The deque holds at most RateLimit times, and no window holds more than  *)
(* RateLimit allowed attempts and one for each further thread.             *)
THEOREM LimitHolds == LimiterSpec => []WindowHolds
<1>1. LimiterIInv => WindowHolds
  <2> SUFFICES ASSUME LimiterIInv, NEW t \in 0..Horizon
               PROVE  Cardinality(AllowedUntil(t)) <= RateLimit + threads - 1
    BY DEF LimiterIInv, WindowHolds, OverrunBounded
  <2>1. /\ AllowedUntil(t) \in SUBSET Attempts /\ Contenders(t) \in SUBSET Attempts
        /\ AllowedUntil(t) \subseteq Contenders(t)
    BY DEF AllowedUntil, Contenders, In
  <2>2. /\ RateLimit \in Nat /\ threads \in Nat \ {0} /\ Len(deque) \in Nat
        /\ Cardinality(AllowedUntil(t)) \in Nat
        /\ Cardinality(Contenders(t)) \in Nat
    BY <2>1, PhasesFinite, LimiterAssumption, LenProperties DEF LimiterIInv, LimiterTypeOK
  <2>3. CASE \A a \in AllowedUntil(t) : \E i \in 1..Len(deque) : deque[i] = a
    <3>1. Cardinality(AllowedUntil(t)) <= Len(deque)
      BY <2>1, <2>3, CoveredBound DEF LimiterIInv, LimiterTypeOK
    <3>2. QED
      BY <2>2, <3>1 DEF LimiterIInv, DequeBounded
  <2>4. CASE Cardinality(Contenders(t)) <= RateLimit + threads - 1
    <3>1. Cardinality(AllowedUntil(t)) <= Cardinality(Contenders(t))
      BY <2>1, PhasesFinite, FS_Subset
    <3>2. QED
      BY <2>2, <2>4, <3>1
  <2>5. QED
    BY <2>3, <2>4 DEF LimiterIInv, WindowsCovered
<1>2. QED
  BY <1>1, LimiterInductive, PTL

(* One thread at a time, an attempt is denied only if the limit was        *)
(* allowed in the window that ends with it.                                *)
THEOREM DenialsAreDeserved == LimiterSpec => DeniedOnlyWhenFull
<1> DEFINE Full == threads = 1 => \A a \in Attempts : Deny(a) =>
          Cardinality(AllowedUntil(now[a])) >= RateLimit
<1>1. LimiterIInv /\ [LimiterNext]_limiterVars => [Full]_limiterVars
  <2> SUFFICES ASSUME LimiterIInv, threads = 1, NEW a \in Attempts, Deny(a)
               PROVE  Cardinality(AllowedUntil(now[a])) >= RateLimit
    OBVIOUS
  <2> DEFINE u == Unexpired(a)
             S == AllowedUntil(now[a])
  <2>1. a \in In("stamped")
    BY DEF Deny, In
  <2>2. S \in SUBSET Attempts
    BY DEF AllowedUntil, In
  <2>3. \A i \in 1..Len(u) : u[i] \in S
    BY <2>1, PoppedDeque, PoppedInOrder, ElementOfSeq DEF AllowedUntil, In
  <2>4. Len(u) <= Cardinality(S)
    <3> HIDE DEF S
    <3>1. QED
      BY <2>2, <2>3, PoppedDeque, DistinctCount
  <2>5. Len(u) \in Nat /\ Cardinality(S) \in Nat /\ Len(u) >= RateLimit
    BY <2>2, PhasesFinite, PoppedDeque, LenProperties DEF Deny
  <2>6. QED
    BY <2>4, <2>5, LimiterAssumption
<1>2. QED
  BY <1>1, LimiterInductive, PTL DEF LimiterSpec, DeniedOnlyWhenFull

(* The hit at the head of the deque that denied an attempt has left the    *)
(* window once retry_after seconds have passed.                            *)
THEOREM WaitingIsEnough == LimiterSpec => RetryAfterSuffices
<1> DEFINE Suffices(a) == Deny(a) =>
          \E h \in Range(deque') :
              now[h] <= now[a] + retry'[a] * TicksPerSecond - Window
<1>1. LimiterIInv /\ [LimiterNext]_limiterVars => [\A a \in Attempts : Suffices(a)]_limiterVars
  <2> SUFFICES ASSUME LimiterIInv, NEW a \in Attempts, Deny(a)
               PROVE  \E h \in Range(deque') :
                          now[h] <= now[a] + retry'[a] * TicksPerSecond - Window
    OBVIOUS
  <2> DEFINE h == Head(Unexpired(a))
  <2>1. Len(Unexpired(a)) \in Nat /\ Len(Unexpired(a)) >= 1
    BY PoppedDeque, LimiterAssumption, LenProperties DEF Deny
  <2>2. h \in Attempts /\ h = Unexpired(a)[1]
    BY <2>1, PoppedDeque, HeadTailProperties, EmptySeq
  <2>3. h \in Range(deque')
    BY <2>1, <2>2, PoppedDeque, LenProperties DEF Deny, Range
  <2>4. retry'[a] = RetryAfter(h, a)
    BY DEF LimiterIInv, LimiterTypeOK, Deny
  <2>5. /\ now[h] \in Nat /\ now[a] \in Nat /\ Window \in Nat
        /\ TicksPerSecond \in Nat
    BY <2>2, LimiterAssumption DEF LimiterIInv, LimiterTypeOK
  <2>6. /\ RetryAfter(h, a) \in Nat
        /\ now[h] + Window - now[a] <= RetryAfter(h, a) * TicksPerSecond
    BY <2>2, RetryAfterCovers DEF LimiterIInv
  <2>7. now[h] <= now[a] + retry'[a] * TicksPerSecond - Window
    BY <2>4, <2>5, <2>6
  <2>8. QED
    BY <2>3, <2>7
<1>2. QED
  BY <1>1, LimiterInductive, PTL DEF LimiterSpec, RetryAfterSuffices
==============================================================================
