------------------------- MODULE RelayTokens_proofs -------------------------
(***************************************************************************)
(* How long keys and tokens live, for every lifetime, margin, timeout and  *)
(* clock skew.  KeysInv follows a key from ARM through the request that    *)
(* read it into the cache; BrokerInv bounds what a gateway may hold;       *)
(* LoopInv relates the timer of the renewal loop to the token it renews.   *)
(* The gateway's own credential, which is minted, saved and revoked apart  *)
(* from them (GatewayClient), is the last part.                            *)
(***************************************************************************)
EXTENDS RelayTokens, GatewayClient, TLAPS

Kinds == {"none", "list", "insert", "sign", "list_gateway", "insert_gateway", "sign_gateway",
          "rotate"}

\* The types the arithmetic needs.
TypeOK ==
    /\ now \in Nat /\ skew \in Int
    /\ current \in [Rights -> Nat] /\ confirmed \in [Rights -> Nat]
    /\ keys \in [Rights -> {<<>>} \cup [key : Nat, expires : Nat]]
    /\ op \in [kind : Kinds, right : Rights, key : Nat, at : Nat]
    /\ revoked \in Int /\ cache \in Int
    /\ asking \in {"nobody", "renew", "connect"}
    /\ asked \in Nat /\ due \in Int /\ held \in Int /\ failing \in Int

\* No cached key is dead, nor is one that a request is about to put into the cache.  A
\* rotation, and a connection that is being deleted, leave nothing in the cache, and a
\* connection only changes when no request is under way.
KeysInv ==
    /\ \A r \in Rights : confirmed[r] <= current[r]
    /\ NoDeadKeyCached
    /\ op.kind \in {"insert", "insert_gateway"} => op.key >= confirmed[op.right]
    /\ op.kind = "rotate" => \A r \in Rights : keys[r] = <<>>
    /\ connection # "Ready" => op.kind = "none" /\ \A r \in Rights : keys[r] = <<>>

\* A token from the broker ends within TOKEN_TTL of its making, and none is made after
\* the gateway was revoked.  A request of the gateway has somebody who waits for it.
BrokerInv ==
    /\ revoked = Never \/ (0 <= revoked /\ revoked <= now)
    /\ OfGateway => provider = "broker" /\ asking # "nobody"
    /\ cache = Never \/ cache >= 0
    /\ provider = "broker" =>
        /\ cache <= now + TOKEN_TTL /\ held <= now + TOKEN_TTL
        /\ revoked # Never => cache <= revoked + TOKEN_TTL /\ held <= revoked + TOKEN_TTL

\* The loop wakes up the margin before the token it sent ends, or to try again.  While it
\* waits for an answer the token is within the margin; and it began to ask, or to fail,
\* when the margin was left, or less by one request.
LoopInv ==
    /\ asking = "connect" => held = Never
    /\ asking # "nobody" => asked <= now /\ now <= asked + TIMEOUT
    /\ held # Never => held >= 0
    /\ failing # Never => 0 <= failing
    /\ provider \in {"broker", "sas"} /\ held # Never =>
        /\ asking = "nobody" =>
            /\ Local <= due
            /\ failing = Never => due <= held - TOKEN_RENEWAL_MARGIN
            /\ sent => held - TOKEN_RENEWAL_MARGIN <= due
        /\ asking = "renew" =>
            /\ failing = Never => asked + skew <= held - TOKEN_RENEWAL_MARGIN
            /\ sent => held - TOKEN_RENEWAL_MARGIN <= Local
        /\ failing # Never => failing + skew <= held - TOKEN_RENEWAL_MARGIN + TIMEOUT

IInv == TypeOK /\ KeysInv /\ BrokerInv /\ LoopInv

-----------------------------------------------------------------------------
\* The times are natural numbers, and the margin is within a token's lifetime.
LEMMA Times ==
    /\ KEY_TTL \in Nat /\ TOKEN_TTL \in Nat /\ TOKEN_RENEWAL_MARGIN \in Nat
    /\ RETRY \in Nat /\ TIMEOUT \in Nat /\ SLACK \in Nat
    /\ TOKEN_TTL > 0 /\ RETRY > 0 /\ TOKEN_RENEWAL_MARGIN < TOKEN_TTL
BY TimesAssumption

\* The broker starts with nothing cached and the gateway with nothing asked for.
LEMMA InitInv == Init => IInv
<1> SUFFICES ASSUME Init PROVE IInv
  OBVIOUS
<1>1. TypeOK
  <2>1. skew \in Int
    BY TimesAssumption DEF Init
  <2>2. due \in Int
    BY <2>1 DEF Init, Local
  <2>3. keys \in [Rights -> {<<>>} \cup [key : Nat, expires : Nat]]
    BY DEF Init
  <2>4. op \in [kind : Kinds, right : Rights, key : Nat, at : Nat]
    BY DEF Init, Idle, Kinds, Rights
  <2>5. QED
    BY <2>1, <2>2, <2>3, <2>4 DEF Init, TypeOK, Never
<1>2. KeysInv
  BY DEF Init, KeysInv, NoDeadKeyCached, Idle
<1>3. BrokerInv
  BY Times DEF Init, BrokerInv, OfGateway, Idle, Never
<1>4. LoopInv
  BY DEF Init, LoopInv, Never
<1>5. QED
  BY <1>1, <1>2, <1>3, <1>4 DEF IInv

\* Every step keeps the types.
LEMMA NextTypes == TypeOK /\ [Next]_vars => TypeOK'
<1> SUFFICES ASSUME TypeOK, [Next]_vars PROVE TypeOK'
  OBVIOUS
<1> USE Times DEF TypeOK, azure, broker, gateway, Begin, Release, Idle, Never, Local
<1>1. ASSUME NEW k \in {"gateway", "other"}, NEW r \in Rights, relay_token(k, r) PROVE TypeOK'
  <2>1. retained \in [Rights -> {<<>>} \cup [key : Nat, expires : Nat]]
    BY DEF retained
  <2>2. live(keys[r]) => keys[r].key \in Nat
    BY DEF live
  <2>3. op' \in [kind : Kinds, right : Rights, key : Nat, at : Nat]
    <3>1. PICK kind \in Kinds, key \in Nat : Begin(kind, r, key)
      BY <1>1, <2>2 DEF relay_token, Kinds
    <3>2. QED
      BY <3>1
  <2>4. QED
    BY <1>1, <2>1, <2>3 DEF relay_token
<1>2. CASE list_keys
  BY <1>2 DEF list_keys, Kinds
<1>3. CASE insert_key
  <2>1. [key |-> op.key, expires |-> now + KEY_TTL] \in [key : Nat, expires : Nat]
    OBVIOUS
  <2>2. op' \in [kind : Kinds, right : Rights, key : Nat, at : Nat]
    BY <1>3 DEF insert_key, Kinds
  <2>3. keys' \in [Rights -> {<<>>} \cup [key : Nat, expires : Nat]]
    BY <1>3, <2>1 DEF insert_key
  <2>4. QED
    BY <1>3, <2>2, <2>3 DEF insert_key
<1>4. CASE sign \/ request_fails
  <2>1. op' \in [kind : Kinds, right : Rights, key : Nat, at : Nat]
    BY <1>4 DEF sign, request_fails, Kinds, Rights
  <2>2. QED
    BY <1>4, <2>1 DEF sign, request_fails
<1>5. CASE sign_gateway
  BY <1>5 DEF sign_gateway, Answer, Fail, sleep_until, Kinds, Rights
<1>6. CASE rotate_keys
  BY <1>6 DEF rotate_keys, dropped, Kinds, Rights
<1>7. CASE regenerate
  BY <1>7 DEF regenerate, Kinds, Rights
<1>8. CASE regenerate_fails
  BY <1>8 DEF regenerate_fails, Kinds, Rights
<1>9. ASSUME NEW r \in Rights, regenerate_lands(r) PROVE TypeOK'
  BY <1>9 DEF regenerate_lands
<1>10. CASE delete_connection
  BY <1>10 DEF delete_connection, dropped
<1>11. CASE ensure_connection
  BY <1>11 DEF ensure_connection
<1>12. CASE revoke_gateway
  BY <1>12 DEF revoke_gateway
<1>13. CASE renew
  BY <1>13 DEF renew
<1>14. CASE reconnect
  BY <1>14 DEF reconnect, Kinds, Rights
<1>15. CASE get_token_cached
  BY <1>15 DEF get_token_cached, Answer, sleep_until
<1>16. CASE get_token_fails
  BY <1>16 DEF get_token_fails, Fail, Kinds, Rights
<1>17. ASSUME NEW end \in 0 .. (MaxTime + TOKEN_TTL), get_token_local(end) PROVE TypeOK'
  <2>1. end \in Int
    BY <1>17, TimesAssumption
  <2>2. sleep_until(end) \in Int /\ Local \in Int
    BY <2>1 DEF sleep_until
  <2>3. due' \in Int /\ held' \in Int
    BY <1>17, <2>1, <2>2 DEF get_token_local, Answer
  <2>4. QED
    BY <1>17, <2>3 DEF get_token_local, Answer
<1>18. CASE get_token_local_fails
  <2>1. due' \in Int /\ failing' \in Int
    BY <1>18 DEF get_token_local_fails, Fail
  <2>2. QED
    BY <1>18, <2>1 DEF get_token_local_fails, Fail
<1>19. CASE tick
  BY <1>19 DEF tick
<1>20. CASE UNCHANGED vars
  BY <1>20 DEF vars
<1>21. QED
  BY <1>1, <1>2, <1>3, <1>4, <1>5, <1>6, <1>7, <1>8, <1>9, <1>10, <1>11, <1>12, <1>13,
     <1>14, <1>15, <1>16, <1>17, <1>18, <1>19, <1>20 DEF Next

-----------------------------------------------------------------------------
\* Whatever happens to the keys, the cache and the connection, no dead key is cached.
LEMMA NextKeys == TypeOK /\ KeysInv /\ [Next]_vars => KeysInv'
<1> SUFFICES ASSUME TypeOK, KeysInv, [Next]_vars PROVE KeysInv'
  OBVIOUS
<1> USE DEF TypeOK, KeysInv, NoDeadKeyCached, azure, broker, gateway, Begin, Release, Idle
<1>1. ASSUME NEW k \in {"gateway", "other"}, NEW r \in Rights, relay_token(k, r) PROVE KeysInv'
  <2>1. \A q \in Rights : retained[q] \in {keys[q], <<>>}
    BY DEF retained
  <2>2. op'.kind \in {"sign", "sign_gateway", "list", "list_gateway"} /\ connection = "Ready"
    BY <1>1 DEF relay_token
  <2>3. QED
    BY <1>1, <2>1, <2>2 DEF relay_token
<1>2. CASE list_keys
  BY <1>2 DEF list_keys
<1>3. CASE insert_key
  <2>1. \A r \in Rights : keys'[r] = IF r = op.right THEN [key |-> op.key, expires |-> now + KEY_TTL]
                                     ELSE keys[r]
    BY <1>3 DEF insert_key
  <2>2. op'.kind \in {"sign", "sign_gateway"} /\ connection = "Ready"
    BY <1>3 DEF insert_key
  <2>3. QED
    BY <1>3, <2>1, <2>2 DEF insert_key
<1>4. CASE sign \/ request_fails \/ sign_gateway
  BY <1>4 DEF sign, request_fails, sign_gateway
<1>5. CASE rotate_keys
  BY <1>5 DEF rotate_keys, dropped
<1>6. CASE regenerate
  <2>1. \A r \in Rights : keys'[r] = <<>>
    BY <1>6 DEF regenerate
  <2>2. \A r \in Rights : confirmed'[r] <= current'[r]
    BY <1>6 DEF regenerate
  <2>3. op'.kind \in {"rotate", "none"} /\ connection' = "Ready"
    BY <1>6 DEF regenerate
  <2>4. QED
    BY <2>1, <2>2, <2>3
<1>7. CASE regenerate_fails
  BY <1>7 DEF regenerate_fails
<1>8. ASSUME NEW r \in Rights, regenerate_lands(r) PROVE KeysInv'
  BY <1>8 DEF regenerate_lands
<1>9. CASE delete_connection
  BY <1>9 DEF delete_connection, dropped
<1>10. CASE ensure_connection
  BY <1>10 DEF ensure_connection
<1>11. CASE revoke_gateway \/ renew \/ get_token_cached \/ get_token_local_fails \/ tick
  BY <1>11 DEF revoke_gateway, renew, get_token_cached, get_token_local_fails, tick
<1>12. CASE reconnect \/ get_token_fails
  BY <1>12 DEF reconnect, get_token_fails
<1>13. ASSUME NEW end \in 0 .. (MaxTime + TOKEN_TTL), get_token_local(end) PROVE KeysInv'
  BY <1>13 DEF get_token_local
<1>14. CASE UNCHANGED vars
  BY <1>14 DEF vars
<1>15. QED
  BY <1>1, <1>2, <1>3, <1>4, <1>5, <1>6, <1>7, <1>8, <1>9, <1>10, <1>11, <1>12, <1>13,
     <1>14 DEF Next

\* Every token ends within TOKEN_TTL, and a request in flight when the gateway is revoked gets none.
LEMMA NextBroker == TypeOK /\ BrokerInv /\ [Next]_vars => BrokerInv'
<1> SUFFICES ASSUME TypeOK, BrokerInv, [Next]_vars PROVE BrokerInv'
  OBVIOUS
<1> USE Times DEF TypeOK, BrokerInv, azure, broker, gateway, Begin, Release, Idle, OfGateway, Never
<1>1. ASSUME NEW k \in {"gateway", "other"}, NEW r \in Rights, relay_token(k, r) PROVE BrokerInv'
  <2>1. k = "gateway" \/ op'.kind \in {"sign", "list"}
    BY <1>1 DEF relay_token
  <2>2. k = "gateway" => revoked = Never
    BY <1>1 DEF relay_token
  <2>3. QED
    BY <1>1, <2>1, <2>2 DEF relay_token
<1>2. CASE list_keys
  BY <1>2 DEF list_keys
<1>3. CASE insert_key
  BY <1>3 DEF insert_key
<1>4. CASE sign \/ request_fails
  BY <1>4 DEF sign, request_fails
<1>5. CASE sign_gateway
  BY <1>5 DEF sign_gateway, Answer, Fail
<1>6. CASE rotate_keys \/ regenerate \/ regenerate_fails
  <2>1. op'.kind \in {"rotate", "none"} /\ UNCHANGED <<now, provider, revoked, cache, held, asking>>
    BY <1>6 DEF rotate_keys, regenerate, regenerate_fails
  <2>2. QED
    BY <2>1
<1>7. ASSUME NEW r \in Rights, regenerate_lands(r) PROVE BrokerInv'
  BY <1>7 DEF regenerate_lands
<1>8. CASE delete_connection \/ ensure_connection
  BY <1>8 DEF delete_connection, ensure_connection
<1>9. CASE revoke_gateway
  BY <1>9 DEF revoke_gateway
<1>10. CASE renew
  BY <1>10 DEF renew
<1>11. CASE reconnect
  BY <1>11 DEF reconnect
<1>12. CASE get_token_cached
  BY <1>12 DEF get_token_cached, Answer
<1>13. CASE get_token_fails
  BY <1>13 DEF get_token_fails, Fail
<1>14. ASSUME NEW end \in 0 .. (MaxTime + TOKEN_TTL), get_token_local(end) PROVE BrokerInv'
  BY <1>14 DEF get_token_local, Answer, sas_token, static_token, aad_token
<1>15. CASE get_token_local_fails
  BY <1>15 DEF get_token_local_fails, Fail
<1>16. CASE tick
  BY <1>16 DEF tick
<1>17. CASE UNCHANGED vars
  BY <1>17 DEF vars
<1>18. QED
  BY <1>1, <1>2, <1>3, <1>4, <1>5, <1>6, <1>7, <1>8, <1>9, <1>10, <1>11, <1>12, <1>13,
     <1>14, <1>15, <1>16, <1>17 DEF Next

-----------------------------------------------------------------------------
\* A token from the broker or from a local key has more than the margin left, so after
\* an answer the loop sleeps until just that margin is left.
LEMMA AnswerLoop ==
    ASSUME TypeOK, LoopInv, NEW end \in Nat, asking # "nobody", Answer(end),
           provider \in {"broker", "sas"} => end > Local + TOKEN_RENEWAL_MARGIN,
           UNCHANGED <<now, skew, provider>>
    PROVE  LoopInv'
<1> USE Times DEF TypeOK, LoopInv, Answer, Local, Never
<1>1. held' = end /\ asking' = "nobody" /\ failing' = Never
  OBVIOUS
<1>2. CASE asking = "renew"
  <2>1. provider \in {"broker", "sas"} => due' = end - TOKEN_RENEWAL_MARGIN
    BY <1>2 DEF sleep_until
  <2>2. QED
    BY <1>1, <1>2, <2>1
<1>3. CASE asking = "connect"
  BY <1>1, <1>3
<1>4. QED
  BY <1>2, <1>3

\* After a failure the loop tries again, and remembers when the first one was.
LEMMA FailLoop ==
    ASSUME TypeOK, LoopInv, asking # "nobody", Fail, UNCHANGED <<now, skew, provider>>
    PROVE  LoopInv'
<1> USE Times DEF TypeOK, LoopInv, Fail, Local, Never
<1>1. CASE asking = "renew"
  BY <1>1
<1>2. CASE asking = "connect"
  BY <1>2
<1>3. QED
  BY <1>1, <1>2

\* The renewal loop keeps pace with its token.
LEMMA NextLoop == TypeOK /\ BrokerInv /\ LoopInv /\ [Next]_vars => LoopInv'
<1> SUFFICES ASSUME TypeOK, BrokerInv, LoopInv, [Next]_vars PROVE LoopInv'
  OBVIOUS
<1> USE DEF azure, broker, gateway
<1>1. CASE UNCHANGED <<now, skew, provider, gateway>>
  BY <1>1 DEF LoopInv, Local
<1>2. CASE sign_gateway
  <2>1. UNCHANGED <<now, skew, provider>>
    BY <1>2 DEF sign_gateway
  <2>2. asking # "nobody"
    BY <1>2 DEF sign_gateway, BrokerInv, OfGateway
  <2>3. CASE validate_token(now + TOKEN_TTL)
    <3>1. now + TOKEN_TTL \in Nat /\ now + TOKEN_TTL > Local + TOKEN_RENEWAL_MARGIN
      BY <2>3, Times DEF validate_token, Local, TypeOK
    <3>2. QED
      BY <1>2, <2>1, <2>2, <2>3, <3>1, AnswerLoop DEF sign_gateway
  <2>4. CASE ~validate_token(now + TOKEN_TTL)
    BY <1>2, <2>1, <2>2, <2>4, FailLoop DEF sign_gateway
  <2>5. QED
    BY <2>3, <2>4
<1>3. CASE renew
  BY <1>3, Times DEF renew, LoopInv, TypeOK, Local, Never
<1>4. CASE reconnect
  BY <1>4, Times DEF reconnect, LoopInv, TypeOK, Never
<1>5. CASE get_token_cached
  <2>1. cache \in Nat /\ cache > Local + TOKEN_RENEWAL_MARGIN
    BY <1>5, Times DEF get_token_cached, usable, Local, TypeOK, BrokerInv, Never
  <2>2. QED
    BY <1>5, <2>1, AnswerLoop DEF get_token_cached
<1>6. CASE get_token_fails
  BY <1>6, FailLoop DEF get_token_fails
<1>7. ASSUME NEW end \in 0 .. (MaxTime + TOKEN_TTL), get_token_local(end) PROVE LoopInv'
  <2>1. end \in Nat
    BY <1>7, TimesAssumption
  <2>2. provider \in {"broker", "sas"} => end > Local + TOKEN_RENEWAL_MARGIN
    BY <1>7, Times DEF get_token_local, sas_token, static_token, aad_token, Local, TypeOK
  <2>3. QED
    BY <1>7, <2>1, <2>2, AnswerLoop DEF get_token_local
<1>8. CASE get_token_local_fails
  BY <1>8, FailLoop DEF get_token_local_fails
<1>9. CASE tick
  BY <1>9, Times DEF tick, LoopInv, TypeOK, Local, Never
<1>10. QED
  <2>1. CASE \E r \in Rights : relay_token("gateway", r) \/ relay_token("other", r)
                               \/ regenerate_lands(r)
    BY <1>1, <2>1 DEF relay_token, regenerate_lands
  <2>2. CASE \/ list_keys \/ insert_key \/ sign \/ rotate_keys \/ regenerate \/ regenerate_fails
             \/ delete_connection \/ ensure_connection \/ revoke_gateway \/ request_fails
    BY <1>1, <2>2 DEF list_keys, insert_key, sign, rotate_keys, regenerate, regenerate_fails,
                      delete_connection, ensure_connection, revoke_gateway, request_fails
  <2>3. CASE UNCHANGED vars
    BY <1>1, <2>3 DEF vars
  <2>4. QED
    BY <1>2, <1>3, <1>4, <1>5, <1>6, <1>7, <1>8, <1>9, <2>1, <2>2, <2>3 DEF Next

-----------------------------------------------------------------------------
\* The inductive invariant holds in every reachable state.
THEOREM TokensInductive == Spec => []IInv
<1>1. IInv /\ [Next]_vars => IInv'
  BY NextTypes, NextKeys, NextBroker, NextLoop DEF IInv
<1>2. QED
  BY InitInv, <1>1, PTL DEF Spec

\* rotate_keys and issue_token: the broker never caches, and so never signs with, a key
\* that it knows ARM has replaced, for any interleaving of rotations, deletions and late
\* regenerations.
THEOREM DeadKeysDropped == Spec => []NoDeadKeyCached
<1>1. IInv => NoDeadKeyCached
  BY DEF IInv, KeysInv
<1>2. QED
  BY TokensInductive, <1>1, PTL

\* revoke_gateway: one token lifetime after the revocation nothing that the gateway holds
\* is valid, for every lifetime and wherever a request was at that moment.
THEOREM RevocationTakesEffect == Spec => []RevokedGatewayLapses
<1>1. IInv => RevokedGatewayLapses
  BY Times DEF IInv, TypeOK, BrokerInv, RevokedGatewayLapses, Never
<1>2. QED
  BY TokensInductive, <1>1, PTL

\* renew_token_loop: the authorisation of an open control channel only ends after
\* renewals have failed for the whole margin, less one request.
THEOREM LapseMeansOutage == Spec => []LapseNeedsOutage
<1>1. IInv => LapseNeedsOutage
  <2> SUFFICES ASSUME IInv, provider \in {"broker", "sas"},
                      skew + TOKEN_RENEWAL_MARGIN > TIMEOUT, held # Never, now >= held
               PROVE  failing # Never /\ now - failing >= TOKEN_RENEWAL_MARGIN + skew - TIMEOUT
    BY DEF LapseNeedsOutage
  <2>1. asking \in {"nobody", "renew"}
    BY DEF IInv, TypeOK, LoopInv
  <2>2. failing # Never
    BY <2>1, Times DEF IInv, TypeOK, LoopInv, Local, Never
  <2>3. QED
    BY <2>2, Times DEF IInv, TypeOK, LoopInv
<1>2. QED
  BY TokensInductive, <1>1, PTL

\* BrokerTokenProvider's margin: each renewal on a control channel brings a token that
\* ends later than the one before.
THEOREM RenewalsBringNewTokens == Spec => RenewalsAdvance
<1> DEFINE Renewed == provider \in {"broker", "sas"} /\ sent /\ asking = "renew"
                      /\ asking' = "nobody" /\ failing' = Never
<1>1. ASSUME IInv, [Next]_vars, Renewed PROVE held' > held
  <2> USE <1>1, Times DEF azure, broker, gateway, Never
  <2>1. held = Never \/ held - TOKEN_RENEWAL_MARGIN <= Local
    BY DEF IInv, LoopInv
  <2>2. SUFFICES \E end \in Nat : end > Local + TOKEN_RENEWAL_MARGIN /\ held' = end
    BY <2>1 DEF IInv, TypeOK, Local
  <2>3. ~Fail
    <3>1. Fail => failing' = (IF failing = Never THEN now ELSE failing)
      BY DEF Fail
    <3>2. now # Never
      BY DEF IInv, TypeOK
    <3>3. QED
      BY <3>1, <3>2
  <2>4. CASE sign_gateway
    <3>1. validate_token(now + TOKEN_TTL) /\ held' = now + TOKEN_TTL
      BY <2>3, <2>4 DEF sign_gateway, Answer
    <3>2. QED
      BY <3>1 DEF validate_token, Local, IInv, TypeOK
  <2>5. CASE get_token_cached
    BY <2>5 DEF get_token_cached, Answer, usable, Local, IInv, TypeOK, BrokerInv
  <2>6. ASSUME NEW end \in 0 .. (MaxTime + TOKEN_TTL), get_token_local(end)
        PROVE  \E e \in Nat : e > Local + TOKEN_RENEWAL_MARGIN /\ held' = e
    <3>1. end \in Nat
      BY <2>6, TimesAssumption
    <3>2. QED
      BY <2>6, <3>1 DEF get_token_local, Answer, sas_token, static_token, aad_token, Local,
                        IInv, TypeOK
  <2>7. CASE get_token_fails \/ get_token_local_fails
    BY <2>3, <2>7 DEF get_token_fails, get_token_local_fails
  <2>8. CASE renew \/ reconnect \/ tick \/ UNCHANGED vars
    BY <2>8 DEF renew, reconnect, tick, vars
  <2>9. CASE \E r \in Rights : relay_token("gateway", r) \/ relay_token("other", r)
                               \/ regenerate_lands(r)
    BY <2>9 DEF relay_token, regenerate_lands
  <2>10. CASE \/ list_keys \/ insert_key \/ sign \/ rotate_keys \/ regenerate \/ regenerate_fails
              \/ delete_connection \/ ensure_connection \/ revoke_gateway \/ request_fails
    BY <2>10 DEF list_keys, insert_key, sign, rotate_keys, regenerate, regenerate_fails,
                 delete_connection, ensure_connection, revoke_gateway, request_fails
  <2>11. QED
    BY <2>4, <2>5, <2>6, <2>7, <2>8, <2>9, <2>10 DEF Next
<1>2. IInv /\ [Next]_vars => (Renewed => held' > held)
  BY <1>1
<1>3. QED
  BY TokensInductive, <1>2, PTL DEF Spec, RenewalsAdvance

-----------------------------------------------------------------------------
(* The credential that asks for these tokens (GatewayClient), for any number of          *)
(* credentials and revisions and one command at a time.  A login writes to a scope that  *)
(* it found free; a logout removes the file it found its credential in, and only after   *)
(* the broker has revoked it.                                                            *)

\* Commands do not overlap, and no credential is taken for none.
OneCommand == (\E p : Commands = {p}) /\ NoCredential \notin Credentials

Pending == {"writing", "staged", "undo"}
InHand == Pending \cup {"revoking", "removing", "starting", "reporting", "running"}

Command == [pc : {"done", "enrolling"} \cup InHand, scope : Scopes,
            credential : {NoCredential} \cup Credentials, revision : Int]

\* The types of what the client and the broker keep.
ClientTypes ==
    /\ gateways \in [Credentials -> {"absent", "live", "revoked"}]
    /\ env \in {NoCredential} \cup Credentials
    /\ saved \in [Scopes -> {NoCredential} \cup Credentials]
    /\ process \in [Commands -> Command]
    /\ published \in Int

\* What a command p relies on from one of its steps to the next.
Relies(p) ==
    /\ process[p].pc \in InHand => process[p].credential \in Credentials
    /\ process[p].pc \in {"enrolling"} \cup Pending => saved[process[p].scope] = NoCredential
    /\ process[p].pc \in {"revoking", "removing"} =>
          process[p].credential = discover_state(process[p].scope = "machine")
    /\ process[p].pc = "removing" => gateways[process[p].credential] = "revoked"

ClientInv == ClientTypes /\ (\A p \in Commands : Relies(p)) /\ NothingOrphaned

\* What NothingOrphaned says when p is the only command.
Found(p) ==
    \A c \in Credentials : gateways[c] = "live" =>
        \/ c \in lost \/ c = env \/ \E s \in Scopes : saved[s] = c
        \/ process[p].pc \in Pending /\ process[p].credential = c

\* Found is NothingOrphaned, before and after a step.
LEMMA FoundMeans ==
    ASSUME OneCommand, NEW p \in Commands
    PROVE  /\ NothingOrphaned <=> Found(p)
           /\ NothingOrphaned' <=> Found(p)'
           /\ \A q \in Commands : q = p
<1>1. \A q \in Commands : q = p
  BY DEF OneCommand
<1>2. NothingOrphaned <=> Found(p)
  BY <1>1 DEF NothingOrphaned, carried, Found, Pending
<1>3. NothingOrphaned' <=> Found(p)'
  BY <1>1 DEF NothingOrphaned, carried, Found, Pending
<1>4. QED
  BY <1>1, <1>2, <1>3

\* What a step of command p starts from.
LEMMA ClientFacts ==
    ASSUME OneCommand, ClientInv, NEW p \in Commands
    PROVE  /\ ClientTypes /\ process[p] \in Command /\ Relies(p) /\ Found(p)
           /\ process[p].scope \in Scopes /\ Scopes = {"user", "machine"}
           /\ process[p].credential \in {NoCredential} \cup Credentials
BY FoundMeans DEF ClientInv, ClientTypes, Command, Scopes

\* What a step of command p has to keep.
LEMMA ClientStep ==
    ASSUME OneCommand, ClientInv, NEW p \in Commands, NEW c \in Command,
           process' = [process EXCEPT ![p] = c], UNCHANGED <<env, published>>,
           gateways' \in [Credentials -> {"absent", "live", "revoked"}],
           saved' \in [Scopes -> {NoCredential} \cup Credentials],
           process'[p] = c => Relies(p)' /\ Found(p)'
    PROVE  ClientInv'
<1>1. process'[p] = c /\ ClientTypes'
  BY DEF ClientInv, ClientTypes
<1>2. \A q \in Commands : Relies(q)'
  BY <1>1, FoundMeans
<1>3. NothingOrphaned'
  BY <1>1, FoundMeans
<1>4. QED
  BY <1>1, <1>2, <1>3 DEF ClientInv

\* A command that holds nothing ends, or goes on to a step where it relies on nothing.
LEMMA ClientQuiet ==
    ASSUME OneCommand, ClientInv, NEW p \in Commands, NEW c \in Command,
           process' = [process EXCEPT ![p] = c], UNCHANGED <<gateways, env, published, saved>>,
           process[p].pc \notin Pending, lost' = lost,
           \/ c.pc = "done"
           \/ c.pc \in {"starting", "reporting", "running"} /\ c.credential \in Credentials
           \/ c.pc = "enrolling" /\ saved[c.scope] = NoCredential
           \/ c.pc = "revoking" /\ c.credential \in Credentials
              /\ c.credential = discover_state(c.scope = "machine")
    PROVE  ClientInv'
<1>1. ClientTypes /\ Found(p)
  BY ClientFacts
<1>2. ASSUME process'[p] = c PROVE Found(p)'
  BY <1>1, <1>2 DEF Found
<1>3. ASSUME process'[p] = c PROVE Relies(p)'
  BY <1>3 DEF Relies, InHand, Pending, discover_state, read_state
<1>4. QED
  BY <1>1, <1>2, <1>3, ClientStep DEF ClientTypes

\* The command that has ended is one.
LEMMA DoneIsCommand == NoCommand \in Command /\ NoCommand.pc = "done"
BY DEF NoCommand, Command, Scopes

\* A command that goes on keeps its scope and credential.
LEMMA GotoCommand ==
    ASSUME ClientTypes, NEW p \in Commands, NEW pc \in {"done", "enrolling"} \cup InHand
    PROVE  /\ [process[p] EXCEPT !.pc = pc] \in Command
           /\ [process[p] EXCEPT !.pc = pc].pc = pc
           /\ [process[p] EXCEPT !.pc = pc].scope = process[p].scope
           /\ [process[p] EXCEPT !.pc = pc].credential = process[p].credential
           /\ Goto(p, pc) => process' = [process EXCEPT ![p] = [process[p] EXCEPT !.pc = pc]]
           /\ End(p) => process' = [process EXCEPT ![p] = NoCommand]
BY DEF ClientTypes, Command, Goto, End

\* The steps of a command that save nothing and revoke nothing.
LEMMA QuietSteps ==
    ASSUME OneCommand, ClientInv, NEW p \in Commands,
           \/ \E s \in Scopes : login(p, s) \/ logout(p, s) \/ bootstrap(p, s)
           \/ enrollment_fails(p) \/ start_host(p) \/ report_status(p)
           \/ end_run(p)
    PROVE  ClientInv'
<1>1. /\ ClientTypes /\ process[p] \in Command /\ Relies(p)
      /\ Scopes = {"user", "machine"}
  BY ClientFacts
<1>2. ASSUME NEW s \in Scopes, login(p, s) PROVE ClientInv'
  <2> DEFINE c == [process[p] EXCEPT !.pc = "enrolling", !.scope = s]
  <2>1. /\ process[p].pc = "done" /\ saved[s] = NoCredential
        /\ UNCHANGED <<gateways, published, env, saved, lost>>
        /\ process' = [process EXCEPT ![p] = c]
    BY <1>1, <1>2 DEF login, At, read_state, ClientTypes
  <2>2. c \in Command /\ c.pc = "enrolling" /\ c.scope = s
    BY <1>1, <1>2 DEF Command
  <2> HIDE DEF c
  <2>3. QED
    BY <2>1, <2>2, ClientQuiet DEF Pending
<1>3. ASSUME NEW s \in Scopes PROVE discover_state(s = "machine") \in {NoCredential} \cup Credentials
  BY <1>1 DEF discover_state, read_state, ClientTypes
<1>4. ASSUME NEW s \in Scopes, logout(p, s) PROVE ClientInv'
  <2> DEFINE d == discover_state(s = "machine")
             c == [NoCommand EXCEPT !.pc = "revoking", !.scope = s, !.credential = d]
  <2>1. /\ process[p].pc = "done" /\ d # NoCredential
        /\ UNCHANGED <<gateways, published, env, saved, lost>>
        /\ process' = [process EXCEPT ![p] = c]
    BY <1>4 DEF logout, At
  <2>2. d \in Credentials
    BY <1>3, <2>1
  <2>3. c \in Command /\ c.pc = "revoking" /\ c.scope = s /\ c.credential = d
    <3> HIDE DEF d
    <3>1. NoCommand \in Command /\ "revoking" \in {"done", "enrolling"} \cup InHand
      BY DoneIsCommand DEF InHand
    <3>2. QED
      BY <2>2, <3>1 DEF Command
  <2>4. c.credential = discover_state(c.scope = "machine")
    BY <2>3
  <2> HIDE DEF c, d
  <2>5. QED
    BY <2>1, <2>2, <2>3, <2>4, ClientQuiet DEF Pending
<1>5. ASSUME NEW s \in Scopes, bootstrap(p, s) PROVE ClientInv'
  <2> DEFINE d == discover_state(s = "machine")
             c == [pc |-> "starting", scope |-> s, credential |-> d, revision |-> published]
  <2>1. /\ process[p].pc = "done" /\ d # NoCredential
        /\ UNCHANGED <<gateways, published, env, saved, lost>>
        /\ process' = [process EXCEPT ![p] = c]
    BY <1>5 DEF bootstrap, At
  <2>2. d \in Credentials
    BY <1>3, <2>1
  <2>3. c \in Command /\ c.pc = "starting" /\ c.credential \in Credentials
    BY <1>1, <2>2 DEF Command, InHand, ClientTypes
  <2> HIDE DEF c, d
  <2>4. QED
    BY <2>1, <2>3, ClientQuiet DEF Pending
<1>6. ASSUME End(p), UNCHANGED <<gateways, env, published, saved, lost>>, process[p].pc \notin Pending
      PROVE  ClientInv'
  <2>1. process' = [process EXCEPT ![p] = NoCommand]
    BY <1>6 DEF End
  <2>2. QED
    BY <1>6, <2>1, DoneIsCommand, ClientQuiet
<1>7. ASSUME NEW pc \in {"reporting", "running"}, Goto(p, pc), process[p].pc \in {"starting", "reporting"},
             UNCHANGED <<gateways, env, published, saved, lost>>
      PROVE  ClientInv'
  <2> DEFINE c == [process[p] EXCEPT !.pc = pc]
  <2>1. pc \in {"done", "enrolling"} \cup InHand
    BY DEF InHand
  <2>2. c \in Command /\ c.pc = pc /\ c.credential = process[p].credential /\ process' = [process EXCEPT ![p] = c]
    BY <1>1, <1>7, <2>1, GotoCommand
  <2>3. c.credential \in Credentials
    BY <1>1, <1>7, <2>2 DEF Relies, InHand
  <2> HIDE DEF c
  <2>4. QED
    BY <1>7, <2>2, <2>3, ClientQuiet DEF Pending
<1>8. CASE enrollment_fails(p) \/ end_run(p)
  BY <1>6, <1>8 DEF enrollment_fails, end_run, At, Pending
<1>9. CASE start_host(p)
  BY <1>6, <1>7, <1>9 DEF start_host, At, Pending
<1>10. CASE report_status(p)
  BY <1>6, <1>7, <1>10 DEF report_status, At, Pending
<1>11. QED
  BY <1>2, <1>4, <1>5, <1>8, <1>9, <1>10

\* The steps of a login: where a credential is made and saved, or given up.
LEMMA LoginSteps ==
    ASSUME OneCommand, ClientInv, NEW p \in Commands,
           \/ \E c \in Credentials : authorized(p, c)
           \/ write_state(p) \/ rename_state(p) \/ undo(p) \/ crash(p)
    PROVE  ClientInv'
<1>1. /\ ClientTypes /\ process[p] \in Command /\ Relies(p) /\ Found(p)
      /\ process[p].scope \in Scopes
  BY ClientFacts
<1>2. /\ gateways \in [Credentials -> {"absent", "live", "revoked"}]
      /\ saved \in [Scopes -> {NoCredential} \cup Credentials]
  BY <1>1 DEF ClientTypes
<1>3. ASSUME process'[p] = NoCommand PROVE Relies(p)'
  BY <1>3, DoneIsCommand DEF Relies, InHand, Pending
<1>4. ASSUME NEW c \in Credentials, authorized(p, c) PROVE ClientInv'
  <2>1. /\ process[p].pc = "enrolling" /\ gateways' = [gateways EXCEPT ![c] = "live"]
        /\ UNCHANGED <<published, env, saved>>
    BY <1>4 DEF authorized, At
  <2>2. /\ gateways' \in [Credentials -> {"absent", "live", "revoked"}]
        /\ \A k \in Credentials : k # c => gateways'[k] = gateways[k]
    BY <1>2, <2>1
  <2>3. saved[process[p].scope] = NoCredential
    BY <1>1, <2>1 DEF Relies
  <2>4. CASE process' = [process EXCEPT ![p].pc = "writing", ![p].credential = c] /\ lost' = lost
    <3> DEFINE d == [process[p] EXCEPT !.pc = "writing", !.credential = c]
    <3>1. process' = [process EXCEPT ![p] = d]
      BY <1>1, <2>4 DEF ClientTypes
    <3>2. d \in Command /\ d.pc = "writing" /\ d.credential = c /\ d.scope = process[p].scope
      BY <1>1 DEF Command, InHand, Pending
    <3> HIDE DEF d
    <3>3. ASSUME process'[p] = d PROVE Relies(p)'
      BY <2>1, <2>3, <3>2, <3>3 DEF Relies, InHand, Pending
    <3>4. ASSUME process'[p] = d PROVE Found(p)'
      BY <1>1, <2>1, <2>2, <2>4, <3>2, <3>4 DEF Found, Pending
    <3>5. QED
      BY <1>2, <2>1, <2>2, <3>1, <3>2, <3>3, <3>4, ClientStep
  <2>5. CASE End(p) /\ lost' = lost \cup {c}
    <3>1. process' = [process EXCEPT ![p] = NoCommand]
      BY <2>5 DEF End
    <3>2. ASSUME process'[p] = NoCommand PROVE Found(p)'
      BY <1>1, <2>1, <2>2, <2>5 DEF Found, Pending
    <3>3. QED
      BY <1>2, <1>3, <2>1, <2>2, <3>1, <3>2, DoneIsCommand, ClientStep
  <2>6. QED
    BY <1>4, <2>4, <2>5 DEF authorized
<1>5. ASSUME NEW pc \in {"staged", "undo"}, Goto(p, pc), process[p].pc \in Pending,
             UNCHANGED <<gateways, env, published, saved, lost>>
      PROVE  ClientInv'
  <2> DEFINE d == [process[p] EXCEPT !.pc = pc]
  <2>1. pc \in {"done", "enrolling"} \cup InHand /\ pc \in Pending
    BY DEF InHand, Pending
  <2>2. /\ d \in Command /\ d.pc = pc /\ d.credential = process[p].credential
        /\ d.scope = process[p].scope /\ process' = [process EXCEPT ![p] = d]
    BY <1>1, <1>5, <2>1, GotoCommand
  <2> HIDE DEF d
  <2>3. ASSUME process'[p] = d PROVE Relies(p)'
    BY <1>1, <1>5, <2>1, <2>2, <2>3 DEF Relies, InHand, Pending
  <2>4. ASSUME process'[p] = d PROVE Found(p)'
    BY <1>1, <1>5, <2>1, <2>2, <2>4 DEF Found
  <2>5. QED
    BY <1>2, <1>5, <2>2, <2>3, <2>4, ClientStep
<1>6. ASSUME End(p), UNCHANGED <<env, published>>,
             gateways' \in [Credentials -> {"absent", "live", "revoked"}],
             saved' \in [Scopes -> {NoCredential} \cup Credentials],
             process'[p] = NoCommand => Found(p)'
      PROVE  ClientInv'
  <2>1. process' = [process EXCEPT ![p] = NoCommand]
    BY <1>6 DEF End
  <2>2. QED
    BY <1>3, <1>6, <2>1, DoneIsCommand, ClientStep
<1>7. CASE write_state(p)
  BY <1>5, <1>7 DEF write_state, At, Pending
<1>8. CASE rename_state(p)
  <2>1. /\ process[p].pc = "staged" /\ UNCHANGED <<gateways, published, env, lost>>
        /\ \/ /\ End(p) /\ saved' = [saved EXCEPT ![process[p].scope] = process[p].credential]
           \/ Goto(p, "undo") /\ saved' = saved
    BY <1>8 DEF rename_state, At
  <2>2. CASE Goto(p, "undo") /\ saved' = saved
    BY <1>5, <2>1, <2>2 DEF Pending
  <2>3. CASE End(p) /\ saved' = [saved EXCEPT ![process[p].scope] = process[p].credential]
    <3>1. process[p].credential \in Credentials /\ saved[process[p].scope] = NoCredential
      BY <1>1, <2>1 DEF Relies, InHand, Pending
    <3>2. saved' \in [Scopes -> {NoCredential} \cup Credentials]
      BY <1>2, <2>3, <3>1
    <3>3. /\ saved'[process[p].scope] = process[p].credential
          /\ \A s \in Scopes : s # process[p].scope => saved'[s] = saved[s]
      BY <1>1, <1>2, <2>3
    <3>4. \A s \in Scopes : saved[s] \in Credentials => saved'[s] = saved[s]
      BY <3>1, <3>3 DEF OneCommand
    <3>5. Found(p)'
      BY <1>1, <2>1, <3>3, <3>4 DEF Found
    <3>6. QED
      BY <1>2, <1>6, <2>1, <2>3, <3>2, <3>5
  <2>4. QED
    BY <2>1, <2>2, <2>3
<1>9. CASE undo(p)
  <2>1. /\ process[p].pc = "undo" /\ End(p) /\ UNCHANGED <<published, env, saved>>
        /\ \/ gateways' = [gateways EXCEPT ![process[p].credential] = "revoked"] /\ lost' = lost
           \/ gateways' = gateways /\ lost' = lost \cup {process[p].credential}
    BY <1>9 DEF undo, At
  <2>2. /\ gateways' \in [Credentials -> {"absent", "live", "revoked"}]
        /\ \A k \in Credentials : gateways'[k] = "live" =>
              gateways[k] = "live" /\ (k # process[p].credential \/ k \in lost')
    BY <1>2, <2>1
  <2>3. Found(p)'
    BY <1>1, <2>1, <2>2 DEF Found
  <2>4. QED
    BY <1>2, <1>6, <2>1, <2>2, <2>3
<1>10. CASE crash(p)
  <2>1. /\ End(p) /\ UNCHANGED <<gateways, published, env, saved>>
        /\ lost \subseteq lost' /\ (process[p].pc \in Pending => process[p].credential \in lost')
    BY <1>10 DEF crash, Pending
  <2>2. Found(p)'
    BY <1>1, <2>1 DEF Found
  <2>3. QED
    BY <1>2, <1>6, <2>1, <2>2
<1>11. QED
  BY <1>4, <1>7, <1>8, <1>9, <1>10

\* What remove_state removes is what logout had revoked.
LEMMA RemovesRevoked ==
    ASSUME OneCommand, ClientInv, NEW p \in Commands, remove_state(p), NEW s \in Scopes
    PROVE  /\ saved' \in [Scopes -> {NoCredential} \cup Credentials]
           /\ saved'[s] # saved[s] => saved[s] = process[p].credential /\ gateways[saved[s]] = "revoked"
<1>1. /\ ClientTypes /\ Relies(p) /\ process[p].pc = "removing" /\ Scopes = {"user", "machine"}
  BY ClientFacts DEF remove_state, At
<1>2. /\ process[p].credential = discover_state(process[p].scope = "machine")
      /\ gateways[process[p].credential] = "revoked" /\ process[p].credential \in Credentials
  BY <1>1 DEF Relies, InHand
<1> DEFINE machine == process[p].scope = "machine"
           path == IF machine \/ saved["user"] = NoCredential THEN "machine" ELSE "user"
<1>3. saved' = IF machine \/ env = NoCredential THEN [saved EXCEPT ![path] = NoCredential] ELSE saved
  BY DEF remove_state, read_state
<1>4. machine \/ env = NoCredential => saved[path] = process[p].credential
  BY <1>2 DEF discover_state, read_state
<1>5. path \in Scopes /\ saved \in [Scopes -> {NoCredential} \cup Credentials]
  BY <1>1 DEF ClientTypes
<1> HIDE DEF machine, path
<1>6. saved' \in [Scopes -> {NoCredential} \cup Credentials]
  BY <1>3, <1>5
<1>7. saved'[s] # saved[s] => s = path /\ (machine \/ env = NoCredential)
  BY <1>3, <1>5
<1>8. QED
  BY <1>2, <1>4, <1>6, <1>7

\* The steps of a logout.
LEMMA LogoutSteps ==
    ASSUME OneCommand, ClientInv, NEW p \in Commands, revoke(p) \/ remove_state(p)
    PROVE  ClientInv'
<1>1. /\ ClientTypes /\ process[p] \in Command /\ Relies(p) /\ Found(p)
  BY ClientFacts
<1>2. /\ gateways \in [Credentials -> {"absent", "live", "revoked"}]
      /\ saved \in [Scopes -> {NoCredential} \cup Credentials]
  BY <1>1 DEF ClientTypes
<1>3. ASSUME End(p), UNCHANGED <<env, published>>,
             gateways' \in [Credentials -> {"absent", "live", "revoked"}],
             saved' \in [Scopes -> {NoCredential} \cup Credentials],
             Found(p)'
      PROVE  ClientInv'
  <2>1. process' = [process EXCEPT ![p] = NoCommand]
    BY <1>3 DEF End
  <2>2. ASSUME process'[p] = NoCommand PROVE Relies(p)'
    BY <2>2, DoneIsCommand DEF Relies, InHand, Pending
  <2>3. QED
    BY <1>3, <2>1, <2>2, DoneIsCommand, ClientStep
<1>4. CASE revoke(p)
  <2>1. /\ process[p].pc = "revoking" /\ UNCHANGED <<published, env, saved, lost>>
        /\ \/ /\ gateways' = [gateways EXCEPT ![process[p].credential] = "revoked"]
              /\ Goto(p, "removing") \/ End(p)
           \/ gateways' = gateways /\ End(p)
    BY <1>4 DEF revoke, At
  <2>2. /\ gateways' \in [Credentials -> {"absent", "live", "revoked"}]
        /\ \A k \in Credentials : gateways'[k] = "live" => gateways[k] = "live"
    BY <1>2, <2>1
  <2>3. Found(p)'
    BY <1>1, <2>1, <2>2 DEF Found, Pending
  <2>4. CASE End(p)
    BY <1>2, <1>3, <2>1, <2>2, <2>3, <2>4
  <2>5. CASE /\ gateways' = [gateways EXCEPT ![process[p].credential] = "revoked"]
             /\ Goto(p, "removing")
    <3> DEFINE d == [process[p] EXCEPT !.pc = "removing"]
    <3>1. "removing" \in {"done", "enrolling"} \cup InHand
      BY DEF InHand
    <3>2. /\ d \in Command /\ d.pc = "removing" /\ d.credential = process[p].credential
          /\ d.scope = process[p].scope /\ process' = [process EXCEPT ![p] = d]
      BY <1>1, <2>5, <3>1, GotoCommand
    <3> HIDE DEF d
    <3>3. /\ process[p].credential \in Credentials
          /\ process[p].credential = discover_state(process[p].scope = "machine")
      BY <1>1, <2>1 DEF Relies, InHand
    <3>4. gateways'[process[p].credential] = "revoked"
      BY <1>2, <2>5, <3>3
    <3>5. ASSUME process'[p] = d PROVE Relies(p)'
      BY <2>1, <3>2, <3>3, <3>4, <3>5 DEF Relies, Pending, discover_state, read_state
    <3>6. QED
      BY <1>2, <2>1, <2>2, <2>3, <3>2, <3>5, ClientStep
  <2>6. QED
    BY <2>1, <2>4, <2>5
<1>5. CASE remove_state(p)
  <2>1. process[p].pc = "removing" /\ End(p) /\ UNCHANGED <<gateways, published, env, lost>>
    BY <1>5 DEF remove_state, At
  <2>2. /\ saved' \in [Scopes -> {NoCredential} \cup Credentials]
        /\ \A s \in Scopes : saved'[s] # saved[s] => gateways[saved[s]] = "revoked"
    <3>1. "user" \in Scopes
      BY DEF Scopes
    <3>2. QED
      BY <1>5, <3>1, RemovesRevoked
  <2>3. Found(p)'
    BY <1>1, <2>1, <2>2 DEF Found, Pending
  <2>4. QED
    BY <1>2, <1>3, <2>1, <2>2, <2>3
<1>6. QED
  BY <1>4, <1>5

\* Every step of the client and of the broker.
LEMMA ClientNextInv == ASSUME OneCommand, ClientInv, [ClientNext]_(clientVars) PROVE ClientInv'
<1>1. PICK p : p \in Commands
  BY DEF OneCommand
<1>2. /\ ClientTypes /\ Relies(p) /\ Found(p) /\ process[p] \in Command
  BY <1>1, ClientFacts
<1>3. ASSUME NEW q \in Commands, Step(q) PROVE ClientInv'
  BY <1>3, QuietSteps, LoginSteps, LogoutSteps DEF Step
<1>4. ASSUME UNCHANGED <<env, saved, process, lost>>, published' \in Int,
             gateways' \in [Credentials -> {"absent", "live", "revoked"}],
             \A k \in Credentials : /\ gateways'[k] = "live" => gateways[k] = "live"
                                    /\ gateways[k] = "revoked" => gateways'[k] = "revoked"
      PROVE  ClientInv'
  <2>1. ClientTypes'
    BY <1>2, <1>4 DEF ClientTypes
  <2>2. Relies(p)'
    BY <1>2, <1>4 DEF Relies, InHand, discover_state, read_state
  <2>3. Found(p)'
    BY <1>2, <1>4 DEF Found
  <2>4. QED
    BY <1>1, <2>1, <2>2, <2>3, FoundMeans DEF ClientInv
<1>5. gateways \in [Credentials -> {"absent", "live", "revoked"}] /\ published \in Int
  BY <1>2 DEF ClientTypes
<1>6. ASSUME NEW r \in 1..MaxRevision, publish(r) PROVE ClientInv'
  BY <1>4, <1>5, <1>6 DEF publish
<1>7. ASSUME NEW c \in Credentials, gateway_revoked(c) PROVE ClientInv'
  <2>1. gateways' = [gateways EXCEPT ![c] = "revoked"] /\ UNCHANGED <<published, env, saved, process, lost>>
    BY <1>7 DEF gateway_revoked
  <2>2. /\ gateways' \in [Credentials -> {"absent", "live", "revoked"}]
        /\ \A k \in Credentials : /\ gateways'[k] = "live" => gateways[k] = "live"
                                  /\ gateways[k] = "revoked" => gateways'[k] = "revoked"
    BY <1>5, <2>1
  <2>3. QED
    BY <1>4, <1>5, <2>1, <2>2
<1>8. CASE UNCHANGED clientVars
  BY <1>4, <1>5, <1>8 DEF clientVars
<1>9. QED
  BY <1>3, <1>6, <1>7, <1>8 DEF ClientNext

\* The client and the broker agree on what is saved, in every reachable state.
THEOREM ClientInductive == ASSUME OneCommand PROVE ClientSpec => []ClientInv
<1>1. ASSUME ClientInit PROVE ClientInv
  <2>1. PICK p : p \in Commands
    BY DEF OneCommand
  <2>2. ClientTypes
    BY <1>1, DoneIsCommand DEF ClientInit, ClientTypes
  <2>3. \A q \in Commands : process[q].pc = "done"
    BY <1>1, DoneIsCommand DEF ClientInit
  <2>4. \A q \in Commands : Relies(q)
    BY <2>3 DEF Relies, InHand, Pending
  <2>5. Found(p)
    BY <1>1 DEF ClientInit, Found
  <2>6. QED
    BY <2>1, <2>2, <2>4, <2>5, FoundMeans DEF ClientInv
<1>2. QED
  BY <1>1, ClientNextInv, PTL DEF ClientSpec

\* login: a live credential is where it can be found or in the hands of a login, unless a
\* crash, a lost answer or an unreachable broker orphaned it; a failure to save it never
\* does.
THEOREM CredentialsFound == ASSUME OneCommand PROVE ClientSpec => []NothingOrphaned
<1>1. ClientInv => NothingOrphaned
  BY DEF ClientInv
<1>2. QED
  BY <1>1, ClientInductive, PTL

\* logout: a saved credential is removed only after the broker has revoked it.
THEOREM RevokedBeforeRemoved == ASSUME OneCommand PROVE ClientSpec => LogoutRevokesFirst
<1>1. ASSUME ClientInv, [ClientNext]_(clientVars)
      PROVE  [\A s \in Scopes : saved[s] # NoCredential /\ saved'[s] = NoCredential
                 => gateways[saved[s]] = "revoked"]_(clientVars)
  <2>1. SUFFICES ASSUME ClientNext, NEW s \in Scopes,
                        saved[s] # NoCredential, saved'[s] = NoCredential
                 PROVE  gateways[saved[s]] = "revoked"
    BY <1>1
  <2>2. PICK p \in Commands : rename_state(p) \/ remove_state(p)
    BY <2>1 DEF ClientNext, Step, login, logout, bootstrap,
                authorized, enrollment_fails, write_state, undo,
                revoke, start_host, report_status, end_run,
                crash, publish, gateway_revoked
  <2>3. CASE remove_state(p)
    BY <1>1, <2>1, <2>3, RemovesRevoked
  <2>4. CASE rename_state(p)
    <3>1. /\ ClientTypes /\ Relies(p) /\ process[p].pc = "staged" /\ process[p].scope \in Scopes
      BY <1>1, <2>4, ClientFacts DEF rename_state, At
    <3>2. process[p].credential \in Credentials
      BY <3>1 DEF Relies, InHand, Pending
    <3>3. saved' = saved \/ saved' = [saved EXCEPT ![process[p].scope] = process[p].credential]
      BY <2>4 DEF rename_state
    <3>4. saved'[s] = saved[s] \/ saved'[s] = process[p].credential
      BY <3>1, <3>3 DEF ClientTypes
    <3>5. QED
      BY <2>1, <3>2, <3>4 DEF OneCommand
  <2>5. QED
    BY <2>2, <2>3, <2>4
<1>2. QED
  BY <1>1, ClientInductive, PTL DEF ClientSpec, LogoutRevokesFirst
=============================================================================
