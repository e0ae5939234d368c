----------------------------- MODULE RelayTokens -----------------------------
(***************************************************************************)
(* How a gateway stays authorised on the relay.  The broker keeps the keys *)
(* of a hybrid connection in a cache for KEY_TTL, signs tokens of TOKEN_TTL*)
(* with them, and throws them away when it rotates the keys or deletes the *)
(* connection (relay.rs, gateways.rs, workspaces.rs).  The gateway caches  *)
(* the token it was given (BrokerTokenProvider in src/broker.rs) and the   *)
(* renewal loop of its listener sends it to the relay again before it ends *)
(* (listener.rs).  The clock, both keys of the connection, requests that   *)
(* fail, are dropped or take effect late, and the gateway's own clock are  *)
(* all part of the model.  One connection and one gateway: keys and tokens *)
(* of different connections and gateways do not meet.                      *)
(***************************************************************************)
EXTENDS Integers

CONSTANTS
    KEY_TTL,                \* the broker's cached keys (300 s)
    TOKEN_TTL,              \* tokens the broker or a local key signs (3600 s)
    TOKEN_RENEWAL_MARGIN,   \* of the provider's cache and the listener (300 s)
    RETRY,                  \* pause of the renewal loop after an error (30 s)
    TIMEOUT,                \* longest request to ARM or to the broker (30 s)
    SLACK,                  \* what a token may exceed TOKEN_TTL by (60 s)
    Skews,                  \* how far the gateway's clock may be ahead
    Providers,              \* the token providers to consider
    MaxTime,                \* bound of the clock
    MaxKey                  \* bound of the key versions

ASSUME TimesAssumption ==
    /\ {KEY_TTL, TOKEN_TTL, TOKEN_RENEWAL_MARGIN, RETRY, TIMEOUT} \subseteq Nat \ {0}
    /\ {SLACK, MaxTime, MaxKey} \subseteq Nat
    /\ TOKEN_RENEWAL_MARGIN < TOKEN_TTL
    /\ Skews \subseteq Int
    /\ Providers \subseteq {"broker", "sas", "static", "aad"}

Rights == {"Send", "Listen"}
Never == -1

VARIABLES
    now,        \* the clock of the broker and the relay
    skew,       \* the gateway's clock is now + skew
    provider,   \* which TokenProvider the listener was built with
    connection, \* the hybrid connection: Ready, Deleting or Gone
    current,    \* ARM: version of each right's primary key
    late,       \* regenerations that may still take effect after their request ended
    confirmed,  \* the version of each key that a regeneration confirmed to the broker
    keys,       \* ArmRelayManager.keys: <<>> or [key, expires] for each right
    op,         \* the request that holds mutation_lock and the lock of keys
    revoked,    \* when the gateway was revoked
    cache,      \* BrokerTokenProvider.cache: the end of its token, or Never
    asking,     \* who waits for get_token: nobody, the renewal loop or a connect
    asked,      \* since when
    due,        \* when the renewal loop wakes up, by the gateway's clock
    held,       \* end of the token the control channel was last authorised with
    sent,       \* the renewal loop has sent a token on this control channel
    failing     \* since when every renewal has failed

azure == <<connection, current, late, confirmed>>
broker == <<keys, op, revoked>>
gateway == <<cache, asking, asked, due, held, sent, failing>>
vars == <<now, skew, provider, connection, current, late, confirmed, keys, op, revoked,
          cache, asking, asked, due, held, sent, failing>>

Idle == [kind |-> "none", right |-> "Send", key |-> 0, at |-> 0]
Local == now + skew
OfGateway == op.kind \in {"list_gateway", "insert_gateway", "sign_gateway"}

Init ==
    /\ now = 0
    /\ skew \in Skews
    /\ provider \in Providers
    /\ connection = IF provider = "broker" THEN "Ready" ELSE "Gone"
    /\ current = [r \in Rights |-> 0]
    /\ late = {}
    /\ confirmed = [r \in Rights |-> 0]
    /\ keys = [r \in Rights |-> <<>>]
    /\ op = Idle
    /\ revoked = Never
    /\ cache = Never
    /\ asking = "nobody"
    /\ asked = 0
    /\ due = Local
    /\ held = Never
    /\ sent = FALSE
    /\ failing = Never

-----------------------------------------------------------------------------
(* The broker.  Every handler below holds mutation_lock to its end, so there
   is at most one; it is a step per request to ARM. *)

\* The requests that wait for the relay's management API at this moment.
Begin(kind, right, key) == op' = [kind |-> kind, right |-> right, key |-> key, at |-> now]
Release == op' = Idle

\* Cached keys that are still usable: keys.retain(expires > now).
live(k) == k # <<>> /\ k.expires > now
retained == [r \in Rights |-> IF live(keys[r]) THEN keys[r] ELSE <<>>]
dropped == [r \in Rights |-> <<>>]

\* The bug the comment on TOKEN_RENEWAL_MARGIN is about: a cached token is handed
\* out for as long as it is valid.
usable_until_expiry(end) == end # Never /\ end - Local > 0

\* A cached token is handed out while more than the margin is left of it.
usable(end) == end # Never /\ end - Local > TOKEN_RENEWAL_MARGIN

\* relay_token up to the first await that matters: the bearer must not be revoked
\* and the connection must be there; a cached key is used, otherwise ARM is asked.
\* Another gateway asks for either right; this one asks to listen.
relay_token(kind, right) ==
    /\ op.kind = "none"
    /\ connection = "Ready"
    /\ kind = "gateway" =>
          /\ asking # "nobody" /\ provider = "broker" /\ ~usable(cache)
          /\ revoked = Never
          /\ right = "Listen"
    /\ keys' = retained
    /\ IF live(keys[right])
         THEN Begin(IF kind = "gateway" THEN "sign_gateway" ELSE "sign", right, keys[right].key)
         ELSE Begin(IF kind = "gateway" THEN "list_gateway" ELSE "list", right, 0)
    /\ UNCHANGED <<now, skew, provider, azure, revoked, gateway>>

\* ARM answers listKeys; the answer is on its way while op stands at "insert".
list_keys ==
    /\ op.kind \in {"list", "list_gateway"}
    /\ op' = [op EXCEPT !.kind = IF op.kind = "list" THEN "insert" ELSE "insert_gateway",
                        !.key = current[op.right]]
    /\ UNCHANGED <<now, skew, provider, azure, keys, revoked, gateway>>

\* The rest of issue_token: the key enters the cache.
insert_key ==
    /\ op.kind \in {"insert", "insert_gateway"}
    /\ keys' = [keys EXCEPT ![op.right] = [key |-> op.key, expires |-> now + KEY_TTL]]
    /\ op' = [op EXCEPT !.kind = IF op.kind = "insert" THEN "sign" ELSE "sign_gateway"]
    /\ UNCHANGED <<now, skew, provider, azure, revoked, gateway>>

\* The bug: the rotation leaves the cached keys alone until they expire.
rotate_keys_clears_last ==
    /\ op.kind = "none"
    /\ connection = "Ready"
    /\ keys' = keys
    /\ Begin("rotate", "Send", 0)
    /\ UNCHANGED <<now, skew, provider, azure, revoked, gateway>>

\* rotate_connection and the start of rotate_keys: both cached keys go first.
rotate_keys ==
    /\ op.kind = "none"
    /\ connection = "Ready"
    /\ keys' = dropped
    /\ Begin("rotate", "Send", 0)
    /\ UNCHANGED <<now, skew, provider, azure, revoked, gateway>>

\* ARM regenerates a key at once and says so: the loop goes on to the next right.
regenerate ==
    /\ op.kind = "rotate"
    /\ current[op.right] < MaxKey
    /\ current' = [current EXCEPT ![op.right] = @ + 1]
    /\ confirmed' = [confirmed EXCEPT ![op.right] = current[op.right] + 1]
    /\ IF op.right = "Send" THEN Begin("rotate", "Listen", 0) ELSE Release
    /\ UNCHANGED <<now, skew, provider, connection, late, keys, revoked, gateway>>

\* The regeneration fails, is accepted for later, times out, or its client is gone
\* and the handler is dropped: the rotation ends, and ARM may still carry it out.
regenerate_fails ==
    /\ op.kind = "rotate"
    /\ late' \in {late, late \cup {op.right}}
    /\ Release
    /\ UNCHANGED <<now, skew, provider, connection, current, confirmed, keys, revoked, gateway>>

\* ARM carries out a regeneration whose request has ended.
regenerate_lands(right) ==
    /\ right \in late
    /\ connection # "Gone"
    /\ current[right] < MaxKey
    /\ current' = [current EXCEPT ![right] = @ + 1]
    /\ late' = late \ {right}
    /\ UNCHANGED <<now, skew, provider, connection, confirmed, broker, gateway>>

\* delete_connection of the relay manager: the cached keys go, then the connection.
\* An unconfirmed deletion is repeated by the reconciler.
delete_connection ==
    /\ op.kind = "none"
    /\ connection # "Gone"
    /\ keys' = dropped
    /\ connection' \in {"Deleting", "Gone"}
    /\ late' = IF connection' = "Gone" THEN {} ELSE late
    /\ UNCHANGED <<now, skew, provider, current, confirmed, op, revoked, gateway>>

\* ensure_connection makes it again, under new keys.
ensure_connection ==
    /\ op.kind = "none"
    /\ provider = "broker"
    /\ connection = "Gone"
    /\ \A r \in Rights : current[r] < MaxKey
    /\ connection' = "Ready"
    /\ current' = [r \in Rights |-> current[r] + 1]
    /\ confirmed' = current'
    /\ UNCHANGED <<now, skew, provider, late, broker, gateway>>

\* revoke_gateway, or logout from elsewhere.  It holds mutation_lock too, but when its
\* write is given up after 30 s it may reach the table later, under any other request.
revoke_gateway ==
    /\ provider = "broker"
    /\ revoked = Never
    /\ revoked' = now
    /\ UNCHANGED <<now, skew, provider, azure, keys, op, gateway>>

-----------------------------------------------------------------------------
(* The gateway. *)

\* validate_token: not near its end, and not longer than an hour and a minute.
validate_token(end) ==
    /\ end - Local > TOKEN_RENEWAL_MARGIN
    /\ end - Local <= TOKEN_TTL + SLACK

\* The bug: the loop sleeps until the token ends.
sleep_until_expiry(end) == IF end > Local THEN end ELSE Local + RETRY

\* When the renewal loop wakes up after it sent a token.
sleep_until(end) ==
    IF end - TOKEN_RENEWAL_MARGIN > Local THEN end - TOKEN_RENEWAL_MARGIN ELSE Local + RETRY

\* get_token returned: the renewal loop sends the token and sleeps; a connect
\* opens a control channel with it, and a new renewal loop starts at once.
Answer(end) ==
    /\ asking' = "nobody"
    /\ asked' = 0
    /\ held' = end
    /\ failing' = Never
    /\ IF asking = "renew"
         THEN due' = sleep_until(end) /\ sent' = TRUE
         ELSE due' = Local /\ sent' = FALSE

\* get_token failed: the renewal loop tries again later, a connect is given up.
Fail ==
    /\ asking' = "nobody"
    /\ asked' = 0
    /\ due' = IF asking = "renew" THEN Local + RETRY ELSE due
    /\ failing' = IF asking = "renew" /\ failing = Never THEN now ELSE failing
    /\ UNCHANGED <<held, sent>>

\* The renewal loop of an open control channel wakes up.
renew ==
    /\ asking = "nobody"
    /\ held # Never
    /\ Local >= due
    /\ asking' = "renew"
    /\ asked' = now
    /\ UNCHANGED <<now, skew, provider, azure, broker, cache, due, held, sent, failing>>

\* The control channel is down, which aborts its renewal loop and the request the
\* loop is waiting for; connect_control_channel wants a token for the next one.
reconnect ==
    /\ asking # "connect"
    /\ op' = IF OfGateway THEN Idle ELSE op
    /\ asking' = "connect"
    /\ asked' = now
    /\ held' = Never
    /\ sent' = FALSE
    /\ failing' = Never
    /\ due' = Local
    /\ UNCHANGED <<now, skew, provider, azure, keys, revoked, cache>>

\* get_token of BrokerTokenProvider: the cached token, if it is still usable.
get_token_cached ==
    /\ asking # "nobody"
    /\ provider = "broker"
    /\ ~OfGateway
    /\ usable(cache)
    /\ Answer(cache)
    /\ UNCHANGED <<now, skew, provider, azure, broker, cache>>

\* sign, and the answer to another gateway: a token that ends TOKEN_TTL from now.
sign ==
    /\ op.kind = "sign"
    /\ Release
    /\ UNCHANGED <<now, skew, provider, azure, keys, revoked, gateway>>

\* The bug: a failed save of last_seen_at is of no consequence for the token.
sign_gateway_unsaved ==
    /\ op.kind = "sign_gateway"
    /\ Release
    /\ IF validate_token(now + TOKEN_TTL)
         THEN cache' = now + TOKEN_TTL /\ Answer(now + TOKEN_TTL)
         ELSE cache' = Never /\ Fail
    /\ UNCHANGED <<now, skew, provider, azure, keys, revoked>>

\* sign and save_gateway, which replaces the row that bearer read: a revocation has
\* changed its ETag.  Then the answer.
sign_gateway ==
    /\ op.kind = "sign_gateway"
    /\ revoked = Never
    /\ Release
    /\ IF validate_token(now + TOKEN_TTL)
         THEN cache' = now + TOKEN_TTL /\ Answer(now + TOKEN_TTL)
         ELSE cache' = Never /\ Fail
    /\ UNCHANGED <<now, skew, provider, azure, keys, revoked>>

\* A request for a token fails: it is refused, ARM or the store does not answer, the
\* row to save has changed, or the client gives up and the broker drops the handler.
\* No token is left in the cache.
request_fails ==
    /\ op.kind \in {"list", "insert", "sign"}
    /\ Release
    /\ UNCHANGED <<now, skew, provider, azure, keys, revoked, gateway>>

get_token_fails ==
    /\ asking # "nobody"
    /\ provider = "broker"
    /\ ~usable(cache)
    /\ op' = IF OfGateway THEN Idle ELSE op
    /\ cache' = Never
    /\ Fail
    /\ UNCHANGED <<now, skew, provider, azure, keys, revoked>>

\* The providers that do not ask the broker: a local key always signs a fresh token;
\* a fixed signature works until it ends (at TOKEN_TTL here); Entra hands out any token
\* it has, or none.
sas_token(end) == provider = "sas" /\ end = Local + TOKEN_TTL
static_token(end) == provider = "static" /\ end = TOKEN_TTL /\ Local < end
aad_token(end) == provider = "aad" /\ end > Local /\ end <= Local + TOKEN_TTL

get_token_local(end) ==
    /\ asking # "nobody"
    /\ sas_token(end) \/ static_token(end) \/ aad_token(end)
    /\ Answer(end)
    /\ UNCHANGED <<now, skew, provider, azure, broker, cache>>

get_token_local_fails ==
    /\ asking # "nobody"
    /\ \/ provider = "static" /\ Local >= TOKEN_TTL
       \/ provider = "aad"
    /\ Fail
    /\ UNCHANGED <<now, skew, provider, azure, broker, cache>>

\* Time passes.  Timers fire when they are due and requests end within TIMEOUT.
tick ==
    /\ now < MaxTime
    /\ held # Never /\ asking = "nobody" => Local < due
    /\ op.kind # "none" => now < op.at + TIMEOUT
    /\ asking # "nobody" => now < asked + TIMEOUT
    /\ now' = now + 1
    /\ UNCHANGED <<skew, provider, azure, broker, gateway>>

Next ==
    \/ \E r \in Rights : relay_token("gateway", r) \/ relay_token("other", r)
    \/ list_keys \/ insert_key \/ sign \/ sign_gateway
    \/ rotate_keys \/ regenerate \/ regenerate_fails
    \/ \E r \in Rights : regenerate_lands(r)
    \/ delete_connection \/ ensure_connection \/ revoke_gateway
    \/ renew \/ reconnect
    \/ get_token_cached \/ request_fails \/ get_token_fails
    \/ \E end \in 0 .. (MaxTime + TOKEN_TTL) : get_token_local(end)
    \/ get_token_local_fails
    \/ tick

Spec == Init /\ [][Next]_vars

-----------------------------------------------------------------------------
(* Properties. *)

\* The broker never keeps, and so never signs with, a key that it knows to be dead:
\* whichever of the two regenerations of a rotation succeeded, in whatever order
\* rotations, deletions, key reads and late regenerations happened, no cached key
\* is older than the last regeneration ARM confirmed ("Invalidate both rights even
\* if ARM fails after rotating only one").
NoDeadKeyCached ==
    \A r \in Rights : keys[r] # <<>> => keys[r].key >= confirmed[r]

\* A revoked gateway loses the relay within one token lifetime: from then on neither
\* the token in its cache nor the one its control channel was authorised with is
\* valid, although nobody tells the gateway or the relay.
RevokedGatewayLapses ==
    provider = "broker" /\ revoked # Never /\ now >= revoked + TOKEN_TTL =>
        cache <= now /\ held <= now

\* An open control channel's authorisation only ends after renewals have failed for
\* the whole margin: with a provider that hands out fresh tokens, the loop starts
\* early enough and one failure, or one slow request, is never enough.  The gateway's
\* clock may be wrong, but not so late that the margin less one request is used up.
LapseNeedsOutage ==
    /\ provider \in {"broker", "sas"} /\ skew + TOKEN_RENEWAL_MARGIN > TIMEOUT
    /\ held # Never /\ now >= held
    => failing # Never /\ now - failing >= TOKEN_RENEWAL_MARGIN + skew - TIMEOUT

\* On one control channel each renewal brings a token that ends later than the one
\* before ("a cached token cannot cause its renewal loop to repeatedly resend the
\* same near-expiry SAS").
RenewalsAdvance ==
    [][/\ provider \in {"broker", "sas"}
       /\ sent /\ asking = "renew" /\ asking' = "nobody"
       /\ failing' = Never
       => held' > held]_vars
=============================================================================
