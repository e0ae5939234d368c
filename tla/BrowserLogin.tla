---------------------------- MODULE BrowserLogin ----------------------------
(***************************************************************************)
(* Signing in to the broker with a browser (auth.rs): the OAuth challenge, *)
(* which is a row of the Enrollments table and a cookie, the callback that *)
(* spends it, the session cookie, and the mutations a page makes with the  *)
(* token it got from /api/v1/me.  Tabs of one browser share its cookies.   *)
(* RateLimit is about the limit on logins; here it may always refuse one.  *)
(*                                                                         *)
(* The broker keeps no sessions: a session is what its sealed cookie says. *)
(* Challenges, sessions and the secrets in them are numbered in the order  *)
(* they are made, so equal numbers stand for equal secrets.                *)
(***************************************************************************)
EXTENDS Naturals, Sequences

CONSTANTS
    Tabs, Browsers,
    Users,              \* GitHub users
    Admins,             \* bootstrap_admin_ids, who need no membership
    OAUTH_SECONDS, SESSION_SECONDS,
    MaxTime,            \* bound on the clock
    MaxLogins,          \* bound on the challenges that are made
    MaxSessions         \* bound on the sessions that are issued

ASSUME LoginAssumption ==
    /\ {OAUTH_SECONDS, SESSION_SECONDS, MaxTime, MaxLogins, MaxSessions} \subseteq Nat
    /\ Admins \subseteq Users

VARIABLES
    now,
    dev,            \* settings.dev: no GitHub, and /auth/dev instead
    browser,        \* the browser each tab belongs to
    members,        \* users who have a workspace
    expires_at,     \* of every challenge, by number
    rows,           \* challenges that have their "oauth:" row
    approved,       \* who approved it at GitHub, or Nobody
    origin,         \* history: the browser that asked for each challenge
    exchanged,      \* history: how often the code of a challenge went to GitHub
    sessions,       \* what every session cookie says, and the challenge it came from
    jar,            \* the cookies of each browser; 0 is none
    tab             \* the request or page of each tab

vars == <<now, dev, browser, members, expires_at, rows, approved,
          origin, exchanged, sessions, jar, tab>>

Nobody == "nobody"
Challenges == 1..Len(expires_at)
Sessions == 1..Len(sessions)
Steps == {"Page", "GitHub", "Code", "Get", "Delete", "Exchange", "Consume",
          "Check", "Me"}

\* Every variable has its type.
TypeOK ==
    /\ now \in Nat /\ dev \in BOOLEAN /\ browser \in [Tabs -> Browsers] /\ members \subseteq Users
    /\ expires_at \in Seq(Nat) /\ rows \subseteq Challenges
    /\ approved \in Seq(Users \cup {Nobody}) /\ origin \in Seq(Browsers) /\ exchanged \in Seq(Nat)
    /\ sessions \in Seq([user : Users, expires_at : Nat, challenge : Nat])
    /\ jar \in [Browsers -> [challenge : Nat, session : Nat]]
    /\ tab \in [Tabs -> [pc : Steps, state : Nat, shows : Nat, sent : Nat]]

Init ==
    /\ now = 0 /\ dev \in BOOLEAN /\ browser \in [Tabs -> Browsers] /\ members = Users
    /\ expires_at = <<>> /\ rows = {}
    /\ approved = <<>> /\ origin = <<>> /\ exchanged = <<>> /\ sessions = <<>>
    /\ jar = [b \in Browsers |-> [challenge |-> 0, session |-> 0]]
    /\ tab = [t \in Tabs |-> [pc |-> "Page", state |-> 0, shows |-> 0, sent |-> 0]]

brokerVars == <<expires_at, rows, approved, origin, exchanged, sessions>>
settingVars == <<now, dev, browser, members>>

Goto(t, pc) == tab' = [tab EXCEPT ![t].pc = pc]
Return(t) == tab' = [tab EXCEPT ![t] = [@ EXCEPT !.pc = "Page", !.state = 0, !.sent = 0]]
\* The request is answered with an error, or its client is gone: the tab is a page again.
Refuse(t) == Return(t) /\ UNCHANGED <<settingVars, brokerVars, jar>>

-----------------------------------------------------------------------------
(* /auth/github/login *)

\* login: insert the row of a fresh challenge; the redirect to GitHub sets its cookie,
\* unless the answer is lost.
login(t) ==
    /\ ~dev /\ tab[t].pc = "Page" /\ Len(expires_at) < MaxLogins
    /\ LET c == Len(expires_at) + 1
       IN  /\ expires_at' = Append(expires_at, now + OAUTH_SECONDS)
           /\ rows' = rows \cup {c}
           /\ approved' = Append(approved, Nobody)
           /\ origin' = Append(origin, browser[t])
           /\ exchanged' = Append(exchanged, 0)
           /\ \/ /\ jar' = [jar EXCEPT ![browser[t]].challenge = c]
                 /\ tab' = [tab EXCEPT ![t].pc = "GitHub", ![t].state = c]
              \/ Return(t) /\ UNCHANGED jar
    /\ UNCHANGED <<settingVars, sessions>>

\* The person signs in to GitHub as u and approves; GitHub redirects to the callback.
approve(t, u) ==
    /\ tab[t].pc = "GitHub"
    /\ approved' = [approved EXCEPT ![tab[t].state] = u]
    /\ Goto(t, "Code")
    /\ UNCHANGED <<settingVars, expires_at, rows, origin, exchanged, sessions, jar>>

\* The address of a callback is opened once more: a reloaded or restored tab, a redirect
\* the browser repeats, a link that is passed on to another browser.
reopen(t, c) ==
    /\ tab[t].pc = "Page" /\ approved[c] # Nobody
    /\ tab' = [tab EXCEPT ![t].pc = "Code", ![t].state = c]
    /\ UNCHANGED <<settingVars, brokerVars, jar>>

-----------------------------------------------------------------------------
(* /auth/github/callback *)

\* The bug "any challenge of the broker's own will do".
state_matches_any(t) == tab[t].state \in Challenges /\ expires_at[tab[t].state] > now

\* The challenge cookie opens, is not too old and is about the state GitHub returned.
state_matches(t) ==
    LET c == jar[browser[t]].challenge
    IN  c # 0 /\ expires_at[c] > now /\ tab[t].state = c

callback(t) ==
    /\ tab[t].pc = "Code"
    /\ IF state_matches(t) THEN Goto(t, "Get") ELSE Return(t)
    /\ UNCHANGED <<settingVars, brokerVars, jar>>

\* The row is read, which gives the etag to delete it by; rows are never rewritten.
get_challenge(t) ==
    /\ tab[t].pc = "Get"
    /\ IF tab[t].state \in rows THEN Goto(t, "Delete") ELSE Return(t)
    /\ UNCHANGED <<settingVars, brokerVars, jar>>

\* The bug "a row that is gone counts as deleted".
delete_challenge_twice(t) ==
    /\ tab[t].pc = "Delete"
    /\ rows' = rows \ {tab[t].state} /\ Goto(t, "Exchange")
    /\ UNCHANGED <<settingVars, expires_at, approved, origin, exchanged, sessions, jar>>

\* Whoever deletes the row has the challenge; the answer may be lost on the way back.
delete_challenge(t) ==
    /\ tab[t].pc = "Delete"
    /\ rows' = rows \ {tab[t].state}
    /\ \/ tab[t].state \in rows /\ Goto(t, "Exchange")
       \/ Return(t)
    /\ UNCHANGED <<settingVars, expires_at, approved, origin, exchanged, sessions, jar>>

\* exchange_code: the code goes to GitHub with the verifier of the challenge.
exchange_code(t) ==
    /\ tab[t].pc = "Exchange"
    /\ exchanged' = [exchanged EXCEPT ![tab[t].state] = @ + 1]
    /\ Goto(t, "Consume") \/ Return(t)
    /\ UNCHANGED <<settingVars, expires_at, rows, approved, origin, sessions, jar>>

\* consume_token: who the token is of, and its revocation; an error of either ends the login.
consume_token(t) ==
    /\ tab[t].pc = "Consume"
    /\ Goto(t, "Check")
    /\ UNCHANGED <<settingVars, brokerVars, jar>>

\* A request for GitHub or the store fails, or its client goes away between two steps.
fail(t) == tab[t].pc \in Steps \ {"Page", "Code"} /\ Refuse(t)

accessible(u) == u \in Admins \cup members

\* set_session: a fresh session, which the response puts in the browser's cookies.
set_session(t, u, c) ==
    /\ Len(sessions) < MaxSessions
    /\ sessions' = Append(sessions, [user |-> u, expires_at |-> now + SESSION_SECONDS,
                                     challenge |-> c])
    /\ jar' = [jar EXCEPT ![browser[t]] =
                 [session |-> Len(sessions) + 1, challenge |-> IF c = 0 THEN @.challenge ELSE 0]]
    /\ Return(t)
    /\ UNCHANGED <<settingVars, expires_at, rows, approved, origin, exchanged>>

\* The end of callback: a user with nothing to see gets no session.
finish_callback(t) ==
    /\ tab[t].pc = "Check"
    /\ LET u == approved[tab[t].state]
       IN  IF accessible(u) THEN set_session(t, u, tab[t].state) ELSE Refuse(t)

\* /auth/dev
dev_login(t) ==
    /\ dev /\ tab[t].pc = "Page"
    /\ \E u \in Admins : set_session(t, u, 0)

-----------------------------------------------------------------------------
(* A page and its session *)

\* current_session: the cookie the request carries opens and has not expired.
current_session(s) == s # 0 /\ sessions[s].expires_at > now

\* /api/v1/me is asked with the cookie of the moment ...
ask_me(t) ==
    /\ tab[t].pc = "Page" /\ jar[browser[t]].session # 0
    /\ tab' = [tab EXCEPT ![t].pc = "Me", ![t].sent = jar[browser[t]].session]
    /\ UNCHANGED <<settingVars, brokerVars, jar>>

\* ... and its answer gives the page the user to show and the token to mutate with.
me(t) ==
    /\ tab[t].pc = "Me"
    /\ current_session(tab[t].sent) /\ accessible(sessions[tab[t].sent].user)
    /\ tab' = [tab EXCEPT ![t].pc = "Page", ![t].shows = tab[t].sent, ![t].sent = 0]
    /\ UNCHANGED <<settingVars, brokerVars, jar>>

\* require_csrf: the page's token is the one of the session in the cookie.
require_csrf(t) == tab[t].shows = jar[browser[t]].session

\* What authorize and logout ask before a mutation, apart from the user's role.
Accepts(t) ==
    /\ tab[t].pc = "Page" /\ tab[t].shows # 0
    /\ current_session(jar[browser[t]].session) /\ require_csrf(t)

\* logout: the cookie is cleared; there is nothing else to clear.
logout(t) ==
    /\ Accepts(t)
    /\ jar' = [jar EXCEPT ![browser[t]].session = 0]
    /\ tab' = [tab EXCEPT ![t].shows = 0]
    /\ UNCHANGED <<settingVars, brokerVars>>

-----------------------------------------------------------------------------
\* cleanup_expired_enrollments
cleanup(c) ==
    /\ c \in rows /\ expires_at[c] <= now
    /\ rows' = rows \ {c}
    /\ UNCHANGED <<settingVars, expires_at, approved, origin, exchanged, sessions, jar,
                   tab>>

\* The last membership of a user is removed.
leave(u) ==
    /\ u \in members /\ members' = members \ {u}
    /\ UNCHANGED <<now, dev, browser, brokerVars, jar, tab>>

tick ==
    /\ now < MaxTime /\ now' = now + 1
    /\ UNCHANGED <<dev, browser, members, brokerVars, jar, tab>>

Next ==
    \/ \E t \in Tabs :
          \/ login(t) \/ (\E u \in Users : approve(t, u))
          \/ (\E c \in Challenges : reopen(t, c))
          \/ callback(t) \/ get_challenge(t) \/ delete_challenge(t) \/ exchange_code(t)
          \/ consume_token(t) \/ finish_callback(t) \/ dev_login(t)
          \/ ask_me(t) \/ me(t) \/ logout(t) \/ fail(t)
    \/ \E c \in Challenges : cleanup(c)
    \/ \E u \in Users : leave(u)
    \/ tick

Spec == Init /\ [][Next]_vars

-----------------------------------------------------------------------------
(* Properties *)

\* callback spends a challenge before it uses it: however often its address is opened, by
\* how many tabs at once, one code goes to GitHub per challenge and one session comes of it.
ChallengeSpentOnce ==
    /\ \A c \in Challenges : exchanged[c] <= 1
    /\ \A i, j \in Sessions :
          sessions[i].challenge = sessions[j].challenge /\ sessions[i].challenge # 0 => i = j

\* The challenge cookie ties a login to the browser that began it: the session of a
\* challenge is never found in another browser.
SessionsStayHome ==
    \A b \in Browsers :
       LET s == jar[b].session
       IN  s # 0 /\ sessions[s].challenge # 0 => origin[sessions[s].challenge] = b
=============================================================================
