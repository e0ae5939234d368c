------------------------ MODULE BrowserLogin_proofs ------------------------
(***************************************************************************)
(* Browser logins for any number of tabs, browsers, users and challenges.  *)
(* A challenge is spent by the tab that deletes its row; Spent says that   *)
(* this tab is then the only one past the deletion, and that the row, the  *)
(* tab or the session of a challenge exclude each other.  Home follows the *)
(* browser a challenge was made for through the cookie and the callback to *)
(* the session.  The limit on the same endpoints (RateLimit) shares no     *)
(* state with them; its theorem is at the end.                             *)
(***************************************************************************)
EXTENDS BrowserLogin, RateLimit, SequenceTheorems, FiniteSetTheorems, WellFoundedInduction, TLAPS

AfterMatch == {"Get", "Delete", "Exchange", "Consume", "Check"}
AfterDelete == {"Exchange", "Consume", "Check"}

\* Numbers are those of challenges and sessions that were made, and a callback is about a
\* challenge that somebody approved.
Shape ==
    /\ Len(approved) = Len(expires_at) /\ Len(origin) = Len(expires_at)
    /\ Len(exchanged) = Len(expires_at)
    /\ \A t \in Tabs :
        /\ tab[t].state <= Len(expires_at)
        /\ tab[t].shows <= Len(sessions) /\ tab[t].sent <= Len(sessions)
        /\ tab[t].pc \in {"GitHub", "Code"} \cup AfterMatch => tab[t].state # 0
        /\ tab[t].pc \in {"Code"} \cup AfterMatch => approved[tab[t].state] \in Users
    /\ \A b \in Browsers : jar[b].challenge <= Len(expires_at) /\ jar[b].session <= Len(sessions)
    /\ \A i \in Sessions : sessions[i].challenge <= Len(expires_at)

\* A challenge that has its row was not used; the tab that deleted the row is alone with it
\* and no session has come of it yet.
NoSession(c) == \A i \in Sessions : sessions[i].challenge # c
Spent ==
    /\ \A c \in rows : exchanged[c] = 0 /\ NoSession(c)
    /\ \A t \in Tabs : tab[t].pc \in AfterDelete =>
        /\ tab[t].state \notin rows /\ NoSession(tab[t].state)
        /\ \A u \in Tabs : tab[u].pc \in AfterDelete /\ tab[u].state = tab[t].state => u = t
    /\ \A t \in Tabs : tab[t].pc = "Exchange" => exchanged[tab[t].state] = 0

\* The challenge in a cookie, in a callback that passed state_matches and in a session is
\* one that this browser asked for.
Home ==
    /\ \A b \in Browsers : jar[b].challenge # 0 => origin[jar[b].challenge] = b
    /\ \A t \in Tabs : tab[t].pc \in AfterMatch => origin[tab[t].state] = browser[t]

IInv == TypeOK /\ Shape /\ Spent /\ Home /\ ChallengeSpentOnce /\ SessionsStayHome

-----------------------------------------------------------------------------
\* Nobody has signed in yet.
LEMMA InitInv == Init => IInv
<1> SUFFICES ASSUME Init PROVE IInv
  OBVIOUS
<1>1. TypeOK
  <2>1. dev \in BOOLEAN
    BY DEF Init
  <2>2. /\ expires_at \in Seq(Nat) /\ rows \subseteq Challenges
        /\ approved \in Seq(Users \cup {Nobody}) /\ origin \in Seq(Browsers)
        /\ exchanged \in Seq(Nat)
        /\ sessions \in Seq([user : Users, expires_at : Nat, challenge : Nat])
    BY DEF Init
  <2>3. /\ now \in Nat /\ browser \in [Tabs -> Browsers] /\ members \subseteq Users
        /\ jar \in [Browsers -> [challenge : Nat, session : Nat]]
        /\ tab \in [Tabs -> [pc : Steps, state : Nat, shows : Nat, sent : Nat]]
    BY DEF Init, Steps
  <2>4. QED
    BY <2>1, <2>2, <2>3 DEF TypeOK
<1>2. Shape /\ Spent /\ Home
  BY DEF Init, Shape, Spent, Home, Sessions, AfterMatch, AfterDelete
<1>3. ChallengeSpentOnce /\ SessionsStayHome
  BY DEF Init, ChallengeSpentOnce, SessionsStayHome, Challenges, Sessions
<1>4. QED
  BY <1>1, <1>2, <1>3 DEF IInv

\* What a tab is doing has its type after each of the ways a step may change it.
LEMMA TabTypes ==
    ASSUME TypeOK, NEW t \in Tabs
    PROVE  /\ \A pc \in Steps : Goto(t, pc) =>
                /\ tab' \in [Tabs -> [pc : Steps, state : Nat, shows : Nat, sent : Nat]]
                /\ tab'[t].pc = pc /\ tab'[t].state = tab[t].state
                /\ tab'[t].shows = tab[t].shows /\ tab'[t].sent = tab[t].sent
                /\ \A u \in Tabs : u # t => tab'[u] = tab[u]
           /\ Return(t) =>
                /\ tab' \in [Tabs -> [pc : Steps, state : Nat, shows : Nat, sent : Nat]]
                /\ tab'[t].pc = "Page" /\ tab'[t].state = 0 /\ tab'[t].sent = 0
                /\ tab'[t].shows = tab[t].shows
                /\ \A u \in Tabs : u # t => tab'[u] = tab[u]
<1>1. ASSUME NEW pc \in Steps, Goto(t, pc)
      PROVE  /\ tab' \in [Tabs -> [pc : Steps, state : Nat, shows : Nat, sent : Nat]]
             /\ tab'[t].pc = pc /\ tab'[t].state = tab[t].state
             /\ tab'[t].shows = tab[t].shows /\ tab'[t].sent = tab[t].sent
             /\ \A u \in Tabs : u # t => tab'[u] = tab[u]
  BY <1>1 DEF Goto, TypeOK
<1>2. ASSUME Return(t)
      PROVE  /\ tab' \in [Tabs -> [pc : Steps, state : Nat, shows : Nat, sent : Nat]]
             /\ tab'[t].pc = "Page" /\ tab'[t].state = 0 /\ tab'[t].sent = 0
             /\ tab'[t].shows = tab[t].shows
             /\ \A u \in Tabs : u # t => tab'[u] = tab[u]
  BY <1>2 DEF Return, TypeOK, Steps
<1>3. QED
  BY <1>1, <1>2

\* A session that was made says who, until when and by which challenge.
LEMMA SessionTypes ==
    ASSUME TypeOK, NEW i \in Sessions
    PROVE  sessions[i] \in [user : Users, expires_at : Nat, challenge : Nat]
BY ElementOfSeq DEF TypeOK, Sessions

-----------------------------------------------------------------------------
(* Steps that move one tab and change nothing else. *)

Moves(t) ==
    /\ tab' \in [Tabs -> [pc : Steps, state : Nat, shows : Nat, sent : Nat]]
    /\ \A u \in Tabs : u # t => tab'[u] = tab[u]
    /\ tab'[t].shows \in {tab[t].shows, tab[t].sent}
    /\ tab'[t].sent \in {0, tab[t].sent, jar[browser[t]].session}
    /\ \/ tab'[t].pc \in {"Page", "Me"} /\ tab'[t].state \in {0, tab[t].state}
       \/ tab'[t].pc = "Code" /\ tab'[t].state \in Challenges
          /\ approved[tab'[t].state] \in Users \ {Nobody}
       \/ /\ tab'[t].state = tab[t].state
          /\ \/ tab'[t].pc = "Get" /\ tab[t].pc = "Code" /\ origin[tab[t].state] = browser[t]
             \/ tab'[t].pc = "Delete" /\ tab[t].pc = "Get"
             \/ tab'[t].pc = "Check" /\ tab[t].pc = "Consume"
    /\ UNCHANGED <<settingVars, brokerVars, jar>>

\* A request that is refused leaves a page.
LEMMA RefuseMoves == ASSUME IInv, NEW t \in Tabs, Refuse(t) PROVE Moves(t)
<1>1. Return(t)
  BY DEF Refuse
<1>2. QED
  BY <1>1, TabTypes DEF Refuse, Moves, IInv

\* The steps of a callback up to the deletion, and those of /api/v1/me, only move their tab;
\* state_matches makes sure that the challenge is one of the tab's browser.
LEMMA TabMoves ==
    ASSUME IInv, NEW t \in Tabs,
           \/ \E c \in Challenges : reopen(t, c)
           \/ callback(t) \/ get_challenge(t) \/ consume_token(t)
           \/ ask_me(t) \/ me(t) \/ fail(t)
    PROVE  Moves(t)
<1>1. ASSUME NEW c \in Challenges, reopen(t, c) PROVE Moves(t)
  <2>1. approved[c] \in Users \ {Nobody}
    <3>1. c \in 1..Len(approved) /\ approved \in Seq(Users \cup {Nobody})
      BY DEF Challenges, IInv, TypeOK, Shape
    <3>2. approved[c] \in Users \cup {Nobody}
      BY <3>1, ElementOfSeq
    <3>3. QED
      BY <1>1, <3>2 DEF reopen
  <2>2. c \in Nat
    BY DEF Challenges, IInv, TypeOK
  <2>3. QED
    BY <1>1, <2>1, <2>2 DEF reopen, Moves, IInv, TypeOK, Steps
<1>2. CASE callback(t)
  <2>1. UNCHANGED <<settingVars, brokerVars, jar>> /\ tab[t].pc = "Code"
    BY <1>2 DEF callback
  <2>2. CASE state_matches(t)
    <3>1. Goto(t, "Get")
      BY <1>2, <2>2 DEF callback
    <3>2. origin[tab[t].state] = browser[t]
      BY <2>2 DEF state_matches, IInv, Home, TypeOK
    <3>3. "Get" \in Steps
      BY DEF Steps
    <3>4. QED
      BY <2>1, <3>1, <3>2, <3>3, TabTypes DEF Moves, IInv, TypeOK
  <2>3. CASE ~state_matches(t)
    <3>1. Return(t)
      BY <1>2, <2>3 DEF callback
    <3>2. QED
      BY <2>1, <3>1, TabTypes DEF Moves, IInv
  <2>4. QED
    BY <2>2, <2>3
<1>3. CASE get_challenge(t)
  <2>1. UNCHANGED <<settingVars, brokerVars, jar>> /\ tab[t].pc = "Get"
    BY <1>3 DEF get_challenge
  <2>2. Goto(t, "Delete") \/ Return(t)
    BY <1>3 DEF get_challenge
  <2>3. "Delete" \in Steps
    BY DEF Steps
  <2>4. QED
    BY <2>1, <2>2, <2>3, TabTypes DEF Moves, IInv, TypeOK
<1>4. CASE consume_token(t)
  <2>1. "Check" \in Steps
    BY DEF Steps
  <2>2. QED
    BY <1>4, <2>1, TabTypes DEF consume_token, Moves, IInv, TypeOK
<1>5. CASE ask_me(t)
  BY <1>5 DEF ask_me, Moves, IInv, TypeOK, Steps
<1>6. CASE me(t)
  BY <1>6 DEF me, Moves, IInv, TypeOK, Steps
<1>7. CASE fail(t)
  BY <1>7, RefuseMoves DEF fail
<1>8. QED
  BY <1>1, <1>2, <1>3, <1>4, <1>5, <1>6, <1>7

\* Moving a tab this way keeps the invariant.
LEMMA MovesKeep == ASSUME IInv, NEW t \in Tabs, Moves(t) PROVE IInv'
<1>1. UNCHANGED <<settingVars, brokerVars, jar>>
  BY DEF Moves
<1>2. TypeOK /\ Shape /\ Spent /\ Home
  BY DEF IInv
<1>3. TypeOK'
  <2>1. dev' \in BOOLEAN
    BY <1>1, <1>2 DEF TypeOK, settingVars
  <2>2. QED
    BY <1>1, <1>2, <2>1 DEF Moves, TypeOK, settingVars, brokerVars, Challenges
<1>4. Shape'
  <2>1. ASSUME NEW u \in Tabs
        PROVE  /\ tab'[u].state <= Len(expires_at)
               /\ tab'[u].shows <= Len(sessions) /\ tab'[u].sent <= Len(sessions)
               /\ tab'[u].pc \in {"GitHub", "Code"} \cup AfterMatch => tab'[u].state # 0
               /\ tab'[u].pc \in {"Code"} \cup AfterMatch => approved[tab'[u].state] \in Users
    <3>1. CASE u # t
      BY <1>2, <3>1 DEF Moves, Shape
    <3>2. CASE u = t
      <4>1. jar[browser[t]].session <= Len(sessions) /\ Len(sessions) \in Nat /\ Len(expires_at) \in Nat
        BY <1>2 DEF Shape, TypeOK
      <4>2. tab'[t].shows <= Len(sessions) /\ tab'[t].sent <= Len(sessions)
        BY <1>2, <4>1 DEF Moves, Shape
      <4>3. CASE tab'[t].pc \in {"Page", "Me"} /\ tab'[t].state \in {0, tab[t].state}
        BY <1>2, <3>2, <4>1, <4>2, <4>3 DEF Shape, AfterMatch
      <4>4. CASE /\ tab'[t].pc = "Code" /\ tab'[t].state \in Challenges
                 /\ approved[tab'[t].state] \in Users
        BY <3>2, <4>1, <4>2, <4>4 DEF Challenges
      <4>5. CASE /\ tab'[t].state = tab[t].state
                 /\ tab[t].pc \in {"Code"} \cup AfterMatch
        BY <1>2, <3>2, <4>2, <4>5 DEF Shape
      <4>6. QED
        BY <4>3, <4>4, <4>5 DEF Moves, AfterMatch
    <3>3. QED
      BY <3>1, <3>2
  <2>2. QED
    BY <1>1, <1>2, <2>1 DEF Shape, Sessions, brokerVars
<1>5. Spent'
  <2>1. \A u \in Tabs : tab'[u].pc \in AfterDelete =>
            /\ tab[u].pc \in AfterDelete /\ tab'[u].state = tab[u].state
            /\ tab'[u].pc = "Exchange" => tab[u].pc = "Exchange"
    BY DEF Moves, AfterDelete
  <2>2. QED
    BY <1>1, <1>2, <2>1 DEF Spent, NoSession, Sessions, brokerVars, AfterDelete
<1>6. Home'
  <2>1. ASSUME NEW u \in Tabs, tab'[u].pc \in AfterMatch PROVE origin[tab'[u].state] = browser[u]
    <3>1. CASE u # t
      BY <1>2, <2>1, <3>1 DEF Moves, Home
    <3>2. CASE u = t
      BY <1>2, <2>1, <3>2 DEF Moves, Home, AfterMatch
    <3>3. QED
      BY <3>1, <3>2
  <2>2. QED
    BY <1>1, <1>2, <2>1 DEF Home, settingVars, brokerVars
<1>7. ChallengeSpentOnce' /\ SessionsStayHome'
  BY <1>1 DEF IInv, ChallengeSpentOnce, SessionsStayHome, Challenges, Sessions, brokerVars
<1>8. QED
  BY <1>3, <1>4, <1>5, <1>6, <1>7 DEF IInv

-----------------------------------------------------------------------------
(* The other steps. *)

\* login: the new challenge has its row, was not used, and belongs to the tab's browser.
LEMMA LoginKeeps == ASSUME IInv, NEW t \in Tabs, login(t) PROVE IInv'
<1>1. TypeOK /\ Shape /\ Spent /\ Home /\ ChallengeSpentOnce /\ SessionsStayHome
  BY DEF IInv
<1>2. PICK n \in Nat : n = Len(expires_at) /\ Len(sessions) \in Nat
  BY <1>1 DEF TypeOK
<1>3. UNCHANGED <<settingVars, sessions>>
  BY DEF login
<1>4. expires_at' \in Seq(Nat) /\ Len(expires_at') = n + 1
  <2>1. now + OAUTH_SECONDS \in Nat
    <3>1. now \in Nat
      BY <1>1 DEF TypeOK
    <3>2. OAUTH_SECONDS \in Nat
      BY LoginAssumption
    <3>3. QED
      BY <3>1, <3>2
  <2>2. QED
    BY <1>1, <1>2, <2>1, AppendProperties DEF login, TypeOK
<1>5. /\ approved' \in Seq(Users \cup {Nobody}) /\ Len(approved') = n + 1
      /\ \A i \in 1..n : approved'[i] = approved[i]
  <2>1. Nobody \in Users \cup {Nobody} /\ approved \in Seq(Users \cup {Nobody})
    BY <1>1 DEF TypeOK
  <2>2. approved' = Append(approved, Nobody)
    BY DEF login
  <2>3. QED
    BY <1>1, <1>2, <2>1, <2>2, AppendProperties DEF Shape
<1>6. /\ origin' \in Seq(Browsers) /\ Len(origin') = n + 1
      /\ (\A i \in 1..n : origin'[i] = origin[i]) /\ origin'[n + 1] = browser[t]
  <2>1. browser[t] \in Browsers /\ origin \in Seq(Browsers)
    BY <1>1 DEF TypeOK
  <2>2. origin' = Append(origin, browser[t])
    BY DEF login
  <2>3. QED
    BY <1>1, <1>2, <2>1, <2>2, AppendProperties DEF Shape
<1>7. /\ exchanged' \in Seq(Nat) /\ Len(exchanged') = n + 1
      /\ (\A i \in 1..n : exchanged'[i] = exchanged[i]) /\ exchanged'[n + 1] = 0
  <2>1. exchanged' = Append(exchanged, 0) /\ exchanged \in Seq(Nat)
    BY <1>1 DEF login, TypeOK
  <2>2. QED
    BY <1>1, <1>2, <2>1, AppendProperties DEF Shape
<1>8. rows' = rows \cup {n + 1} /\ rows \subseteq 1..n
  BY <1>1, <1>2 DEF login, TypeOK, Challenges
<1>9. /\ tab' \in [Tabs -> [pc : Steps, state : Nat, shows : Nat, sent : Nat]]
      /\ \A u \in Tabs : u # t => tab'[u] = tab[u]
      /\ tab'[t].pc \in {"Page", "GitHub"} /\ tab'[t].state \in {0, n + 1}
      /\ tab'[t].pc = "GitHub" => tab'[t].state = n + 1
      /\ tab'[t].shows = tab[t].shows /\ tab'[t].sent \in {0, tab[t].sent}
  <2>1. CASE Return(t)
    BY <1>1, <2>1, TabTypes
  <2>2. CASE tab' = [tab EXCEPT ![t].pc = "GitHub", ![t].state = n + 1]
    <3>1. n + 1 \in Nat /\ tab \in [Tabs -> [pc : Steps, state : Nat, shows : Nat, sent : Nat]]
      BY <1>1, <1>2 DEF TypeOK
    <3>2. tab' \in [Tabs -> [pc : Steps, state : Nat, shows : Nat, sent : Nat]]
      BY <2>2, <3>1 DEF Steps
    <3>3. QED
      BY <2>2, <3>1, <3>2
  <2>3. QED
    BY <1>2, <2>1, <2>2 DEF login
<1>10. /\ jar' \in [Browsers -> [challenge : Nat, session : Nat]]
       /\ \A b \in Browsers :
            /\ jar'[b].session = jar[b].session
            /\ jar'[b].challenge = jar[b].challenge \/ (b = browser[t] /\ jar'[b].challenge = n + 1)
  <2>1. /\ n + 1 \in Nat /\ browser[t] \in Browsers
        /\ jar \in [Browsers -> [challenge : Nat, session : Nat]]
    BY <1>1, <1>2 DEF TypeOK
  <2>2. CASE jar' = [jar EXCEPT ![browser[t]].challenge = n + 1]
    BY <2>1, <2>2
  <2>3. CASE jar' = jar
    BY <2>1, <2>3
  <2>4. QED
    BY <1>2, <2>2, <2>3 DEF login
<1>11. TypeOK'
  <2>1. dev' \in BOOLEAN
    BY <1>1, <1>3 DEF TypeOK, settingVars
  <2>2. rows' \subseteq 1..(n + 1)
    BY <1>8
  <2>3. QED
    BY <1>1, <1>3, <1>4, <1>5, <1>6, <1>7, <1>9, <1>10, <2>1, <2>2 DEF TypeOK, settingVars, Challenges
<1>12. \A u \in Tabs : tab'[u].pc \in {"Code"} \cup AfterMatch =>
            tab'[u] = tab[u] /\ tab[u].state \in 1..n
  <2>1. ASSUME NEW u \in Tabs, tab'[u].pc \in {"Code"} \cup AfterMatch
        PROVE  tab'[u] = tab[u] /\ tab[u].state \in 1..n
    <3>1. u # t
      BY <1>9, <2>1 DEF AfterMatch
    <3>2. tab'[u] = tab[u]
      BY <1>9, <3>1
    <3>3. tab[u].state <= n /\ tab[u].state # 0
      BY <1>1, <1>2, <2>1, <3>2 DEF Shape
    <3>4. tab[u].state \in Nat
      BY <1>1 DEF TypeOK
    <3>5. QED
      BY <1>2, <3>2, <3>3, <3>4
  <2>2. QED
    BY <2>1
<1>13. Shape'
  <2>1. ASSUME NEW u \in Tabs
        PROVE  /\ tab'[u].state <= n + 1
               /\ tab'[u].shows <= Len(sessions) /\ tab'[u].sent <= Len(sessions)
               /\ tab'[u].pc \in {"GitHub", "Code"} \cup AfterMatch => tab'[u].state # 0
    <3>1. tab[u] \in [pc : Steps, state : Nat, shows : Nat, sent : Nat]
      BY <1>1 DEF TypeOK
    <3>2. CASE u # t
      BY <1>1, <1>2, <1>9, <3>1, <3>2 DEF Shape
    <3>3. CASE u = t
      BY <1>1, <1>2, <1>9, <3>1, <3>3 DEF Shape, AfterMatch
    <3>4. QED
      BY <3>2, <3>3
  <2>2. \A u \in Tabs : tab'[u].pc \in {"Code"} \cup AfterMatch => approved'[tab'[u].state] \in Users
    BY <1>1, <1>5, <1>12 DEF Shape
  <2>3. \A b \in Browsers : jar'[b].challenge <= n + 1 /\ jar'[b].session <= Len(sessions)
    <3>1. \A b \in Browsers : jar[b] \in [challenge : Nat, session : Nat]
      BY <1>1 DEF TypeOK
    <3>2. QED
      BY <1>1, <1>2, <1>10, <3>1 DEF Shape
  <2>4. \A i \in Sessions : sessions[i].challenge <= n + 1
    BY <1>1, <1>2, SessionTypes DEF Shape
  <2>5. QED
    BY <1>3, <1>4, <1>5, <1>6, <1>7, <2>1, <2>2, <2>3, <2>4 DEF Shape, Sessions
<1>14. \A i \in Sessions : sessions[i].challenge \in 0..n
  BY <1>1, <1>2, SessionTypes DEF Shape
<1>15. Spent'
  <2>1. \A c \in rows' : exchanged'[c] = 0 /\ NoSession(c)
    BY <1>1, <1>2, <1>7, <1>8, <1>14 DEF Spent, NoSession
  <2>2. \A u \in Tabs : tab'[u].pc \in AfterDelete =>
            tab'[u] = tab[u] /\ tab[u].state \in 1..n /\ tab[u].state \notin rows'
    BY <1>1, <1>2, <1>8, <1>12 DEF Spent, AfterDelete, AfterMatch
  <2>3. QED
    BY <1>1, <1>3, <1>7, <2>1, <2>2 DEF Spent, NoSession, Sessions, AfterDelete
<1>16. Home'
  <2>1. \A b \in Browsers : jar'[b].challenge # 0 => origin'[jar'[b].challenge] = b
    <3>1. \A b \in Browsers : jar[b].challenge \in Nat /\ jar[b].challenge <= n
      <4>1. \A b \in Browsers : jar[b].challenge \in Nat
        BY <1>1 DEF TypeOK
      <4>2. \A b \in Browsers : jar[b].challenge <= n
        BY <1>1, <1>2 DEF Shape
      <4>3. QED
        BY <4>1, <4>2
    <3>2. QED
      BY <1>1, <1>2, <1>6, <1>10, <3>1 DEF Home
  <2>2. \A u \in Tabs : tab'[u].pc \in AfterMatch => origin'[tab'[u].state] = browser[u]
    BY <1>1, <1>6, <1>12 DEF Home
  <2>3. QED
    BY <1>3, <2>1, <2>2 DEF Home, settingVars
<1>17. ChallengeSpentOnce'
  <2>1. \A c \in 1..n + 1 : exchanged'[c] <= 1
    BY <1>1, <1>2, <1>7 DEF ChallengeSpentOnce, Challenges
  <2>2. QED
    BY <1>1, <1>2, <1>3, <1>4, <2>1 DEF ChallengeSpentOnce, Challenges, Sessions
<1>18. SessionsStayHome'
  <2>1. ASSUME NEW b \in Browsers, jar[b].session # 0, sessions[jar[b].session].challenge # 0
        PROVE  origin'[sessions[jar[b].session].challenge] = b
    <3>1. jar[b].session \in Sessions
      BY <1>1, <1>2, <2>1 DEF Shape, TypeOK, Sessions
    <3>2. QED
      BY <1>1, <1>2, <1>6, <1>14, <2>1, <3>1 DEF SessionsStayHome
  <2>2. QED
    BY <1>3, <1>10, <2>1 DEF SessionsStayHome
<1>19. QED
  BY <1>11, <1>13, <1>15, <1>16, <1>17, <1>18 DEF IInv

\* approve: the challenge of the tab gets its user; a callback that is under way has one.
LEMMA ApproveKeeps == ASSUME IInv, NEW t \in Tabs, NEW u \in Users, approve(t, u) PROVE IInv'
<1>1. TypeOK /\ Shape /\ Spent /\ Home /\ ChallengeSpentOnce /\ SessionsStayHome
  BY DEF IInv
<1>2. UNCHANGED <<settingVars, expires_at, rows, origin, exchanged, sessions, jar>>
  BY DEF approve
<1>3. tab[t].state \in 1..Len(approved) /\ tab[t].pc = "GitHub" /\ tab[t].state \in Nat
  BY <1>1 DEF approve, Shape, TypeOK, AfterMatch
<1>4. /\ approved' \in Seq(Users \cup {Nobody}) /\ Len(approved') = Len(approved)
      /\ \A i \in 1..Len(approved) :
            approved'[i] = IF i = tab[t].state THEN u ELSE approved[i]
  <2>1. u \in Users \cup {Nobody} /\ approved \in Seq(Users \cup {Nobody})
    BY <1>1 DEF TypeOK
  <2>2. approved' = [approved EXCEPT ![tab[t].state] = u]
    BY DEF approve
  <2>3. QED
    BY <1>3, <2>1, <2>2, ExceptSeq
<1>5. /\ tab' \in [Tabs -> [pc : Steps, state : Nat, shows : Nat, sent : Nat]]
      /\ tab'[t].pc = "Code" /\ tab'[t].state = tab[t].state
      /\ tab'[t].shows = tab[t].shows /\ tab'[t].sent = tab[t].sent
      /\ \A w \in Tabs : w # t => tab'[w] = tab[w]
  <2>1. "Code" \in Steps
    BY DEF Steps
  <2>2. QED
    BY <1>1, <2>1, TabTypes DEF approve
<1>6. TypeOK'
  <2>1. dev' \in BOOLEAN
    BY <1>1, <1>2 DEF TypeOK, settingVars
  <2>2. QED
    BY <1>1, <1>2, <1>4, <1>5, <2>1 DEF TypeOK, settingVars, Challenges
<1>7. Shape'
  <2>1. ASSUME NEW w \in Tabs
        PROVE  /\ tab'[w].state <= Len(expires_at)
               /\ tab'[w].shows <= Len(sessions) /\ tab'[w].sent <= Len(sessions)
               /\ tab'[w].pc \in {"GitHub", "Code"} \cup AfterMatch => tab'[w].state # 0
               /\ tab'[w].pc \in {"Code"} \cup AfterMatch => approved'[tab'[w].state] \in Users
    <3>1. tab[w].state \in Nat
      BY <1>1 DEF TypeOK
    <3>2. CASE w = t
      BY <1>1, <1>3, <1>4, <1>5, <3>2 DEF Shape
    <3>3. CASE w # t
      <4>1. tab[w].pc \in {"Code"} \cup AfterMatch => tab[w].state \in 1..Len(approved)
        BY <1>1, <3>1 DEF Shape, TypeOK
      <4>2. QED
        BY <1>1, <1>4, <1>5, <3>3, <4>1 DEF Shape
    <3>4. QED
      BY <3>2, <3>3
  <2>2. QED
    BY <1>1, <1>2, <1>4, <2>1 DEF Shape, Sessions
<1>8. Spent'
  <2>1. \A w \in Tabs : tab'[w].pc \in AfterDelete => tab'[w] = tab[w]
    BY <1>5 DEF AfterDelete
  <2>2. QED
    BY <1>1, <1>2, <2>1 DEF Spent, NoSession, Sessions, AfterDelete
<1>9. Home'
  <2>1. \A w \in Tabs : tab'[w].pc \in AfterMatch => tab'[w] = tab[w]
    BY <1>5 DEF AfterMatch
  <2>2. QED
    BY <1>1, <1>2, <2>1 DEF Home, settingVars
<1>10. ChallengeSpentOnce' /\ SessionsStayHome'
  BY <1>1, <1>2 DEF ChallengeSpentOnce, SessionsStayHome, Challenges, Sessions
<1>11. QED
  BY <1>6, <1>7, <1>8, <1>9, <1>10 DEF IInv

\* delete_challenge: the row was there when the tab goes on, so no other tab is past the
\* deletion of it.
LEMMA DeleteKeeps == ASSUME IInv, NEW t \in Tabs, delete_challenge(t) PROVE IInv'
<1>1. TypeOK /\ Shape /\ Spent /\ Home /\ ChallengeSpentOnce /\ SessionsStayHome
  BY DEF IInv
<1>2. UNCHANGED <<settingVars, expires_at, approved, origin, exchanged, sessions, jar>>
  BY DEF delete_challenge
<1>3. rows' = rows \ {tab[t].state} /\ tab[t].pc = "Delete"
  BY DEF delete_challenge
<1>4. /\ tab' \in [Tabs -> [pc : Steps, state : Nat, shows : Nat, sent : Nat]]
      /\ \A w \in Tabs : w # t => tab'[w] = tab[w]
      /\ tab'[t].shows = tab[t].shows /\ tab'[t].sent \in {0, tab[t].sent}
      /\ \/ tab'[t].pc = "Page" /\ tab'[t].state = 0
         \/ tab'[t].pc = "Exchange" /\ tab'[t].state = tab[t].state /\ tab[t].state \in rows
  <2>1. "Exchange" \in Steps
    BY DEF Steps
  <2>2. (tab[t].state \in rows /\ Goto(t, "Exchange")) \/ Return(t)
    BY DEF delete_challenge
  <2>3. QED
    BY <1>1, <2>1, <2>2, TabTypes
<1>5. TypeOK'
  <2>1. dev' \in BOOLEAN
    BY <1>1, <1>2 DEF TypeOK, settingVars
  <2>2. rows' \subseteq Challenges
    BY <1>1, <1>3 DEF TypeOK
  <2>3. QED
    BY <1>1, <1>2, <1>4, <2>1, <2>2 DEF TypeOK, settingVars, Challenges
<1>6. Shape'
  <2>1. ASSUME NEW w \in Tabs
        PROVE  /\ tab'[w].state <= Len(expires_at)
               /\ tab'[w].shows <= Len(sessions) /\ tab'[w].sent <= Len(sessions)
               /\ tab'[w].pc \in {"GitHub", "Code"} \cup AfterMatch => tab'[w].state # 0
               /\ tab'[w].pc \in {"Code"} \cup AfterMatch => approved[tab'[w].state] \in Users
    <3>1. CASE w # t
      BY <1>1, <1>4, <3>1 DEF Shape
    <3>2. CASE w = t
      <4>1. Len(expires_at) \in Nat /\ Len(sessions) \in Nat /\ tab[t].pc \in AfterMatch
        BY <1>1, <1>3 DEF TypeOK, AfterMatch
      <4>2. QED
        BY <1>1, <1>4, <3>2, <4>1 DEF Shape, AfterMatch
    <3>3. QED
      BY <3>1, <3>2
  <2>2. QED
    BY <1>1, <1>2, <2>1 DEF Shape, Sessions
<1>7. Spent'
  <2>1. \A c \in rows' : exchanged[c] = 0 /\ NoSession(c)
    BY <1>1, <1>3 DEF Spent
  <2>2. ASSUME NEW w \in Tabs, tab'[w].pc \in AfterDelete
        PROVE  /\ tab'[w].state \notin rows' /\ NoSession(tab'[w].state)
               /\ tab'[w].pc = "Exchange" => exchanged[tab'[w].state] = 0
               /\ w # t => tab'[w] = tab[w] /\ tab[w].state \notin rows
               /\ w = t => tab'[t].state \in rows
    <3>1. CASE w # t
      BY <1>1, <1>3, <1>4, <2>2, <3>1 DEF Spent
    <3>2. CASE w = t
      BY <1>1, <1>3, <1>4, <2>2, <3>2 DEF Spent, AfterDelete
    <3>3. QED
      BY <3>1, <3>2
  <2>3. ASSUME NEW v \in Tabs, NEW w \in Tabs, tab'[v].pc \in AfterDelete,
               tab'[w].pc \in AfterDelete, tab'[w].state = tab'[v].state
        PROVE  w = v
    BY <1>1, <2>2, <2>3 DEF Spent
  <2>4. QED
    BY <1>2, <2>1, <2>2, <2>3 DEF Spent, NoSession, Sessions, AfterDelete
<1>8. Home'
  <2>1. \A w \in Tabs : tab'[w].pc \in AfterMatch =>
            tab[w].pc \in AfterMatch /\ tab'[w].state = tab[w].state
    BY <1>3, <1>4 DEF AfterMatch
  <2>2. QED
    BY <1>1, <1>2, <2>1 DEF Home, settingVars
<1>9. ChallengeSpentOnce' /\ SessionsStayHome'
  BY <1>1, <1>2 DEF ChallengeSpentOnce, SessionsStayHome, Challenges, Sessions
<1>10. QED
  BY <1>5, <1>6, <1>7, <1>8, <1>9 DEF IInv

\* exchange_code: the tab is alone with its challenge, whose code was not sent before.
LEMMA ExchangeKeeps == ASSUME IInv, NEW t \in Tabs, exchange_code(t) PROVE IInv'
<1>1. TypeOK /\ Shape /\ Spent /\ Home /\ ChallengeSpentOnce /\ SessionsStayHome
  BY DEF IInv
<1>2. UNCHANGED <<settingVars, expires_at, rows, approved, origin, sessions, jar>>
  BY DEF exchange_code
<1>3. /\ tab[t].pc = "Exchange" /\ tab[t].state \in 1..Len(exchanged)
      /\ exchanged[tab[t].state] = 0 /\ tab[t].state \notin rows
  BY <1>1 DEF exchange_code, Shape, Spent, TypeOK, AfterMatch, AfterDelete
<1>4. /\ exchanged' \in Seq(Nat) /\ Len(exchanged') = Len(exchanged)
      /\ \A i \in 1..Len(exchanged) :
            exchanged'[i] = IF i = tab[t].state THEN 1 ELSE exchanged[i]
  <2>1. exchanged' = [exchanged EXCEPT ![tab[t].state] = 1] /\ exchanged \in Seq(Nat)
    BY <1>1, <1>3 DEF exchange_code, TypeOK
  <2>2. QED
    BY <1>3, <2>1, ExceptSeq
<1>5. /\ tab' \in [Tabs -> [pc : Steps, state : Nat, shows : Nat, sent : Nat]]
      /\ \A w \in Tabs : w # t => tab'[w] = tab[w]
      /\ tab'[t].shows = tab[t].shows /\ tab'[t].sent \in {0, tab[t].sent}
      /\ \/ tab'[t].pc = "Page" /\ tab'[t].state = 0
         \/ tab'[t].pc = "Consume" /\ tab'[t].state = tab[t].state
  <2>1. "Consume" \in Steps
    BY DEF Steps
  <2>2. Goto(t, "Consume") \/ Return(t)
    BY DEF exchange_code
  <2>3. QED
    BY <1>1, <2>1, <2>2, TabTypes
<1>6. TypeOK'
  <2>1. dev' \in BOOLEAN
    BY <1>1, <1>2 DEF TypeOK, settingVars
  <2>2. QED
    BY <1>1, <1>2, <1>4, <1>5, <2>1 DEF TypeOK, settingVars, Challenges
<1>7. Shape'
  <2>1. ASSUME NEW w \in Tabs
        PROVE  /\ tab'[w].state <= Len(expires_at)
               /\ tab'[w].shows <= Len(sessions) /\ tab'[w].sent <= Len(sessions)
               /\ tab'[w].pc \in {"GitHub", "Code"} \cup AfterMatch => tab'[w].state # 0
               /\ tab'[w].pc \in {"Code"} \cup AfterMatch => approved[tab'[w].state] \in Users
    <3>1. CASE w # t
      BY <1>1, <1>5, <3>1 DEF Shape
    <3>2. CASE w = t
      <4>1. Len(expires_at) \in Nat /\ Len(sessions) \in Nat
        BY <1>1 DEF TypeOK
      <4>2. tab[t].pc \in AfterMatch
        BY <1>3 DEF AfterMatch
      <4>3. QED
        BY <1>1, <1>5, <3>2, <4>1, <4>2 DEF Shape, AfterMatch
    <3>3. QED
      BY <3>1, <3>2
  <2>2. QED
    BY <1>1, <1>2, <1>4, <2>1 DEF Shape, Sessions
<1>8. Spent'
  <2>1. \A c \in rows : exchanged'[c] = 0 /\ NoSession(c)
    BY <1>1, <1>3, <1>4 DEF Spent, TypeOK, Challenges, Shape
  <2>2. \A w \in Tabs : tab'[w].pc \in AfterDelete =>
            tab[w].pc \in AfterDelete /\ tab'[w].state = tab[w].state
    BY <1>3, <1>5 DEF AfterDelete
  <2>3. ASSUME NEW w \in Tabs, tab'[w].pc = "Exchange" PROVE exchanged'[tab'[w].state] = 0
    <3>1. w # t /\ tab'[w] = tab[w]
      BY <1>5, <2>3
    <3>2. tab[w].pc = "Exchange" /\ tab[w].state # tab[t].state
      BY <1>1, <1>3, <2>3, <3>1 DEF Spent, AfterDelete
    <3>3. tab[w].state \in 1..Len(exchanged)
      BY <1>1, <3>2 DEF Shape, TypeOK, AfterMatch
    <3>4. QED
      BY <1>1, <1>4, <3>1, <3>2, <3>3 DEF Spent
  <2>4. QED
    BY <1>1, <1>2, <2>1, <2>2, <2>3 DEF Spent, NoSession, Sessions
<1>9. Home'
  <2>1. \A w \in Tabs : tab'[w].pc \in AfterMatch =>
            tab[w].pc \in AfterMatch /\ tab'[w].state = tab[w].state
    BY <1>3, <1>5 DEF AfterMatch
  <2>2. QED
    BY <1>1, <1>2, <2>1 DEF Home, settingVars
<1>10. ChallengeSpentOnce'
  BY <1>1, <1>2, <1>4 DEF ChallengeSpentOnce, Challenges, Sessions, Shape
<1>11. SessionsStayHome'
  BY <1>1, <1>2 DEF SessionsStayHome
<1>12. QED
  BY <1>6, <1>7, <1>8, <1>9, <1>10, <1>11 DEF IInv

\* set_session for a callback, whose challenge was spent by this tab alone, or for a login
\* without GitHub, which has none: the session is the only one of its challenge, and goes to
\* the browser that asked for it.
LEMMA SessionKeeps ==
    ASSUME IInv, NEW t \in Tabs, NEW u \in Users, NEW c \in Nat, set_session(t, u, c),
           \/ c = 0
           \/ tab[t].pc = "Check" /\ c = tab[t].state
    PROVE  IInv'
<1>1. TypeOK /\ Shape /\ Spent /\ Home /\ ChallengeSpentOnce /\ SessionsStayHome
  BY DEF IInv
<1>2. UNCHANGED <<settingVars, expires_at, rows, approved, origin, exchanged>>
  BY DEF set_session
<1>3. PICK n \in Nat : n = Len(sessions) /\ Len(expires_at) \in Nat
  BY <1>1 DEF TypeOK
<1>4. /\ c <= Len(expires_at)
      /\ c # 0 => /\ c \notin rows /\ NoSession(c) /\ origin[c] = browser[t]
                  /\ \A w \in Tabs : tab[w].pc \in AfterDelete /\ tab[w].state = c => w = t
  <2>1. CASE c = 0
    BY <1>3, <2>1
  <2>2. CASE tab[t].pc = "Check" /\ c = tab[t].state
    <3>1. tab[t].pc \in AfterDelete /\ tab[t].pc \in AfterMatch
      BY <2>2 DEF AfterDelete, AfterMatch
    <3>2. QED
      BY <1>1, <2>2, <3>1 DEF Shape, Spent, Home
  <2>3. QED
    BY <2>1, <2>2
<1>5. /\ sessions' \in Seq([user : Users, expires_at : Nat, challenge : Nat])
      /\ Len(sessions') = n + 1
      /\ \A i \in 1..n : sessions'[i] = sessions[i]
      /\ sessions'[n + 1].challenge = c
  <2>1. PICK s \in [user : Users, expires_at : Nat, challenge : Nat] :
            s.challenge = c /\ sessions' = Append(sessions, s)
    <3>1. now + SESSION_SECONDS \in Nat
      <4>1. now \in Nat
        BY <1>1 DEF TypeOK
      <4>2. SESSION_SECONDS \in Nat
        BY LoginAssumption
      <4>3. QED
        BY <4>1, <4>2
    <3>2. QED
      BY <3>1 DEF set_session
  <2>2. sessions \in Seq([user : Users, expires_at : Nat, challenge : Nat])
    BY <1>1 DEF TypeOK
  <2>3. QED
    BY <1>3, <2>1, <2>2, AppendProperties
<1>6. \A i \in 1..n : sessions[i].challenge \in 0..Len(expires_at)
  BY <1>1, <1>3, SessionTypes DEF Shape, Sessions
<1>7. /\ tab' \in [Tabs -> [pc : Steps, state : Nat, shows : Nat, sent : Nat]]
      /\ tab'[t].pc = "Page" /\ tab'[t].state = 0 /\ tab'[t].sent = 0
      /\ tab'[t].shows = tab[t].shows
      /\ \A w \in Tabs : w # t => tab'[w] = tab[w]
  BY <1>1, TabTypes DEF set_session
<1>8. /\ jar' \in [Browsers -> [challenge : Nat, session : Nat]]
      /\ \A b \in Browsers : b # browser[t] => jar'[b] = jar[b]
      /\ jar'[browser[t]].session = n + 1
      /\ jar'[browser[t]].challenge \in {0, jar[browser[t]].challenge}
  <2>1. /\ n + 1 \in Nat /\ browser[t] \in Browsers
        /\ jar \in [Browsers -> [challenge : Nat, session : Nat]]
    BY <1>1, <1>3 DEF TypeOK
  <2>2. jar' = [jar EXCEPT ![browser[t]] =
                  [session |-> n + 1, challenge |-> IF c = 0 THEN @.challenge ELSE 0]]
    BY <1>3 DEF set_session
  <2>3. QED
    BY <2>1, <2>2
<1>9. TypeOK'
  <2>1. dev' \in BOOLEAN
    BY <1>1, <1>2 DEF TypeOK, settingVars
  <2>2. QED
    BY <1>1, <1>2, <1>5, <1>7, <1>8, <2>1 DEF TypeOK, settingVars, Challenges
<1>10. Shape'
  <2>1. ASSUME NEW w \in Tabs
        PROVE  /\ tab'[w].state <= Len(expires_at)
               /\ tab'[w].shows <= n + 1 /\ tab'[w].sent <= n + 1
               /\ tab'[w].pc \in {"GitHub", "Code"} \cup AfterMatch => tab'[w].state # 0
               /\ tab'[w].pc \in {"Code"} \cup AfterMatch => approved[tab'[w].state] \in Users
    <3>1. tab[w] \in [pc : Steps, state : Nat, shows : Nat, sent : Nat]
      BY <1>1 DEF TypeOK
    <3>2. CASE w # t
      BY <1>1, <1>3, <1>7, <3>1, <3>2 DEF Shape
    <3>3. CASE w = t
      BY <1>1, <1>3, <1>7, <3>1, <3>3 DEF Shape, AfterMatch
    <3>4. QED
      BY <3>2, <3>3
  <2>2. ASSUME NEW b \in Browsers
        PROVE  jar'[b].challenge <= Len(expires_at) /\ jar'[b].session <= n + 1
    <3>1. jar[b] \in [challenge : Nat, session : Nat]
      BY <1>1 DEF TypeOK
    <3>2. QED
      BY <1>1, <1>3, <1>8, <3>1 DEF Shape
  <2>3. \A i \in 1..n + 1 : sessions'[i].challenge <= Len(expires_at)
    <3>1. ASSUME NEW i \in 1..n PROVE sessions'[i].challenge <= Len(expires_at)
      BY <1>3, <1>5, <1>6
    <3>2. \A i \in 1..n + 1 : i \in 1..n \/ i = n + 1
      BY <1>3
    <3>3. QED
      BY <1>4, <1>5, <3>1, <3>2
  <2>4. QED
    BY <1>1, <1>2, <1>5, <2>1, <2>2, <2>3 DEF Shape, Sessions
<1>11. Spent'
  <2>1. ASSUME NEW d \in Nat \ {0}, d # c, NoSession(d) PROVE NoSession(d)'
    BY <1>3, <1>5, <2>1 DEF NoSession, Sessions
  <2>2. \A d \in rows : exchanged[d] = 0 /\ NoSession(d)'
    <3>1. \A d \in rows : d \in Nat \ {0} /\ d # c
      BY <1>1, <1>3, <1>4 DEF TypeOK, Challenges
    <3>2. QED
      BY <1>1, <2>1, <3>1 DEF Spent
  <2>3. ASSUME NEW w \in Tabs, tab'[w].pc \in AfterDelete
        PROVE  tab'[w] = tab[w] /\ NoSession(tab[w].state)'
    <3>1. w # t /\ tab'[w] = tab[w]
      BY <1>7, <2>3 DEF AfterDelete
    <3>2. tab[w].pc \in AfterMatch /\ tab[w].state \in Nat
      BY <1>1, <2>3, <3>1 DEF TypeOK, AfterDelete, AfterMatch
    <3>3. tab[w].state \in Nat \ {0} /\ tab[w].state # c
      BY <1>1, <1>4, <2>3, <3>1, <3>2 DEF Shape
    <3>4. QED
      BY <1>1, <2>1, <2>3, <3>1, <3>3 DEF Spent
  <2>4. \A w \in Tabs : tab'[w].pc = "Exchange" => tab'[w] = tab[w]
    BY <2>3 DEF AfterDelete
  <2>5. \A w \in Tabs : tab'[w].pc \in AfterDelete =>
            /\ tab'[w].state \notin rows /\ NoSession(tab[w].state)'
            /\ \A v \in Tabs : tab'[v].pc \in AfterDelete /\ tab'[v].state = tab'[w].state => v = w
    BY <1>1, <2>3 DEF Spent
  <2>6. \A w \in Tabs : tab'[w].pc = "Exchange" => exchanged[tab'[w].state] = 0
    BY <1>1, <2>4 DEF Spent
  <2>7. QED
    BY <1>2, <2>2, <2>3, <2>5, <2>6 DEF Spent, NoSession
<1>12. Home'
  <2>1. \A w \in Tabs : tab'[w].pc \in AfterMatch => tab'[w] = tab[w]
    BY <1>7 DEF AfterMatch
  <2>2. \A b \in Browsers : jar'[b].challenge # 0 => jar'[b].challenge = jar[b].challenge
    BY <1>8
  <2>3. QED
    BY <1>1, <1>2, <2>1, <2>2 DEF Home, settingVars
<1>13. ChallengeSpentOnce'
  <2>1. \A i \in 1..n : sessions[i].challenge # c \/ c = 0
    BY <1>3, <1>4 DEF NoSession, Sessions
  <2>2. ASSUME NEW i \in 1..n + 1, NEW j \in 1..n + 1,
               sessions'[i].challenge = sessions'[j].challenge, sessions'[i].challenge # 0
        PROVE  i = j
    <3>1. CASE i \in 1..n /\ j \in 1..n
      BY <1>1, <1>3, <1>5, <2>2, <3>1 DEF ChallengeSpentOnce, Sessions
    <3>2. CASE i = n + 1 \/ j = n + 1
      <4>1. \A k \in 1..n : sessions'[k].challenge # c \/ c = 0
        BY <1>5, <2>1
      <4>2. QED
        BY <1>5, <2>2, <3>2, <4>1
    <3>3. QED
      BY <3>1, <3>2
  <2>3. QED
    BY <1>1, <1>2, <1>5, <2>2 DEF ChallengeSpentOnce, Challenges, Sessions
<1>14. SessionsStayHome'
  <2>1. ASSUME NEW b \in Browsers, jar'[b].session # 0, sessions'[jar'[b].session].challenge # 0
        PROVE  origin[sessions'[jar'[b].session].challenge] = b
    <3>1. CASE b = browser[t]
      BY <1>4, <1>5, <1>8, <2>1, <3>1
    <3>2. CASE b # browser[t]
      <4>1. jar'[b] = jar[b] /\ jar[b].session \in 1..n
        BY <1>1, <1>3, <1>8, <2>1, <3>2 DEF Shape, TypeOK
      <4>2. QED
        BY <1>1, <1>5, <2>1, <4>1 DEF SessionsStayHome
    <3>3. QED
      BY <3>1, <3>2
  <2>2. QED
    BY <1>2, <2>1 DEF SessionsStayHome
<1>15. QED
  BY <1>9, <1>10, <1>11, <1>12, <1>13, <1>14 DEF IInv

\* logout takes the session out of the cookie and off the page.
LEMMA LogoutKeeps == ASSUME IInv, NEW t \in Tabs, logout(t) PROVE IInv'
<1>1. TypeOK /\ Shape /\ Spent /\ Home /\ ChallengeSpentOnce /\ SessionsStayHome
  BY DEF IInv
<1>2. UNCHANGED <<settingVars, expires_at, rows, approved, origin, exchanged, sessions>>
  BY DEF logout, brokerVars
<1>3. /\ tab' \in [Tabs -> [pc : Steps, state : Nat, shows : Nat, sent : Nat]]
      /\ tab'[t].pc = tab[t].pc /\ tab'[t].state = tab[t].state
      /\ tab'[t].sent = tab[t].sent /\ tab'[t].shows = 0
      /\ \A w \in Tabs : w # t => tab'[w] = tab[w]
  BY <1>1 DEF logout, TypeOK
<1>4. /\ jar' \in [Browsers -> [challenge : Nat, session : Nat]]
      /\ \A b \in Browsers : jar'[b].challenge = jar[b].challenge
                             /\ jar'[b].session \in {0, jar[b].session}
  <2>1. jar \in [Browsers -> [challenge : Nat, session : Nat]] /\ browser[t] \in Browsers
    BY <1>1 DEF TypeOK
  <2>2. jar' = [jar EXCEPT ![browser[t]].session = 0]
    BY DEF logout
  <2>3. QED
    BY <2>1, <2>2
<1>5. TypeOK'
  <2>1. dev' \in BOOLEAN
    BY <1>1, <1>2 DEF TypeOK, settingVars
  <2>2. QED
    BY <1>1, <1>2, <1>3, <1>4, <2>1 DEF TypeOK, settingVars, Challenges
<1>6. \A w \in Tabs : /\ tab'[w].pc = tab[w].pc /\ tab'[w].state = tab[w].state
                      /\ tab'[w].sent = tab[w].sent /\ tab'[w].shows \in {0, tab[w].shows}
  BY <1>3
<1>7. Shape'
  <2>1. Len(sessions) \in Nat
    BY <1>1 DEF TypeOK
  <2>2. \A w \in Tabs : tab'[w].shows <= Len(sessions)
    BY <1>1, <1>6, <2>1 DEF Shape
  <2>3. \A b \in Browsers : jar'[b].session <= Len(sessions)
    BY <1>1, <1>4, <2>1 DEF Shape
  <2>4. QED
    BY <1>1, <1>2, <1>4, <1>6, <2>2, <2>3 DEF Shape, Sessions
<1>8. Spent' /\ Home'
  BY <1>1, <1>2, <1>4, <1>6 DEF Spent, Home, NoSession, Sessions, settingVars
<1>9. ChallengeSpentOnce' /\ SessionsStayHome'
  BY <1>1, <1>2, <1>4 DEF ChallengeSpentOnce, SessionsStayHome, Challenges, Sessions
<1>10. QED
  BY <1>5, <1>7, <1>8, <1>9 DEF IInv

\* The clock, the memberships and the cleanup of expired rows touch no tab and no cookie.
LEMMA RestKeeps ==
    ASSUME IInv,
           /\ UNCHANGED <<dev, browser, expires_at, approved, origin, exchanged, sessions, jar, tab>>
           /\ now' \in Nat /\ members' \subseteq Users /\ rows' \subseteq rows
    PROVE  IInv'
<1>1. TypeOK /\ Shape /\ Spent /\ Home /\ ChallengeSpentOnce /\ SessionsStayHome
  BY DEF IInv
<1>2. TypeOK'
  <2>1. dev' \in BOOLEAN
    BY <1>1 DEF TypeOK
  <2>2. QED
    BY <1>1, <2>1 DEF TypeOK, Challenges
<1>3. Shape' /\ Home'
  BY <1>1 DEF Shape, Home, Sessions
<1>4. Spent'
  BY <1>1 DEF Spent, NoSession, Sessions
<1>5. ChallengeSpentOnce' /\ SessionsStayHome'
  BY <1>1 DEF ChallengeSpentOnce, SessionsStayHome, Challenges, Sessions
<1>6. QED
  BY <1>2, <1>3, <1>4, <1>5 DEF IInv

-----------------------------------------------------------------------------
(* The theorems. *)

\* The invariant of browser logins: types, the numbering of challenges and sessions, who
\* has spent which challenge, and whose browser it is for.
THEOREM LoginInductive == Spec => []IInv
<1>1. Init => IInv
  BY InitInv
<1>2. ASSUME IInv, [Next]_vars PROVE IInv'
  <2>1. TypeOK
    BY <1>2 DEF IInv
  <2>2. ASSUME NEW t \in Tabs, finish_callback(t) PROVE IInv'
    <3>1. tab[t].pc = "Check" /\ tab[t].state \in Nat
      BY <2>1, <2>2 DEF finish_callback, TypeOK
    <3>2. approved[tab[t].state] \in Users
      BY <1>2, <3>1 DEF IInv, Shape, AfterMatch
    <3>3. CASE set_session(t, approved[tab[t].state], tab[t].state)
      BY <1>2, <3>1, <3>2, <3>3, SessionKeeps
    <3>4. CASE Refuse(t)
      BY <1>2, <3>4, RefuseMoves, MovesKeep
    <3>5. QED
      BY <2>2, <3>3, <3>4 DEF finish_callback
  <2>3. ASSUME NEW t \in Tabs, dev_login(t) PROVE IInv'
    <3>1. PICK u \in Admins : set_session(t, u, 0)
      BY <2>3 DEF dev_login
    <3>2. QED
      BY <1>2, <3>1, SessionKeeps, LoginAssumption
  <2>4. ASSUME NEW c \in Challenges, cleanup(c) PROVE IInv'
    BY <1>2, <2>1, <2>4, RestKeeps DEF cleanup, settingVars, TypeOK
  <2>5. ASSUME NEW u \in Users, leave(u) PROVE IInv'
    BY <1>2, <2>1, <2>5, RestKeeps DEF leave, brokerVars, TypeOK
  <2>6. CASE tick
    BY <1>2, <2>1, <2>6, RestKeeps DEF tick, brokerVars, TypeOK
  <2>7. CASE UNCHANGED vars
    BY <1>2, <2>1, <2>7, RestKeeps DEF vars, TypeOK
  <2>8. QED
    BY <1>2, <2>2, <2>3, <2>4, <2>5, <2>6, <2>7, LoginKeeps, ApproveKeeps, TabMoves, MovesKeep,
       DeleteKeeps, ExchangeKeeps, LogoutKeeps DEF Next
<1>3. QED
  BY <1>1, <1>2, PTL DEF Spec

\* However often and in how many tabs the address of a callback is opened, one code goes to
\* GitHub per challenge and one session comes of it.
THEOREM ChallengesSpentOnce == Spec => []ChallengeSpentOnce
<1>1. IInv => ChallengeSpentOnce
  BY DEF IInv
<1>2. QED
  BY <1>1, LoginInductive, PTL

\* The session of a challenge is in no browser but the one that asked for the challenge.
THEOREM SessionsInTheirBrowser == Spec => []SessionsStayHome
<1>1. IInv => SessionsStayHome
  BY DEF IInv
<1>2. QED
  BY <1>1, LoginInductive, PTL

-----------------------------------------------------------------------------
(* The limit in front of these endpoints, for any capacity, window and number of        *)
(* requests.  An entry leaves the bucket only when it is older than the window by the    *)
(* clock of some request, and a request admitted later read the clock at most STALL      *)
(* before; so a request that is admitted has, CAPACITY admissions back, only requests    *)
(* that are out of its span.                                                             *)

\* What the limiter's parameters stand for.
Bucket == CAPACITY \in Nat /\ WINDOW \in Nat /\ STALL \in Nat /\ MaxInstant \in Nat

\* Clocks, and how far a waiting request's may be behind.
LimitTypes ==
    /\ instant \in 0..MaxInstant
    /\ waiting \in [Requests -> 0..MaxInstant + 1]
    /\ entries \in Seq(Nat) /\ admitted \in Seq(Nat)
    /\ \A r \in Requests : waiting[r] # NotWaiting =>
          waiting[r] <= instant /\ instant <= waiting[r] + STALL

\* s is what is left of the admitted requests when the first ones are out of the window.
Suffix(s) ==
    /\ Len(s) <= Len(admitted)
    /\ \A i \in 1..Len(s) : s[i] = admitted[Len(admitted) - Len(s) + i]
    /\ \A i \in 1..Len(admitted) - Len(s) : admitted[i] + WINDOW <= instant

\* CAPACITY admissions apart is a window apart, less the wait for the mutex.
Apart ==
    \A i, m \in 1..Len(admitted) : i + CAPACITY <= m => admitted[i] + WINDOW <= admitted[m] + STALL

LimitInv == LimitTypes /\ Suffix(entries) /\ Apart

\* A set of natural numbers that is not empty has a least element.
LEMMA LeastOf ==
    ASSUME NEW T \in SUBSET Nat, T # {}
    PROVE  \E x \in T : \A y \in T : x <= y
<1> DEFINE R == OpToRel(<, Nat)
<1>1. IsWellFoundedOn(R, Nat)
  BY NatLessThanWellFounded
<1>2. \A x, y \in Nat : <<y, x>> \in R <=> y < x
  BY DEF OpToRel
<1> HIDE DEF R
<1>3. PICK x \in T : \A y \in T : ~(<<y, x>> \in R)
  BY <1>1, WFMin
<1>4. \A y \in T : ~(y < x)
  BY <1>2, <1>3
<1>5. \A y \in T : x <= y
  BY <1>4
<1>6. QED
  BY <1>5

\* kept drops entries from the front, all of them out of the window.
LEMMA KeptDrops ==
    ASSUME NEW at \in Nat, entries \in Seq(Nat), Bucket
    PROVE  \E d \in 0..Len(entries) :
              /\ kept(at) \in Seq(Nat) /\ Len(kept(at)) = Len(entries) - d
              /\ \A i \in 1..Len(entries) - d : kept(at)[i] = entries[d + i]
              /\ \A i \in 1..d : entries[i] + WINDOW <= at
<1> DEFINE young == {i \in 1..Len(entries) : at < entries[i] + WINDOW}
           n == Len(entries)
<1>1. DOMAIN entries = 1..n /\ n \in Nat /\ \A i \in 1..n : entries[i] \in Nat
  BY LenProperties, ElementOfSeq
<1>2. \A i \in 1..n : i \notin young => entries[i] + WINDOW <= at
  BY <1>1 DEF Bucket
<1>3. CASE young = {}
  <2>1. kept(at) = <<>>
    BY <1>1, <1>3 DEF kept
  <2>2. kept(at) \in Seq(Nat) /\ Len(kept(at)) = n - n
    BY <1>1, <2>1
  <2>3. \A i \in 1..n - n : kept(at)[i] = entries[n + i]
    BY <1>1
  <2>4. \A i \in 1..n : entries[i] + WINDOW <= at
    BY <1>2, <1>3
  <2>5. n \in 0..Len(entries)
    BY <1>1
  <2>6. QED
    BY <2>2, <2>3, <2>4, <2>5, Zenon
<1>4. CASE young # {}
  <2> DEFINE f == CHOOSE i \in young : \A j \in young : i <= j
  <2>1. young \in SUBSET Nat
    BY <1>1
  <2>2. \E i \in young : \A j \in young : i <= j
    BY <1>4, <2>1, LeastOf
  <2>3. f \in young /\ \A j \in young : f <= j
    BY <2>2
  <2>4. kept(at) = SubSeq(entries, f, n)
    BY <1>1, <1>4 DEF kept
  <2> HIDE DEF f
  <2>5. f \in 1..n
    BY <2>3
  <2> HIDE DEF young, n
  <2>6. \A i \in f..n : entries[i] \in Nat
    BY <1>1, <2>5
  <2>7. /\ kept(at) \in Seq(Nat) /\ Len(kept(at)) = n - f + 1
        /\ \A i \in 1..n - f + 1 : kept(at)[i] = entries[f + i - 1]
    <3>1. f \in Int /\ n \in Int /\ f <= n
      BY <1>1, <2>5
    <3>2. /\ SubSeq(entries, f, n) \in Seq(Nat)
          /\ Len(SubSeq(entries, f, n)) = IF f <= n THEN n - f + 1 ELSE 0
          /\ \A i \in 1..n - f + 1 : SubSeq(entries, f, n)[i] = entries[f + i - 1]
      BY <2>6, <3>1, SubSeqProperties
    <3>3. QED
      BY <2>4, <3>1, <3>2
  <2>8. \A i \in 1..f - 1 : i \in 1..n /\ i \notin young
    BY <1>1, <2>3, <2>5
  <2>9. f - 1 \in 0..n /\ Len(kept(at)) = n - (f - 1)
    BY <1>1, <2>5, <2>7
  <2>10. \A i \in 1..n - (f - 1) : kept(at)[i] = entries[(f - 1) + i]
    BY <1>1, <2>5, <2>7
  <2>11. \A i \in 1..f - 1 : entries[i] + WINDOW <= at
    BY <1>2, <2>8
  <2>12. QED
    BY <2>7, <2>9, <2>10, <2>11 DEF n
<1>5. QED
  BY <1>3, <1>4

\* What kept leaves is still a suffix of the admitted requests.
LEMMA KeptSuffix ==
    ASSUME LimitInv, Bucket, NEW at \in Nat, at <= instant
    PROVE  kept(at) \in Seq(Nat) /\ Suffix(kept(at))
<1> DEFINE left == kept(at)
           n == Len(entries)
           m == Len(admitted)
<1>1. PICK d \in 0..Len(entries) :
          /\ left \in Seq(Nat) /\ Len(left) = n - d
          /\ \A i \in 1..n - d : left[i] = entries[d + i]
          /\ \A i \in 1..d : entries[i] + WINDOW <= at
  BY KeptDrops DEF LimitInv, LimitTypes
<1>2. /\ n \in Nat /\ m \in Nat /\ n <= m /\ instant \in Nat
      /\ \A i \in 1..m : admitted[i] \in Nat
  BY LenProperties, ElementOfSeq DEF LimitInv, LimitTypes, Suffix
<1>3. /\ \A i \in 1..n : entries[i] = admitted[m - n + i]
      /\ \A i \in 1..m - n : admitted[i] + WINDOW <= instant
  BY DEF LimitInv, Suffix
<1> HIDE DEF left, n, m
<1>4. Len(left) <= m
  BY <1>1, <1>2 DEF n
<1>5. ASSUME NEW i \in 1..Len(left) PROVE left[i] = admitted[m - Len(left) + i]
  <2>1. d \in Nat /\ d <= n /\ i \in 1..n - d /\ d + i \in 1..n
    BY <1>1, <1>2, <1>5 DEF n
  <2>2. m - n + (d + i) = m - Len(left) + i
    BY <1>1, <1>2, <2>1
  <2>3. QED
    BY <1>1, <1>3, <2>1, <2>2
<1>6. ASSUME NEW i \in 1..m - Len(left) PROVE admitted[i] + WINDOW <= instant
  <2>1. CASE i \in 1..m - n
    BY <1>3, <2>1
  <2>2. CASE i \notin 1..m - n
    <3>1. i - (m - n) \in 1..d /\ i - (m - n) \in 1..n
      BY <1>1, <1>2, <2>2 DEF n
    <3>2. m - n + (i - (m - n)) = i /\ i \in 1..m
      BY <1>1, <1>2, <3>1
    <3>3. entries[i - (m - n)] = admitted[i] /\ entries[i - (m - n)] + WINDOW <= at
      BY <1>1, <1>3, <3>1, <3>2
    <3>4. QED
      BY <1>2, <3>2, <3>3 DEF Bucket
  <2>3. QED
    BY <2>1, <2>2
<1>7. QED
  BY <1>1, <1>4, <1>5, <1>6 DEF Suffix, left, m

\* A request that finds room is CAPACITY admissions and a window, less its wait, after
\* those that are no longer counted.
LEMMA Admit ==
    ASSUME LimitInv, Bucket, NEW r \in Requests, waiting[r] # NotWaiting,
           NEW left \in Seq(Nat), Suffix(left), Len(left) < CAPACITY,
           instant' = instant,
           entries' = Append(left, waiting[r]), admitted' = Append(admitted, waiting[r])
    PROVE  entries' \in Seq(Nat) /\ admitted' \in Seq(Nat) /\ Suffix(entries)' /\ Apart'
<1> DEFINE w == waiting[r]
           k == Len(left)
           m == Len(admitted)
<1>1. /\ w \in Nat /\ instant \in Nat /\ w <= instant /\ instant <= w + STALL
      /\ admitted \in Seq(Nat)
  BY DEF LimitInv, LimitTypes, Bucket
<1>2. /\ k \in Nat /\ m \in Nat /\ k <= m /\ \A i \in 1..m : admitted[i] \in Nat
  BY <1>1, LenProperties, ElementOfSeq DEF Suffix
<1>3. /\ \A i \in 1..k : left[i] = admitted[m - k + i]
      /\ \A i \in 1..m - k : admitted[i] + WINDOW <= instant
  BY DEF Suffix
<1>4. /\ entries' \in Seq(Nat) /\ Len(entries') = k + 1
      /\ \A i \in 1..k : entries'[i] = left[i]
      /\ entries'[k + 1] = w
  BY <1>1, AppendProperties
<1>5. /\ admitted' \in Seq(Nat) /\ Len(admitted') = m + 1
      /\ \A i \in 1..m : admitted'[i] = admitted[i]
      /\ admitted'[m + 1] = w
  BY <1>1, AppendProperties
<1> HIDE DEF w, k, m
<1>6. Suffix(entries)'
  <2>1. ASSUME NEW i \in 1..Len(entries') PROVE entries'[i] = admitted'[Len(admitted') - Len(entries') + i]
    <3>1. CASE i \in 1..k
      <4>1. m - k + i \in 1..m /\ Len(admitted') - Len(entries') + i = m - k + i
        BY <1>2, <1>4, <1>5, <3>1
      <4>2. QED
        BY <1>3, <1>4, <1>5, <3>1, <4>1
    <3>2. CASE i \notin 1..k
      <4>1. i = k + 1 /\ Len(admitted') - Len(entries') + i = m + 1
        BY <1>2, <1>4, <1>5, <3>2
      <4>2. QED
        BY <1>4, <1>5, <4>1
    <3>3. QED
      BY <3>1, <3>2
  <2>2. ASSUME NEW i \in 1..Len(admitted') - Len(entries') PROVE admitted'[i] + WINDOW <= instant'
    <3>1. i \in 1..m - k /\ i \in 1..m
      BY <1>2, <1>4, <1>5
    <3>2. QED
      BY <1>3, <1>5, <3>1
  <2>3. Len(entries') <= Len(admitted')
    BY <1>2, <1>4, <1>5
  <2>4. QED
    BY <2>1, <2>2, <2>3 DEF Suffix
<1>7. ASSUME NEW i \in 1..Len(admitted'), NEW j \in 1..Len(admitted'), i + CAPACITY <= j
      PROVE  admitted'[i] + WINDOW <= admitted'[j] + STALL
  <2>1. CAPACITY \in Nat /\ CAPACITY # 0 /\ k < CAPACITY
    BY <1>2 DEF Bucket, k
  <2>2. i \in 1..m /\ admitted'[i] = admitted[i] /\ admitted[i] \in Nat
    BY <1>2, <1>5, <1>7, <2>1
  <2>3. CASE j \in 1..m
    <3>1. admitted[i] + WINDOW <= admitted[j] + STALL
      BY <1>7, <2>2, <2>3 DEF LimitInv, Apart, m
    <3>2. QED
      BY <1>5, <2>2, <2>3, <3>1
  <2>4. CASE j \notin 1..m
    <3>1. j = m + 1 /\ i \in 1..m - k
      BY <1>2, <1>5, <1>7, <2>1, <2>2, <2>4
    <3>2. admitted[i] + WINDOW <= instant
      BY <1>3, <3>1
    <3>3. admitted[i] + WINDOW <= w + STALL
      BY <1>1, <2>2, <3>2 DEF Bucket
    <3>4. QED
      BY <1>5, <2>2, <3>1, <3>3
  <2>5. QED
    BY <2>3, <2>4
<1>8. QED
  BY <1>4, <1>5, <1>6, <1>7 DEF Apart

\* Every step of the limiter keeps its invariant.
LEMMA LimitNextInv == ASSUME Bucket, LimitInv, [LimitNext]_limitVars PROVE LimitInv'
<1>1. /\ instant \in 0..MaxInstant /\ instant \in Nat /\ waiting \in [Requests -> 0..MaxInstant + 1]
      /\ NotWaiting \in 0..MaxInstant + 1 /\ MaxInstant \in Nat /\ STALL \in Nat
      /\ \A r \in Requests : waiting[r] # NotWaiting =>
            waiting[r] <= instant /\ instant <= waiting[r] + STALL
  BY DEF LimitInv, LimitTypes, NotWaiting, Bucket
<1>2. CASE UNCHANGED limitVars
  BY <1>2 DEF limitVars, NotWaiting, LimitInv, LimitTypes, Suffix, Apart
<1>3. CASE pass
  <2>1. /\ instant' = instant + 1 /\ instant < MaxInstant /\ UNCHANGED <<waiting, entries, admitted>>
        /\ \A r \in Requests : waiting[r] # NotWaiting => instant < waiting[r] + STALL
    BY <1>3 DEF pass
  <2>2. instant' \in 0..MaxInstant
    BY <1>1, <2>1
  <2>3. ASSUME NEW r \in Requests, waiting[r] # NotWaiting
        PROVE  waiting[r] <= instant' /\ instant' <= waiting[r] + STALL
    <3>1. waiting[r] \in Nat
      BY <1>1
    <3>2. QED
      BY <1>1, <2>1, <2>3, <3>1
  <2>4. ASSUME NEW i \in 1..Len(admitted) - Len(entries)
        PROVE  admitted[i] + WINDOW <= instant'
    <3>1. admitted[i] + WINDOW <= instant
      BY DEF LimitInv, Suffix
    <3>2. admitted[i] + WINDOW \in Nat
      <4>1. Len(admitted) \in Nat /\ Len(entries) \in Nat /\ Len(entries) <= Len(admitted)
        BY LenProperties DEF LimitInv, LimitTypes, Suffix
      <4>2. i \in 1..Len(admitted)
        BY <4>1
      <4>3. admitted[i] \in Nat
        BY <4>2, ElementOfSeq DEF LimitInv, LimitTypes
      <4>4. QED
        BY <4>3 DEF Bucket
    <3>3. QED
      BY <1>1, <2>1, <3>1, <3>2
  <2>5. LimitTypes'
    BY <2>1, <2>2, <2>3 DEF LimitInv, LimitTypes, NotWaiting
  <2>6. Suffix(entries)' /\ Apart'
    BY <2>1, <2>4 DEF LimitInv, Suffix, Apart
  <2>7. QED
    BY <2>5, <2>6 DEF LimitInv
<1>4. ASSUME NEW r \in Requests, arrive(r) PROVE LimitInv'
  <2>1. waiting' = [waiting EXCEPT ![r] = instant] /\ UNCHANGED <<instant, entries, admitted>>
    BY <1>4 DEF arrive
  <2>2. /\ waiting' \in [Requests -> 0..MaxInstant + 1]
        /\ \A q \in Requests : waiting'[q] = IF q = r THEN instant ELSE waiting[q]
    BY <1>1, <2>1
  <2>3. instant <= instant /\ instant <= instant + STALL
    BY <1>1
  <2>4. \A q \in Requests : waiting'[q] # NotWaiting =>
            waiting'[q] <= instant /\ instant <= waiting'[q] + STALL
    BY <1>1, <2>2, <2>3
  <2>5. LimitTypes'
    BY <2>1, <2>2, <2>4 DEF LimitInv, LimitTypes, NotWaiting
  <2>6. QED
    BY <2>1, <2>5 DEF LimitInv, Suffix, Apart
<1>5. ASSUME NEW r \in Requests, rate_limit(r) PROVE LimitInv'
  <2> DEFINE left == kept(waiting[r])
  <2>1. /\ waiting[r] # NotWaiting /\ instant' = instant
        /\ waiting' = [waiting EXCEPT ![r] = NotWaiting]
        /\ \/ entries' = left /\ admitted' = admitted
           \/ /\ Len(left) < CAPACITY
              /\ entries' = Append(left, waiting[r]) /\ admitted' = Append(admitted, waiting[r])
    BY <1>5 DEF rate_limit
  <2>2. left \in Seq(Nat) /\ Suffix(left)
    <3>1. waiting[r] \in Nat /\ waiting[r] <= instant
      BY <1>1, <2>1
    <3>2. QED
      BY <3>1, KeptSuffix
  <2>3. /\ waiting' \in [Requests -> 0..MaxInstant + 1]
        /\ \A q \in Requests : waiting'[q] = IF q = r THEN NotWaiting ELSE waiting[q]
    BY <1>1, <2>1
  <2>4. \A q \in Requests : waiting'[q] # NotWaiting =>
            waiting'[q] <= instant /\ instant <= waiting'[q] + STALL
    BY <1>1, <2>3
  <2> HIDE DEF left
  <2>5. /\ entries' \in Seq(Nat) /\ admitted' \in Seq(Nat) /\ Suffix(entries)' /\ Apart'
    <3>1. CASE entries' = left /\ admitted' = admitted
      BY <2>1, <2>2, <3>1 DEF LimitInv, LimitTypes, Suffix, Apart
    <3>2. CASE /\ Len(left) < CAPACITY
               /\ entries' = Append(left, waiting[r]) /\ admitted' = Append(admitted, waiting[r])
      BY <2>1, <2>2, <3>2, Admit
    <3>3. QED
      BY <2>1, <3>1, <3>2
  <2>6. LimitTypes'
    BY <1>1, <2>1, <2>3, <2>4, <2>5 DEF LimitTypes, NotWaiting
  <2>7. QED
    BY <2>5, <2>6 DEF LimitInv
<1>6. QED
  BY <1>2, <1>3, <1>4, <1>5 DEF LimitNext

\* Whatever is CAPACITY admissions apart is not in one span.
LEMMA SpanBounded == ASSUME Bucket, LimitInv PROVE AdmissionsPaced
<1> SUFFICES ASSUME NEW from \in 0..MaxInstant
             PROVE  Cardinality({i \in DOMAIN admitted : /\ from <= admitted[i]
                                   /\ admitted[i] + STALL < from + WINDOW}) <= CAPACITY
  BY DEF AdmissionsPaced
<1> DEFINE S == {i \in DOMAIN admitted : from <= admitted[i] /\ admitted[i] + STALL < from + WINDOW}
<1>1. /\ CAPACITY \in Nat /\ WINDOW \in Nat /\ STALL \in Nat /\ from \in Nat
      /\ Len(admitted) \in Nat /\ DOMAIN admitted = 1..Len(admitted)
      /\ \A i \in 1..Len(admitted) : admitted[i] \in Nat
  BY LenProperties, ElementOfSeq DEF Bucket, LimitInv, LimitTypes
<1>2. S \in SUBSET Nat
  BY <1>1
<1>3. ASSUME NEW i \in S, NEW j \in S PROVE j < i + CAPACITY
  <2>1. i \in 1..Len(admitted) /\ j \in 1..Len(admitted)
    BY <1>1
  <2>2. i + CAPACITY <= j => admitted[i] + WINDOW <= admitted[j] + STALL
    BY <2>1 DEF LimitInv, Apart
  <2>3. QED
    BY <1>1, <2>1, <2>2
<1> HIDE DEF S
<1>4. CASE S = {}
  BY <1>1, <1>4, FS_EmptySet DEF S
<1>5. CASE S # {}
  <2>1. PICK f \in S : \A j \in S : f <= j
    BY <1>2, <1>5, LeastOf
  <2> DEFINE l == f + CAPACITY - 1
  <2>2. f \in Nat /\ l \in Int
    BY <1>1, <1>2, <2>1
  <2>3. ASSUME NEW j \in S PROVE j \in f..l
    <3>1. j \in Nat /\ f <= j /\ j < f + CAPACITY
      BY <1>2, <1>3, <2>1
    <3>2. QED
      BY <1>1, <2>2, <3>1
  <2>4. (IF f > l THEN 0 ELSE l - f + 1) = CAPACITY
    BY <1>1, <2>2
  <2> HIDE DEF l
  <2>5. IsFiniteSet(f..l) /\ Cardinality(f..l) = IF f > l THEN 0 ELSE l - f + 1
    BY <2>2, FS_Interval
  <2>6. S \in SUBSET (f..l)
    BY <2>3
  <2>7. Cardinality(S) <= Cardinality(f..l)
    BY <2>5, <2>6, FS_Subset
  <2>8. QED
    BY <2>4, <2>5, <2>7 DEF S
<1>6. QED
  BY <1>4, <1>5

\* rate_limit: no span as long as the window, less the longest wait for the mutex, has more
\* than CAPACITY admitted requests, in whatever order they read the clock and got the mutex.
THEOREM AdmissionsArePaced == ASSUME Bucket PROVE LimitSpec => []AdmissionsPaced
<1>1. LimitInit => LimitInv
  <2>1. SUFFICES ASSUME LimitInit PROVE LimitInv
    OBVIOUS
  <2>2. /\ instant = 0 /\ waiting = [r \in Requests |-> NotWaiting]
        /\ entries = <<>> /\ admitted = <<>>
    BY <2>1 DEF LimitInit
  <2>3. LimitTypes
    BY <2>2 DEF LimitTypes, NotWaiting, Bucket
  <2>4. Len(<<>>) = 0
    OBVIOUS
  <2>5. Suffix(entries) /\ Apart
    BY <2>2, <2>4 DEF Suffix, Apart
  <2>6. QED
    BY <2>3, <2>5 DEF LimitInv
<1>2. LimitInv /\ [LimitNext]_limitVars => LimitInv'
  BY LimitNextInv
<1>3. LimitInv => AdmissionsPaced
  BY SpanBounded
<1>4. QED
  BY <1>1, <1>2, <1>3, PTL DEF LimitSpec
============================================================================
