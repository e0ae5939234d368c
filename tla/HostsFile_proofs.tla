-------------------------- MODULE HostsFile_proofs --------------------------
(***************************************************************************)
(* The hosts file for any number of commands, tags, hostnames and slots.   *)
(* The invariant says that the file, and what every command has read, has  *)
(* one whole block for each tag that is applied (WellFormed), and that the *)
(* file without the blocks, and with what they disabled, is what the user  *)
(* wrote (Cleaned); it holds as long as no write was cut off or undid a    *)
(* change.  On such a text remove_block is Cleaned for one tag, Cleaned    *)
(* for some tags and then for others is Cleaned for all, and merge_block   *)
(* adds nothing that Cleaned would leave.  Recursive functions are         *)
(* reasoned about by the least number at which a claim would fail.         *)
(***************************************************************************)
EXTENDS HostsFile, SequenceTheorems, FiniteSetTheorems, WellFoundedInduction, TLAPS

\* The lines of the file: the user's, aliases and markers of the blocks.
Off == Tags \cup {None}
UserLines == [kind : {"user"}, tag : {None}, name : Names, ip : {Own}, off : Off]
AliasLines == [kind : {"alias"}, tag : Tags, name : Names, ip : 1 .. SLOTS, off : Off]
MarkerLines == [kind : {"begin", "end"}, tag : Tags, name : {0}, ip : {0}, off : {None}]
Lines == UserLines \cup AliasLines \cup MarkerLines

\* The lines of a tag are one block, from its begin marker to its end marker.
BlockAt(text, t, b, e) ==
    /\ b < e
    /\ \A i \in DOMAIN text : text[i].tag = t <=> b <= i /\ i <= e
    /\ text[b] = Marker("begin", t) /\ text[e] = Marker("end", t)
    /\ \A i \in DOMAIN text : b < i /\ i < e => text[i].kind = "alias"

OneBlock(text, t) ==
    \/ \A i \in DOMAIN text : text[i].tag # t
    \/ \E b, e \in DOMAIN text : BlockAt(text, t, b, e)

\* A block maps a name once, and no two names to one address.
Distinct(text) ==
    \A i, j \in DOMAIN text :
        /\ text[i].kind = "alias" /\ text[j].kind = "alias" /\ text[i].tag = text[j].tag
        /\ text[i].name = text[j].name \/ text[i].ip = text[j].ip
        => i = j

WellFormed(text) ==
    /\ text \in Seq(Lines) /\ Distinct(text)
    /\ \A t \in Tags : OneBlock(text, t)

\* What is left of the text without the lines of some tags, and with what they disabled.
Restored(l, T) == IF l.off \in T THEN [l EXCEPT !.off = None] ELSE l
Others(text, T) == InOrder({i \in DOMAIN text : text[i].tag \notin T}, Len(text))
Cleaned(text, T) == [k \in DOMAIN Others(text, T) |-> Restored(text[Others(text, T)[k]], T)]

\* A command at work.
Working ==
    [pc : {"loading"}, action : {"apply", "remove"}, tag : Tags, names : SUBSET Names,
     replace : BOOLEAN, text : Seq(Lines)]

FileTypes ==
    /\ file \in Seq(Lines) /\ user \in Seq(UserLines) /\ unsafe \in BOOLEAN
    /\ DOMAIN cmd = Procs /\ \A p \in Procs : cmd[p] = Done \/ cmd[p] \in Working

FileInv ==
    /\ FileTypes
    /\ ~unsafe => /\ WellFormed(file) /\ Cleaned(file, Tags) = user
                  /\ \A p \in Procs : WellFormed(cmd[p].text)

\* e lists the members of S in their order.
Lists(e, S) ==
    /\ e \in Seq(Nat)
    /\ \A a, b \in 1 .. Len(e) : a < b => e[a] < e[b]
    /\ \A k \in 1 .. Len(e) : e[k] \in S
    /\ \A i \in S : \E k \in 1 .. Len(e) : e[k] = i

-----------------------------------------------------------------------------
(* Recursive functions. *)

-----------------------------------------------------------------------------
(* Induction and recursion over the numbers up to n. *)

\* A set of natural numbers that is not empty has a least element.
LEMMA LeastOf ==
    ASSUME NEW T \in SUBSET Nat, T # {}
    PROVE  \E x \in T : \A y \in T : x <= y
<1> DEFINE R == OpToRel(<, Nat)
<1>1. IsWellFoundedOn(R, Nat)
  BY NatLessThanWellFounded
<1>2. \A x, y \in Nat : <<y, x>> \in R <=> y < x
  BY DEF OpToRel
<1> HIDE DEF R
<1>3. PICK x \in T : \A y \in T : ~(<<y, x>> \in R)
  BY <1>1, WFMin
<1>4. \A y \in T : ~(y < x)
  BY <1>2, <1>3
<1>5. \A y \in T : x <= y
  BY <1>4
<1>6. QED
  BY <1>5

\* What f[0] is in and every step leads on to, f stays in.
LEMMA Steps ==
    ASSUME NEW n \in Nat, NEW X, NEW f, f[0] \in X[0],
           \A k \in 1 .. n : f[k - 1] \in X[k - 1] => f[k] \in X[k]
    PROVE  \A k \in 0 .. n : f[k] \in X[k]
<1> DEFINE Bad == {k \in 0 .. n : f[k] \notin X[k]}
<1>1. SUFFICES ASSUME Bad # {} PROVE FALSE
  OBVIOUS
<1>2. PICK k \in Bad : \A j \in Bad : k <= j
  <2>1. Bad \in SUBSET Nat
    OBVIOUS
  <2>2. QED
    BY <1>1, <2>1, LeastOf
<1>3. k # 0 /\ k \in 1 .. n /\ k - 1 \in 0 .. n
  BY <1>2
<1>4. k - 1 \notin Bad
  BY <1>2, <1>3
<1>5. QED
  BY <1>2, <1>3, <1>4

\* A function is defined by what it is at 0 and by the step to each number.
Leads(n, X, step) == \A k \in 1 .. n : \A x \in X[k - 1] : step[k][x] \in X[k]
Runs(f, n, X, x0, step) ==
    /\ f = [k \in 0 .. n |-> IF k = 0 THEN x0 ELSE step[k][f[k - 1]]]
    /\ \A k \in 0 .. n : f[k] \in X[k]

\* Such a function exists.
LEMMA Recursion ==
    ASSUME NEW n \in Nat, NEW X, NEW x0 \in X[0], NEW step, Leads(n, X, step)
    PROVE  \E f : Runs(f, n, X, x0, step)
<1> DEFINE Part(f, m) == /\ DOMAIN f = 0 .. m /\ f = [k \in 0 .. m |-> f[k]] /\ f[0] = x0
                         /\ \A k \in 1 .. m : f[k] = step[k][f[k - 1]]
           G == [m \in 0 .. n |-> {c \in {0} : \E f : Part(f, m)}]
           T == [m \in 0 .. n |-> 0]
<1>0. \A m \in 0 .. n : T[m] \in G[m] <=> \E f : Part(f, m)
  <2> HIDE DEF Part
  <2>1. ASSUME NEW m \in 0 .. n PROVE T[m] = 0 /\ G[m] = {c \in {0} : \E f : Part(f, m)}
    OBVIOUS
  <2> HIDE DEF G, T
  <2>2. QED
    BY <2>1, Zenon
<1>1. T[0] \in G[0]
  <2> DEFINE g == [k \in 0 .. 0 |-> x0]
  <2>1. Part(g, 0)
    OBVIOUS
  <2> HIDE DEF Part, G, T, g
  <2>2. \E f : Part(f, 0)
    BY <2>1, Zenon
  <2>3. 0 \in 0 .. n
    OBVIOUS
  <2>4. QED
    BY <1>0, <2>2, <2>3, Zenon
<1>2. ASSUME NEW m \in 1 .. n, T[m - 1] \in G[m - 1] PROVE T[m] \in G[m]
  <2>0. m - 1 \in 0 .. n /\ m \in 0 .. n
    OBVIOUS
  <2>1. PICK f : Part(f, m - 1)
    <3> HIDE DEF Part, G, T
    <3>1. QED
      BY <1>0, <1>2, <2>0, Zenon
  <2> HIDE DEF G, T
  <2> DEFINE g == [k \in 0 .. m |-> IF k = m THEN step[m][f[m - 1]] ELSE f[k]]
  <2>2. DOMAIN g = 0 .. m /\ g = [k \in 0 .. m |-> g[k]] /\ g[0] = x0
    BY <2>1
  <2>3. ASSUME NEW k \in 1 .. m PROVE g[k] = step[k][g[k - 1]]
    <3>1. k - 1 \in 0 .. m /\ k - 1 # m /\ g[k - 1] = f[k - 1]
      OBVIOUS
    <3>2. CASE k = m
      BY <3>1, <3>2
    <3>3. CASE k # m
      <4>1. k \in 1 .. m - 1 /\ k \in 0 .. m
        BY <3>3
      <4>2. g[k] = f[k]
        BY <3>3, <4>1
      <4>3. QED
        BY <2>1, <3>1, <4>1, <4>2
    <3>4. QED
      BY <3>2, <3>3
  <2>4. Part(g, m)
    BY <2>2, <2>3
  <2> HIDE DEF Part, g
  <2>5. QED
    BY <1>0, <2>0, <2>4, Zenon
<1> HIDE DEF Part, G, T
<1>3. T[n] \in G[n]
  BY <1>1, <1>2, Steps
<1>4. PICK f : Part(f, n)
  <2>1. n \in 0 .. n
    OBVIOUS
  <2>2. QED
    BY <1>0, <1>3, <2>1, Zenon
<1>5. f = [k \in 0 .. n |-> IF k = 0 THEN x0 ELSE step[k][f[k - 1]]]
  <2> DEFINE h == [k \in 0 .. n |-> IF k = 0 THEN x0 ELSE step[k][f[k - 1]]]
  <2>1. ASSUME NEW k \in 0 .. n PROVE f[k] = h[k]
    <3>1. k = 0 \/ k \in 1 .. n
      OBVIOUS
    <3>2. QED
      BY <1>4, <3>1 DEF Part
  <2>2. f = [k \in 0 .. n |-> f[k]]
    BY <1>4 DEF Part
  <2> HIDE DEF h
  <2>3. [k \in 0 .. n |-> f[k]] = [k \in 0 .. n |-> h[k]]
    BY <2>1
  <2>4. QED
    BY <2>2, <2>3 DEF h
<1>6. \A k \in 1 .. n : f[k - 1] \in X[k - 1] => f[k] \in X[k]
  BY <1>4 DEF Part, Leads
<1>7. f[0] \in X[0]
  BY <1>4 DEF Part
<1>8. \A k \in 0 .. n : f[k] \in X[k]
  BY <1>6, <1>7, Steps
<1>9. QED
  BY <1>5, <1>8, Zenon DEF Runs

-----------------------------------------------------------------------------
(* Sequences, and lists of the members of a set in their order. *)

-----------------------------------------------------------------------------
(* The members of a set in their order. *)

\* What a sequence is at its places, and what Append adds.
LEMMA Places ==
    ASSUME NEW X, NEW s \in Seq(X)
    PROVE  /\ Len(s) \in Nat /\ DOMAIN s = 1 .. Len(s)
           /\ \A i \in 1 .. Len(s) : s[i] \in X
           /\ s = [i \in 1 .. Len(s) |-> s[i]]
BY LenProperties, ElementOfSeq

\* A sequence with one more element.
LEMMA Appended ==
    ASSUME NEW X, NEW s \in Seq(X), NEW x \in X
    PROVE  /\ Append(s, x) \in Seq(X) /\ Len(Append(s, x)) = Len(s) + 1
           /\ \A i \in 1 .. Len(s) : Append(s, x)[i] = s[i]
           /\ Append(s, x)[Len(s) + 1] = x
BY AppendProperties

\* Two sequences, one after the other.
LEMMA Joined ==
    ASSUME NEW X, NEW r \in Seq(X), NEW s \in Seq(X)
    PROVE  /\ r \o s \in Seq(X) /\ Len(r \o s) = Len(r) + Len(s)
           /\ \A i \in 1 .. Len(r) : (r \o s)[i] = r[i]
           /\ \A k \in 1 .. Len(s) : (r \o s)[Len(r) + k] = s[k]
<1>1. Len(r) \in Nat /\ Len(s) \in Nat
  BY LenProperties
<1>2. /\ r \o s \in Seq(X) /\ Len(r \o s) = Len(r) + Len(s)
      /\ \A i \in 1 .. Len(r) + Len(s) : (r \o s)[i] = IF i <= Len(r) THEN r[i] ELSE s[i - Len(r)]
  BY ConcatProperties
<1>3. \A i \in 1 .. Len(r) : i \in 1 .. Len(r) + Len(s) /\ i <= Len(r)
  BY <1>1
<1>4. \A k \in 1 .. Len(s) : /\ Len(r) + k \in 1 .. Len(r) + Len(s)
                             /\ ~(Len(r) + k <= Len(r)) /\ Len(r) + k - Len(r) = k
  BY <1>1
<1>5. QED
  BY <1>2, <1>3, <1>4

\* The list grows by the next number if that is a member.
LEMMA ListsNext ==
    ASSUME NEW n \in Nat, n # 0, NEW S, NEW e, Lists(e, {i \in 1 .. n - 1 : i \in S})
    PROVE  Lists(IF n \in S THEN Append(e, n) ELSE e, {i \in 1 .. n : i \in S})
<1>1. /\ e \in Seq(Nat) /\ Len(e) \in Nat
      /\ \A a, b \in 1 .. Len(e) : a < b => e[a] < e[b]
      /\ \A k \in 1 .. Len(e) : e[k] \in 1 .. n - 1 /\ e[k] \in S
      /\ \A i \in 1 .. n - 1 : i \in S => \E k \in 1 .. Len(e) : e[k] = i
  BY Places DEF Lists
<1>2. CASE n \notin S
  <2>1. {i \in 1 .. n : i \in S} = {i \in 1 .. n - 1 : i \in S}
    BY <1>2
  <2>2. QED
    BY <1>2, <2>1
<1>3. CASE n \in S
  <2> DEFINE f == Append(e, n)
  <2>1. /\ f \in Seq(Nat) /\ Len(f) = Len(e) + 1 /\ f[Len(e) + 1] = n
        /\ \A i \in 1 .. Len(e) : f[i] = e[i]
    BY <1>1, Appended
  <2> HIDE DEF f
  <2>2. ASSUME NEW k \in 1 .. Len(f) PROVE k = Len(e) + 1 \/ k \in 1 .. Len(e)
    BY <1>1, <2>1
  <2>3. \A k \in 1 .. Len(f) : f[k] \in 1 .. n /\ f[k] \in S
    BY <1>1, <1>3, <2>1, <2>2
  <2>4. ASSUME NEW a \in 1 .. Len(f), NEW b \in 1 .. Len(f), a < b PROVE f[a] < f[b]
    <3>1. a \in 1 .. Len(e) /\ f[a] = e[a] /\ e[a] \in 1 .. n - 1
      BY <1>1, <2>1, <2>4
    <3>2. CASE b = Len(e) + 1
      BY <2>1, <3>1, <3>2
    <3>3. CASE b \in 1 .. Len(e)
      BY <1>1, <2>1, <2>4, <3>1, <3>3
    <3>4. QED
      BY <2>2, <3>2, <3>3
  <2>5. ASSUME NEW i \in 1 .. n, i \in S PROVE \E k \in 1 .. Len(f) : f[k] = i
    <3>1. CASE i = n
      BY <1>1, <2>1, <3>1
    <3>2. CASE i # n
      <4>1. i \in 1 .. n - 1
        BY <3>2
      <4>2. PICK k \in 1 .. Len(e) : e[k] = i
        BY <1>1, <2>5, <4>1
      <4>3. k \in 1 .. Len(f) /\ f[k] = i
        BY <1>1, <2>1, <4>2
      <4>4. QED
        BY <4>3
    <3>3. QED
      BY <3>1, <3>2
  <2>6. Lists(f, {i \in 1 .. n : i \in S})
    BY <2>1, <2>3, <2>4, <2>5 DEF Lists
  <2>7. QED
    BY <1>3, <2>6 DEF f
<1>4. QED
  BY <1>2, <1>3

\* InOrder does what it says.
LEMMA InOrderLists ==
    ASSUME NEW n \in Nat, NEW S
    PROVE  Lists(InOrder(S, n), {i \in 1 .. n : i \in S})
<1> DEFINE X == [k \in 0 .. n |-> {e \in Seq(Nat) : Lists(e, {i \in 1 .. k : i \in S})}]
           step == [k \in 1 .. n |-> [x \in Seq(Nat) |-> IF k \in S THEN Append(x, k) ELSE x]]
           upto[i \in 0 .. n] ==
               IF i = 0 THEN <<>> ELSE IF i \in S THEN Append(upto[i - 1], i) ELSE upto[i - 1]
<1>1. <<>> \in X[0]
  <2>1. <<>> \in Seq(Nat) /\ Len(<<>>) = 0 /\ 0 \in 0 .. n
    OBVIOUS
  <2>2. {i \in 1 .. 0 : i \in S} = {}
    OBVIOUS
  <2>3. Lists(<<>>, {i \in 1 .. 0 : i \in S})
    BY <2>1, <2>2 DEF Lists
  <2>4. QED
    BY <2>1, <2>3
<1>2. ASSUME NEW k \in 1 .. n, NEW x \in X[k - 1]
      PROVE  step[k][x] \in X[k] /\ step[k][x] = IF k \in S THEN Append(x, k) ELSE x
  <2>1. k \in Nat /\ k # 0 /\ k \in 0 .. n /\ k - 1 \in 0 .. n
    OBVIOUS
  <2>2. x \in Seq(Nat) /\ Lists(x, {i \in 1 .. k - 1 : i \in S})
    BY <2>1
  <2>3. step[k][x] = IF k \in S THEN Append(x, k) ELSE x
    BY <2>2
  <2>4. Lists(step[k][x], {i \in 1 .. k : i \in S})
    BY <2>1, <2>2, <2>3, ListsNext
  <2>5. step[k][x] \in Seq(Nat)
    BY <2>4 DEF Lists
  <2>6. QED
    BY <2>1, <2>3, <2>4, <2>5
<1>3. \A e : e \in X[n] => Lists(e, {i \in 1 .. n : i \in S})
  OBVIOUS
<1> HIDE DEF X, step
<1>4. PICK f : Runs(f, n, X, <<>>, step)
  <2>1. Leads(n, X, step)
    BY <1>2 DEF Leads
  <2>2. QED
    BY <1>1, <2>1, Recursion
<1>5. f = [i \in 0 .. n |-> IF i = 0 THEN <<>> ELSE IF i \in S THEN Append(f[i - 1], i) ELSE f[i - 1]]
  <2>1. ASSUME NEW k \in 0 .. n, k # 0
        PROVE step[k][f[k - 1]] = IF k \in S THEN Append(f[k - 1], k) ELSE f[k - 1]
    <3>1. k \in 1 .. n /\ k - 1 \in 0 .. n
      BY <2>1
    <3>2. QED
      BY <1>2, <1>4, <3>1 DEF Runs
  <2>2. QED
    BY <1>4, <2>1 DEF Runs
<1>6. upto = [i \in 0 .. n |-> IF i = 0 THEN <<>> ELSE IF i \in S THEN Append(upto[i - 1], i) ELSE upto[i - 1]]
  BY <1>5
<1>7. InOrder(S, n) = upto[n]
  BY DEF InOrder
<1> HIDE DEF upto
<1>8. upto[0] \in X[0]
  BY <1>1, <1>6
<1>9. ASSUME NEW k \in 1 .. n, upto[k - 1] \in X[k - 1] PROVE upto[k] \in X[k]
  <2>1. k \in 0 .. n /\ k # 0
    OBVIOUS
  <2>2. upto[k] = IF k \in S THEN Append(upto[k - 1], k) ELSE upto[k - 1]
    BY <1>6, <2>1
  <2>3. QED
    BY <1>2, <1>9, <2>2
<1>10. upto[n] \in X[n]
  BY <1>8, <1>9, Steps
<1>11. QED
  BY <1>3, <1>7, <1>10

\* Two lists of a set that agree up to k agree at k.
LEMMA ListsAgree ==
    ASSUME NEW S, NEW e, NEW f, Lists(e, S), Lists(f, S),
           NEW k \in 1 .. Len(e), k \in 1 .. Len(f), \A j \in 1 .. k - 1 : e[j] = f[j]
    PROVE  ~(e[k] < f[k])
<1>1. /\ Len(e) \in Nat /\ Len(f) \in Nat /\ \A i \in 1 .. Len(e) : e[i] \in Nat
      /\ \A i \in 1 .. Len(f) : f[i] \in Nat
  BY Places DEF Lists
<1>2. SUFFICES ASSUME e[k] < f[k] PROVE FALSE
  OBVIOUS
<1>3. PICK j \in 1 .. Len(f) : f[j] = e[k]
  BY DEF Lists
<1>4. CASE j < k
  <2>1. j \in 1 .. k - 1 /\ j \in 1 .. Len(e)
    BY <1>1, <1>4
  <2>2. e[j] < e[k]
    BY <1>4, <2>1 DEF Lists
  <2>3. QED
    BY <1>1, <1>3, <2>1, <2>2
<1>5. CASE j = k
  BY <1>1, <1>2, <1>3, <1>5
<1>6. CASE k < j
  <2>1. f[k] < f[j]
    BY <1>6 DEF Lists
  <2>2. QED
    BY <1>1, <1>2, <1>3, <2>1
<1>7. QED
  BY <1>1, <1>4, <1>5, <1>6

\* The list of a set is not longer than another one.
LEMMA ListsShort ==
    ASSUME NEW S, NEW e, NEW f, Lists(e, S), Lists(f, S),
           \A k \in 1 .. Len(e) : k \in 1 .. Len(f) => e[k] = f[k]
    PROVE  Len(e) <= Len(f)
<1>1. /\ Len(e) \in Nat /\ Len(f) \in Nat /\ \A i \in 1 .. Len(e) : e[i] \in Nat
      /\ \A i \in 1 .. Len(f) : f[i] \in Nat
  BY Places DEF Lists
<1>2. SUFFICES ASSUME Len(f) < Len(e) PROVE FALSE
  BY <1>1
<1>3. Len(f) + 1 \in 1 .. Len(e)
  BY <1>1, <1>2
<1>4. PICK j \in 1 .. Len(f) : f[j] = e[Len(f) + 1]
  BY <1>3 DEF Lists
<1>5. j \in 1 .. Len(e) /\ j < Len(f) + 1 /\ e[j] = f[j]
  BY <1>1, <1>2
<1>6. e[j] < e[Len(f) + 1]
  BY <1>3, <1>5 DEF Lists
<1>7. QED
  BY <1>1, <1>3, <1>4, <1>5, <1>6

\* There is one list of a set.
LEMMA ListsUnique ==
    ASSUME NEW S, NEW e, NEW f, Lists(e, S), Lists(f, S)
    PROVE  e = f
<1> DEFINE Bad == {k \in Nat : k \in 1 .. Len(e) /\ k \in 1 .. Len(f) /\ e[k] # f[k]}
<1>1. /\ Len(e) \in Nat /\ Len(f) \in Nat /\ \A i \in 1 .. Len(e) : e[i] \in Nat
      /\ \A i \in 1 .. Len(f) : f[i] \in Nat
      /\ e = [i \in 1 .. Len(e) |-> e[i]] /\ f = [i \in 1 .. Len(f) |-> f[i]]
  BY Places DEF Lists
<1>2. Bad = {}
  <2>1. SUFFICES ASSUME Bad # {} PROVE FALSE
    OBVIOUS
  <2>2. Bad \in SUBSET Nat
    OBVIOUS
  <2>3. PICK k \in Bad : \A j \in Bad : k <= j
    BY <2>1, <2>2, LeastOf
  <2>4. k \in 1 .. Len(e) /\ k \in 1 .. Len(f) /\ e[k] # f[k]
    OBVIOUS
  <2>5. \A j \in 1 .. k - 1 : e[j] = f[j]
    BY <1>1, <2>3, <2>4
  <2>6. \A j \in 1 .. k - 1 : f[j] = e[j]
    BY <2>5
  <2> HIDE DEF Bad
  <2>7. ~(e[k] < f[k])
    BY <2>4, <2>5, ListsAgree
  <2>8. ~(f[k] < e[k])
    BY <2>4, <2>6, ListsAgree
  <2>9. QED
    BY <1>1, <2>4, <2>7, <2>8
<1>3. \A k \in 1 .. Len(e) : k \in 1 .. Len(f) => e[k] = f[k]
  BY <1>1, <1>2
<1>4. Len(e) <= Len(f)
  BY <1>3, ListsShort
<1>5. \A k \in 1 .. Len(f) : k \in 1 .. Len(e) => f[k] = e[k]
  BY <1>3
<1>6. Len(f) <= Len(e)
  BY <1>5, ListsShort
<1>7. Len(e) = Len(f)
  <2>1. Len(e) \in Nat /\ Len(f) \in Nat
    BY <1>1
  <2> HIDE DEF Bad
  <2>2. QED
    BY <1>4, <1>6, <2>1
<1>8. [i \in 1 .. Len(e) |-> e[i]] = [i \in 1 .. Len(f) |-> f[i]]
  BY <1>3, <1>7
<1>9. QED
  BY <1>1, <1>8

\* A list has a member once.
LEMMA OrderOnce ==
    ASSUME NEW S, NEW e, Lists(e, S), NEW k \in 1 .. Len(e), NEW m \in 1 .. Len(e), e[k] = e[m]
    PROVE  k = m
<1>1. Len(e) \in Nat /\ e[k] \in Nat /\ e[m] \in Nat
  BY Places DEF Lists
<1>2. ~(k < m) /\ ~(m < k)
  BY <1>1 DEF Lists
<1>3. QED
  BY <1>1, <1>2

\* The sequence of the values of a function on 1 .. n.
LEMMA Tabled ==
    ASSUME NEW X, NEW n \in Nat, NEW s, s = [i \in 1 .. n |-> s[i]], \A i \in 1 .. n : s[i] \in X
    PROVE  s \in Seq(X) /\ Len(s) = n /\ DOMAIN s = 1 .. n
<1>1. s \in [1 .. n -> X]
  OBVIOUS
<1>2. QED
  BY <1>1

\* The places that one list picks from another.
Picked(e, d) == [k \in 1 .. Len(d) |-> e[d[k]]]

\* A list of places of a list is a list of what is there.
LEMMA ListsPicked ==
    ASSUME NEW S, NEW e, Lists(e, S), NEW D, NEW d, Lists(d, D),
           \A k \in D : k \in 1 .. Len(e)
    PROVE  Lists(Picked(e, d), {i \in S : \E k \in D : e[k] = i}) /\ Len(Picked(e, d)) = Len(d)
<1> DEFINE p == Picked(e, d)
           n == Len(d)
           R == {i \in S : \E k \in D : e[k] = i}
<1>1. n \in Nat /\ \A i \in 1 .. Len(e) : e[i] \in Nat
  BY Places DEF Lists
<1>2. \A k \in 1 .. n : d[k] \in D /\ d[k] \in 1 .. Len(e) /\ p[k] = e[d[k]]
  BY DEF Lists, Picked
<1>3. p = [k \in 1 .. n |-> p[k]]
  BY DEF Picked
<1> HIDE DEF p, n, R
<1>4. \A k \in 1 .. n : p[k] \in Nat
  BY <1>1, <1>2
<1>5. p \in Seq(Nat) /\ Len(p) = n
  BY <1>1, <1>3, <1>4, Tabled
<1>6. ASSUME NEW a \in 1 .. n, NEW b \in 1 .. n, a < b PROVE p[a] < p[b]
  <2>1. d[a] < d[b]
    BY <1>6 DEF Lists, n
  <2>2. e[d[a]] < e[d[b]]
    BY <1>2, <2>1 DEF Lists
  <2>3. QED
    BY <1>2, <2>2
<1>7. \A k \in 1 .. n : p[k] \in R
  <2>1. ASSUME NEW k \in 1 .. n PROVE p[k] \in R
    <3>1. p[k] = e[d[k]] /\ d[k] \in D /\ e[d[k]] \in S
      BY <1>2 DEF Lists
    <3>2. QED
      BY <3>1 DEF R
  <2>2. QED
    BY <2>1
<1>8. \A i \in R : \E k \in 1 .. n : p[k] = i
  <2>1. ASSUME NEW i \in R PROVE \E k \in 1 .. n : p[k] = i
    <3>1. PICK m \in D : e[m] = i
      BY DEF R
    <3>2. PICK k \in 1 .. n : d[k] = m
      BY DEF Lists, n
    <3>3. p[k] = i
      BY <1>2, <3>1, <3>2
    <3>4. QED
      BY <3>3
  <2>2. QED
    BY <2>1
<1>9. Lists(p, R)
  BY <1>5, <1>6, <1>7, <1>8 DEF Lists
<1>10. QED
  BY <1>5, <1>9 DEF p, n, R

\* All numbers up to n.
LEMMA ListsAll == ASSUME NEW n \in Nat PROVE Lists([i \in 1 .. n |-> i], 1 .. n)
<1> DEFINE s == [i \in 1 .. n |-> i]
<1>1. s = [i \in 1 .. n |-> s[i]] /\ \A i \in 1 .. n : s[i] = i /\ s[i] \in Nat
  OBVIOUS
<1> HIDE DEF s
<1>2. s \in Seq(Nat) /\ Len(s) = n
  BY <1>1, Tabled
<1>3. Lists(s, 1 .. n)
  BY <1>1, <1>2 DEF Lists
<1>4. QED
  BY <1>3 DEF s

-----------------------------------------------------------------------------
(* What is left of a text without some tags. *)

-----------------------------------------------------------------------------
(* Text without the blocks of some tags. *)

\* A line that is restored is the same line, active if one of the tags had disabled it.
LEMMA RestoredLine ==
    ASSUME NEW l \in Lines, NEW T
    PROVE  /\ Restored(l, T) \in Lines
           /\ Restored(l, T).kind = l.kind /\ Restored(l, T).tag = l.tag
           /\ Restored(l, T).name = l.name /\ Restored(l, T).ip = l.ip
           /\ Restored(l, T).off = IF l.off \in T THEN None ELSE l.off
BY DEF Restored, Lines, UserLines, AliasLines, MarkerLines, Off

\* Lines are the same when their fields are.
LEMMA SameLine ==
    ASSUME NEW l \in Lines, NEW m \in Lines, l.kind = m.kind, l.tag = m.tag, l.name = m.name,
           l.ip = m.ip, l.off = m.off
    PROVE  l = m
BY DEF Lines, UserLines, AliasLines, MarkerLines

\* Restoring for some tags and then for others is restoring for all of them.
LEMMA RestoredTwice ==
    ASSUME NEW l \in Lines, NEW T, NEW U
    PROVE  Restored(Restored(l, T), U) = Restored(l, T \cup U)
<1> DEFINE m == Restored(l, T)
           a == Restored(m, U)
           b == Restored(l, T \cup U)
<1>1. /\ m \in Lines /\ m.kind = l.kind /\ m.tag = l.tag /\ m.name = l.name /\ m.ip = l.ip
      /\ m.off = IF l.off \in T THEN None ELSE l.off
  BY RestoredLine
<1>2. /\ b \in Lines /\ b.kind = l.kind /\ b.tag = l.tag /\ b.name = l.name /\ b.ip = l.ip
      /\ b.off = IF l.off \in T \cup U THEN None ELSE l.off
  BY RestoredLine
<1> HIDE DEF m, b
<1>3. /\ a \in Lines /\ a.kind = m.kind /\ a.tag = m.tag /\ a.name = m.name /\ a.ip = m.ip
      /\ a.off = IF m.off \in U THEN None ELSE m.off
  BY <1>1, RestoredLine
<1> HIDE DEF a
<1>4. a.off = b.off
  BY <1>1, <1>2, <1>3
<1>5. a = b
  BY <1>1, <1>2, <1>3, <1>4, SameLine
<1>6. QED
  BY <1>5 DEF a, b, m

\* Others lists the places of the lines of other tags.
LEMMA OthersList ==
    ASSUME NEW text \in Seq(Lines), NEW T
    PROVE  Lists(Others(text, T), {i \in 1 .. Len(text) : text[i].tag \notin T})
<1>1. Len(text) \in Nat /\ DOMAIN text = 1 .. Len(text)
  BY Places
<1> DEFINE S == {i \in DOMAIN text : text[i].tag \notin T}
<1>2. {i \in 1 .. Len(text) : i \in S} = {i \in 1 .. Len(text) : text[i].tag \notin T}
  BY <1>1
<1> HIDE DEF S
<1>3. Lists(InOrder(S, Len(text)), {i \in 1 .. Len(text) : i \in S})
  BY <1>1, InOrderLists
<1>4. QED
  BY <1>2, <1>3 DEF Others, S

\* The lines of Cleaned, and where they come from.
LEMMA CleanedLines ==
    ASSUME NEW text \in Seq(Lines), NEW T
    PROVE  /\ Cleaned(text, T) \in Seq(Lines)
           /\ Len(Cleaned(text, T)) \in Nat /\ Len(Others(text, T)) = Len(Cleaned(text, T))
           /\ Cleaned(text, T) =
                 [k \in 1 .. Len(Others(text, T)) |-> Restored(text[Others(text, T)[k]], T)]
           /\ \A k \in 1 .. Len(Cleaned(text, T)) :
                 /\ Others(text, T)[k] \in 1 .. Len(text)
                 /\ text[Others(text, T)[k]] \in Lines /\ text[Others(text, T)[k]].tag \notin T
                 /\ Cleaned(text, T)[k] = Restored(text[Others(text, T)[k]], T)
                 /\ Cleaned(text, T)[k].kind = text[Others(text, T)[k]].kind
                 /\ Cleaned(text, T)[k].tag = text[Others(text, T)[k]].tag
                 /\ Cleaned(text, T)[k].name = text[Others(text, T)[k]].name
                 /\ Cleaned(text, T)[k].ip = text[Others(text, T)[k]].ip
           /\ \A a, b \in 1 .. Len(Cleaned(text, T)) : a < b => Others(text, T)[a] < Others(text, T)[b]
           /\ \A i \in 1 .. Len(text) : text[i].tag \notin T =>
                 \E k \in 1 .. Len(Cleaned(text, T)) : Others(text, T)[k] = i
<1> DEFINE e == Others(text, T)
           c == Cleaned(text, T)
           n == Len(e)
<1>1. Lists(e, {i \in 1 .. Len(text) : text[i].tag \notin T})
  BY OthersList
<1>2. n \in Nat /\ DOMAIN e = 1 .. n
  BY <1>1, Places DEF Lists
<1>3. c = [k \in 1 .. n |-> Restored(text[e[k]], T)]
  BY <1>2 DEF Cleaned
<1> HIDE DEF e, c, n
<1>4. \A k \in 1 .. n : e[k] \in 1 .. Len(text) /\ text[e[k]].tag \notin T /\ text[e[k]] \in Lines
  BY <1>1, Places DEF Lists, n
<1>5. \A k \in 1 .. n : /\ c[k] \in Lines /\ c[k] = Restored(text[e[k]], T)
                        /\ c[k].kind = text[e[k]].kind /\ c[k].tag = text[e[k]].tag
                        /\ c[k].name = text[e[k]].name /\ c[k].ip = text[e[k]].ip
  BY <1>3, <1>4, RestoredLine
<1>6. c = [k \in 1 .. n |-> c[k]]
  BY <1>3
<1>7. c \in Seq(Lines) /\ Len(c) = n
  BY <1>2, <1>5, <1>6, Tabled
<1>8. /\ \A a, b \in 1 .. n : a < b => e[a] < e[b]
      /\ \A i \in 1 .. Len(text) : text[i].tag \notin T => \E k \in 1 .. n : e[k] = i
  BY <1>1 DEF Lists, n
<1>9. QED
  BY <1>2, <1>3, <1>4, <1>5, <1>7, <1>8 DEF e, c, n

\* Without tags nothing happens; without more tags, the same as without all of them.
LEMMA CleanedNone == ASSUME NEW text \in Seq(Lines) PROVE Cleaned(text, {}) = text
<1> DEFINE n == Len(text)
           id == [i \in 1 .. n |-> i]
<1>1. n \in Nat /\ text = [i \in 1 .. n |-> text[i]]
  BY Places
<1>2. {i \in 1 .. n : text[i].tag \notin {}} = 1 .. n
  OBVIOUS
<1>3. Lists(Others(text, {}), 1 .. n)
  BY <1>2, OthersList
<1>4. Lists(id, 1 .. n)
  BY <1>1, ListsAll
<1> HIDE DEF n, id
<1>5. Others(text, {}) = id
  BY <1>3, <1>4, ListsUnique
<1>6. DOMAIN id = 1 .. n /\ \A i \in 1 .. n : id[i] = i
  BY DEF id
<1>7. \A l : Restored(l, {}) = l
  BY DEF Restored
<1>8. Cleaned(text, {}) = [k \in 1 .. n |-> text[k]]
  BY <1>5, <1>6, <1>7 DEF Cleaned
<1>9. QED
  BY <1>1, <1>8

\* Cleaning of some tags and then of others is cleaning of all of them.
LEMMA CleanedTwice ==
    ASSUME NEW text \in Seq(Lines), NEW T, NEW U
    PROVE  Cleaned(Cleaned(text, T), U) = Cleaned(text, T \cup U)
<1> DEFINE e == Others(text, T)
           c == Cleaned(text, T)
           d == Others(c, U)
           S == {i \in 1 .. Len(text) : text[i].tag \notin T}
           D == {k \in 1 .. Len(c) : c[k].tag \notin U}
           R == {i \in 1 .. Len(text) : text[i].tag \notin T \cup U}
<1>1. /\ c \in Seq(Lines) /\ Len(c) = Len(e)
      /\ \A k \in 1 .. Len(c) : /\ e[k] \in 1 .. Len(text) /\ text[e[k]] \in Lines
                                /\ text[e[k]].tag \notin T /\ c[k].tag = text[e[k]].tag
                                /\ c[k] = Restored(text[e[k]], T)
      /\ \A i \in 1 .. Len(text) : text[i].tag \notin T => \E k \in 1 .. Len(c) : e[k] = i
  BY CleanedLines
<1>2. Lists(e, S) /\ Lists(Others(text, T \cup U), R)
  BY OthersList
<1> HIDE DEF c
<1>3. Lists(d, D)
  BY <1>1, OthersList
<1>4. {i \in S : \E k \in D : e[k] = i} = R
  BY <1>1
<1>5. \A k \in D : k \in 1 .. Len(e)
  BY <1>1
<1>6. /\ DOMAIN d = 1 .. Len(d) /\ Len(d) \in Nat
      /\ \A k \in 1 .. Len(d) : d[k] \in 1 .. Len(c)
  BY <1>3, Places DEF Lists
<1> HIDE DEF e, d, S, D, R
<1>7. Lists(Picked(e, d), R) /\ Len(Picked(e, d)) = Len(d)
  <2>1. /\ Lists(Picked(e, d), {i \in S : \E k \in D : e[k] = i})
        /\ Len(Picked(e, d)) = Len(d)
    BY <1>2, <1>3, <1>5, ListsPicked
  <2>2. QED
    BY <1>4, <2>1
<1>8. Picked(e, d) = Others(text, T \cup U)
  BY <1>2, <1>7, ListsUnique
<1>9. Cleaned(text, T \cup U) = [k \in 1 .. Len(d) |-> Restored(text[e[d[k]]], T \cup U)]
  <2>1. DOMAIN Picked(e, d) = 1 .. Len(d) /\ \A k \in 1 .. Len(d) : Picked(e, d)[k] = e[d[k]]
    BY DEF Picked
  <2>2. QED
    BY <1>8, <2>1 DEF Cleaned
<1>10. Cleaned(c, U) = [k \in 1 .. Len(d) |-> Restored(c[d[k]], U)]
  BY <1>6 DEF Cleaned, d
<1>11. \A k \in 1 .. Len(d) : Restored(c[d[k]], U) = Restored(text[e[d[k]]], T \cup U)
  <2>1. ASSUME NEW k \in 1 .. Len(d)
        PROVE  Restored(c[d[k]], U) = Restored(text[e[d[k]]], T \cup U)
    <3>1. text[e[d[k]]] \in Lines /\ c[d[k]] = Restored(text[e[d[k]]], T)
      BY <1>1, <1>6
    <3>2. QED
      BY <3>1, RestoredTwice
  <2>2. QED
    BY <2>1
<1>12. QED
  BY <1>9, <1>10, <1>11 DEF c

-----------------------------------------------------------------------------
(* Blocks. *)

\* A block is what has its tag.
LEMMA BlockIs ==
    ASSUME NEW text \in Seq(Lines), NEW t \in Tags, OneBlock(text, t)
    PROVE  block(text, t) = {i \in DOMAIN text : text[i].tag = t}
<1>1. /\ DOMAIN text = 1 .. Len(text) /\ Len(text) \in Nat
      /\ Marker("begin", t).tag = t /\ Marker("end", t).tag = t
      /\ Marker("begin", t).kind = "begin" /\ Marker("end", t).kind = "end"
  BY Places DEF Marker, Line
<1>2. CASE \A i \in DOMAIN text : text[i].tag # t
  <2>1. \A i \in DOMAIN text : text[i] # Marker("begin", t) /\ text[i] # Marker("end", t)
    BY <1>1, <1>2
  <2>2. inside(text, t) = {}
    BY <1>1, <2>1 DEF inside
  <2>3. QED
    BY <1>2, <2>1, <2>2 DEF block
<1>3. ASSUME NEW b \in DOMAIN text, NEW e \in DOMAIN text, BlockAt(text, t, b, e)
      PROVE  block(text, t) = {i \in DOMAIN text : text[i].tag = t}
  <2>1. /\ b < e /\ \A i \in DOMAIN text : text[i].tag = t <=> b <= i /\ i <= e
        /\ text[b] = Marker("begin", t) /\ text[e] = Marker("end", t)
        /\ \A i \in DOMAIN text : b < i /\ i < e => text[i].kind = "alias"
    BY <1>3 DEF BlockAt
  <2>2. ASSUME NEW i \in DOMAIN text
        PROVE  /\ text[i] = Marker("begin", t) <=> i = b
               /\ text[i] = Marker("end", t) <=> i = e
    BY <1>1, <2>1
  <2>3. ASSUME NEW i \in DOMAIN text PROVE i \in inside(text, t) <=> b < i /\ i < e
    <3>1. ASSUME i \in inside(text, t) PROVE b < i /\ i < e
      <4>1. PICK a \in 1 .. i - 1 : /\ text[a] = Marker("begin", t)
                                    /\ \A k \in a + 1 .. i : text[k] # Marker("end", t)
        BY <3>1 DEF inside
      <4>2. a = b
        BY <1>1, <2>2, <4>1
      <4>3. e \notin a + 1 .. i
        BY <2>1, <4>1
      <4>4. QED
        BY <1>1, <2>1, <4>2, <4>3
    <3>2. ASSUME b < i, i < e PROVE i \in inside(text, t)
      <4>1. b \in 1 .. i - 1
        BY <1>1, <3>2
      <4>2. \A k \in b + 1 .. i : text[k] # Marker("end", t)
        BY <1>1, <2>1, <2>2, <3>2
      <4>3. QED
        BY <2>1, <4>1, <4>2 DEF inside
    <3>3. QED
      BY <3>1, <3>2
  <2>4. \A i \in inside(text, t) : i \in DOMAIN text
    BY DEF inside
  <2>5. \A i \in DOMAIN text : i \in block(text, t) <=> b <= i /\ i <= e
    BY <1>1, <2>1, <2>2, <2>3 DEF block
  <2>6. \A i \in block(text, t) : i \in DOMAIN text
    BY <2>4 DEF block
  <2>7. QED
    BY <2>1, <2>5, <2>6
<1>4. QED
  BY <1>2, <1>3 DEF OneBlock

\* remove_block takes out what has the tag and restores what it had disabled.
LEMMA RemoveIs ==
    ASSUME NEW text \in Seq(Lines), NEW t \in Tags, OneBlock(text, t)
    PROVE  remove_block(text, t) = Cleaned(text, {t})
<1> DEFINE e == Others(text, {t})
           left == Without(text, block(text, t))
<1>1. DOMAIN text \ block(text, t) = {i \in DOMAIN text : text[i].tag \notin {t}}
  BY BlockIs
<1>2. left = [k \in DOMAIN e |-> text[e[k]]]
  BY <1>1 DEF Without, Others
<1>3. remove_block(text, t) =
        [k \in DOMAIN left |-> IF left[k].off = t THEN [left[k] EXCEPT !.off = None] ELSE left[k]]
  BY DEF remove_block
<1> HIDE DEF left, e
<1>4. DOMAIN left = DOMAIN e /\ \A k \in DOMAIN e : left[k] = text[e[k]]
  BY <1>2
<1>5. remove_block(text, t) = [k \in DOMAIN e |-> Restored(text[e[k]], {t})]
  BY <1>3, <1>4 DEF Restored
<1>6. QED
  BY <1>5 DEF Cleaned, e

\* Taking lines of some tags out of a text leaves the other blocks in one piece.
LEMMA CleanedBlock ==
    ASSUME NEW text \in Seq(Lines), NEW T, NEW t \in Tags, OneBlock(text, t)
    PROVE  OneBlock(Cleaned(text, T), t)
<1> DEFINE e == Others(text, T)
           c == Cleaned(text, T)
<1>1. /\ c \in Seq(Lines) /\ Len(c) \in Nat
      /\ \A k \in 1 .. Len(c) : /\ e[k] \in 1 .. Len(text) /\ text[e[k]].tag \notin T
                                /\ text[e[k]] \in Lines
                                /\ c[k] = Restored(text[e[k]], T) /\ c[k].tag = text[e[k]].tag
                                /\ c[k].kind = text[e[k]].kind
      /\ \A i, j \in 1 .. Len(c) : i < j => e[i] < e[j]
      /\ \A i \in 1 .. Len(text) : text[i].tag \notin T => \E k \in 1 .. Len(c) : e[k] = i
  BY CleanedLines
<1>2. /\ DOMAIN c = 1 .. Len(c) /\ DOMAIN text = 1 .. Len(text) /\ Len(text) \in Nat
  BY <1>1, Places
<1> HIDE DEF e, c
<1>3. CASE (\A i \in DOMAIN text : text[i].tag # t) \/ t \in T
  <2>1. \A k \in DOMAIN c : c[k].tag # t
    BY <1>1, <1>2, <1>3
  <2>2. QED
    BY <2>1 DEF OneBlock, c
<1>4. ASSUME NEW x \in DOMAIN text, NEW y \in DOMAIN text, BlockAt(text, t, x, y), t \notin T
      PROVE  OneBlock(c, t)
  <2>1. /\ x < y /\ \A i \in DOMAIN text : text[i].tag = t <=> x <= i /\ i <= y
        /\ text[x] = Marker("begin", t) /\ text[y] = Marker("end", t)
        /\ \A i \in DOMAIN text : x < i /\ i < y => text[i].kind = "alias"
    BY <1>4 DEF BlockAt
  <2>a. x \in 1 .. Len(text) /\ text[x].tag \notin T /\ y \in 1 .. Len(text) /\ text[y].tag \notin T
    <3>1. text[x].tag = t /\ text[y].tag = t
      BY <2>1 DEF Marker, Line
    <3>2. QED
      BY <1>2, <1>4, <3>1
  <2>2. PICK b \in 1 .. Len(c) : e[b] = x
    BY <1>1, <2>a
  <2>3. PICK d \in 1 .. Len(c) : e[d] = y
    BY <1>1, <2>a
  <2>4. \A i, j \in 1 .. Len(c) : (i < j <=> e[i] < e[j]) /\ (i <= j <=> e[i] <= e[j])
    BY <1>1, <1>2
  <2>5. \A k \in DOMAIN c : c[k].tag = t <=> b <= k /\ k <= d
    BY <1>1, <1>2, <2>1, <2>2, <2>3, <2>4
  <2>6. \A k \in DOMAIN c : b < k /\ k < d => c[k].kind = "alias"
    BY <1>1, <1>2, <2>1, <2>2, <2>3, <2>4
  <2>7. b < d
    BY <2>1, <2>2, <2>3, <2>4
  <2>8. c[b] = Marker("begin", t) /\ c[d] = Marker("end", t)
    <3>1. \A k : Restored(Marker(k, t), T) = Marker(k, t)
      BY DEF Restored, Marker, Line
    <3>2. QED
      BY <1>1, <2>1, <2>2, <2>3, <3>1
  <2>9. BlockAt(c, t, b, d)
    BY <2>5, <2>6, <2>7, <2>8 DEF BlockAt
  <2>10. QED
    BY <1>2, <2>9 DEF OneBlock
<1>5. QED
  BY <1>3, <1>4 DEF OneBlock, c

\* What is left of a well-formed text is well-formed.
LEMMA CleanedWellFormed ==
    ASSUME NEW text, WellFormed(text), NEW T
    PROVE  WellFormed(Cleaned(text, T))
<1> DEFINE e == Others(text, T)
           c == Cleaned(text, T)
<1>1. text \in Seq(Lines) /\ Distinct(text) /\ \A t \in Tags : OneBlock(text, t)
  BY DEF WellFormed
<1>2. /\ c \in Seq(Lines) /\ Len(c) \in Nat
      /\ \A k \in 1 .. Len(c) : /\ e[k] \in 1 .. Len(text)
                                /\ c[k].tag = text[e[k]].tag /\ c[k].kind = text[e[k]].kind
                                /\ c[k].name = text[e[k]].name /\ c[k].ip = text[e[k]].ip
      /\ \A i, j \in 1 .. Len(c) : i < j => e[i] < e[j]
  BY <1>1, CleanedLines
<1>3. \A t \in Tags : OneBlock(c, t)
  BY <1>1, CleanedBlock
<1>4. DOMAIN c = 1 .. Len(c) /\ DOMAIN text = 1 .. Len(text) /\ Len(text) \in Nat
  BY <1>1, <1>2, Places
<1> HIDE DEF e, c
<1>5. \A i, j \in 1 .. Len(c) : e[i] = e[j] => i = j
  BY <1>2, <1>4
<1>6. Distinct(c)
  <2>1. SUFFICES ASSUME NEW i \in DOMAIN c, NEW j \in DOMAIN c, c[i].kind = "alias",
                        c[j].kind = "alias", c[i].tag = c[j].tag,
                        c[i].name = c[j].name \/ c[i].ip = c[j].ip
                 PROVE  i = j
    BY DEF Distinct
  <2>2. /\ e[i] \in DOMAIN text /\ e[j] \in DOMAIN text
        /\ text[e[i]].kind = "alias" /\ text[e[j]].kind = "alias"
        /\ text[e[i]].tag = text[e[j]].tag
        /\ text[e[i]].name = text[e[j]].name \/ text[e[i]].ip = text[e[j]].ip
    BY <1>2, <1>4, <2>1
  <2>3. e[i] = e[j]
    BY <1>1, <2>2 DEF Distinct
  <2>4. QED
    BY <1>4, <1>5, <2>3
<1>7. QED
  BY <1>2, <1>3, <1>6 DEF WellFormed, c

-----------------------------------------------------------------------------
(* Addresses. *)

-----------------------------------------------------------------------------
(* Addresses. *)

\* Injective, into the slots.
Spread(a, D) ==
    /\ a = [m \in D |-> a[m]] /\ \A m \in D : a[m] \in 1 .. SLOTS
    /\ \A m, k \in D : a[m] = a[k] => m = k

\* The remainder of a number less than twice the modulus.
LEMMA Remainder ==
    ASSUME NEW m \in Nat, NEW x \in Nat, x < m
    PROVE  x % m = x /\ (x + m) % m = x
OBVIOUS

\* Probing comes to every slot.
LEMMA ProbesAll ==
    ASSUME NEW name \in Names, NEW a \in 1 .. SLOTS
    PROVE  \E d \in 0 .. SLOTS - 1 : 1 + ((fnv1a32[name] - 1 + d) % SLOTS) = a
<1> DEFINE h == fnv1a32[name]
<1>1. SLOTS \in Nat /\ h \in 1 .. SLOTS
  BY FileAssumption, Places
<1> HIDE DEF h
<1>2. (a - 1) % SLOTS = a - 1 /\ (a - 1 + SLOTS) % SLOTS = a - 1
  BY <1>1, Remainder
<1>3. CASE h <= a
  <2>1. a - h \in 0 .. SLOTS - 1 /\ h - 1 + (a - h) = a - 1
    BY <1>1, <1>3
  <2>2. 1 + ((h - 1 + (a - h)) % SLOTS) = a
    BY <1>1, <1>2, <2>1
  <2>3. QED
    BY <2>1, <2>2 DEF h
<1>4. CASE a < h
  <2>1. a - h + SLOTS \in 0 .. SLOTS - 1 /\ h - 1 + (a - h + SLOTS) = a - 1 + SLOTS
    BY <1>1, <1>4
  <2>2. 1 + ((h - 1 + (a - h + SLOTS)) % SLOTS) = a
    BY <1>1, <1>2, <2>1
  <2>3. QED
    BY <2>1, <2>2 DEF h
<1>5. QED
  BY <1>1, <1>3, <1>4

\* A slot that is not used is found.
LEMMA SlotFound ==
    ASSUME NEW name \in Names, NEW used, \E a \in 1 .. SLOTS : a \notin used
    PROVE  slot(name, used) \in 1 .. SLOTS /\ slot(name, used) \notin used
<1> DEFINE at(d) == 1 + ((fnv1a32[name] - 1 + d) % SLOTS)
           free == {d \in 0 .. SLOTS - 1 : at(d) \notin used}
           first == CHOOSE d \in free : \A e \in free : d <= e
<1>1. SLOTS \in Nat /\ SLOTS # 0 /\ fnv1a32[name] \in 1 .. SLOTS
  <2>1. SLOTS \in Nat /\ fnv1a32[name] \in 1 .. SLOTS
    BY FileAssumption, Places
  <2>2. QED
    BY <2>1
<1>2. PICK a \in 1 .. SLOTS : a \notin used
  OBVIOUS
<1>3. PICK d \in 0 .. SLOTS - 1 : at(d) = a
  BY ProbesAll
<1>4. d \in free /\ free \in SUBSET Nat
  BY <1>1, <1>2, <1>3
<1>5. \E x \in free : \A y \in free : x <= y
  <2> HIDE DEF free
  <2>1. QED
    BY <1>4, LeastOf
<1>6. first \in free
  <2> HIDE DEF free
  <2>1. QED
    BY <1>5
<1>7. slot(name, used) = at(first)
  BY DEF slot
<1> HIDE DEF first
<1>8. first \in 0 .. SLOTS - 1 /\ at(first) \notin used
  BY <1>6
<1>9. at(first) \in 1 .. SLOTS
  <2> DEFINE x == fnv1a32[name] - 1 + first
  <2>1. x \in Nat
    BY <1>1, <1>8
  <2> HIDE DEF x
  <2>2. x % SLOTS \in 0 .. SLOTS - 1
    BY <1>1, <2>1
  <2>3. QED
    BY <1>1, <2>2 DEF x
<1>10. QED
  BY <1>7, <1>8, <1>9

\* While a name has no address, a slot is free.
LEMMA SlotFree ==
    ASSUME NEW D \in SUBSET Names, NEW x, Spread(x, D), NEW k \in Names, k \notin D
    PROVE  \E a \in 1 .. SLOTS : a \notin {x[m] : m \in DOMAIN x}
<1>1. SUFFICES ASSUME \A a \in 1 .. SLOTS : a \in {x[m] : m \in DOMAIN x} PROVE FALSE
  OBVIOUS
<1>2. /\ SLOTS \in Nat /\ Len(fnv1a32) \in Nat /\ Len(fnv1a32) <= SLOTS
      /\ Names = 1 .. Len(fnv1a32)
  BY FileAssumption, Places
<1>3. x \in [D -> 1 .. SLOTS] /\ DOMAIN x = D
  BY DEF Spread
<1>4. x \in Surjection(D, 1 .. SLOTS)
  BY <1>1, <1>3 DEF Surjection
<1>5. IsFiniteSet(Names) /\ Cardinality(Names) = Len(fnv1a32)
  <2>1. /\ IsFiniteSet(1 .. Len(fnv1a32))
        /\ Cardinality(1 .. Len(fnv1a32)) = IF 1 > Len(fnv1a32) THEN 0 ELSE Len(fnv1a32) - 1 + 1
    BY <1>2, FS_Interval
  <2>2. QED
    BY <1>2, <2>1
<1>6. Cardinality(1 .. SLOTS) = SLOTS
  <2>1. Cardinality(1 .. SLOTS) = IF 1 > SLOTS THEN 0 ELSE SLOTS - 1 + 1
    BY <1>2, FS_Interval
  <2>2. QED
    BY <1>2, <2>1
<1>7. /\ IsFiniteSet(D) /\ Cardinality(D) <= Cardinality(Names)
      /\ Cardinality(Names) = Cardinality(D) => Names = D
  BY <1>5, FS_Subset
<1>8. Cardinality(D) \in Nat
  BY <1>7, FS_CardinalityType
<1>9. Cardinality(1 .. SLOTS) <= Cardinality(D)
  BY <1>4, <1>7, FS_Surjection
<1>10. Names # D
  OBVIOUS
<1>11. QED
  BY <1>2, <1>5, <1>6, <1>7, <1>8, <1>9, <1>10

\* The next name gets its address, unless it has one.
NextAddress(names, k, x) ==
    LET used == {x[m] : m \in DOMAIN x}
    IN  IF k \in names \ DOMAIN x
          THEN [m \in DOMAIN x \cup {k} |-> IF m = k THEN slot(k, used) ELSE x[m]]
          ELSE x

\* The step for name k gives it an address that no other name has, and moves none.
LEMMA AddressNext ==
    ASSUME NEW names \in SUBSET Names, NEW K \in SUBSET names, NEW k \in Names,
           NEW x, Spread(x, K \cup {m \in names : m <= k - 1})
    PROVE  /\ Spread(NextAddress(names, k, x), K \cup {m \in names : m <= k})
           /\ \A m \in K : NextAddress(names, k, x)[m] = x[m]
<1> DEFINE D == K \cup {m \in names : m <= k - 1}
           E == K \cup {m \in names : m <= k}
           y == NextAddress(names, k, x)
<1>1. Names \subseteq Nat /\ k \in Nat
  BY FileAssumption, Places
<1>2. E = IF k \in names THEN D \cup {k} ELSE D
  <2>1. \A m \in names : m <= k <=> m <= k - 1 \/ m = k
    BY <1>1
  <2>2. QED
    BY <2>1
<1>3. D \in SUBSET Names /\ K \subseteq D /\ Spread(x, D)
  OBVIOUS
<1> HIDE DEF D, E
<1>4. DOMAIN x = D
  BY <1>3 DEF Spread
<1>5. CASE k \in names \ D
  <2> DEFINE s == slot(k, {x[m] : m \in DOMAIN x})
  <2>1. s \in 1 .. SLOTS /\ s \notin {x[m] : m \in DOMAIN x}
    BY <1>3, <1>5, SlotFree, SlotFound
  <2>2. y = [m \in D \cup {k} |-> IF m = k THEN s ELSE x[m]]
    BY <1>4, <1>5 DEF NextAddress
  <2> HIDE DEF s, y
  <2>3. E = D \cup {k}
    BY <1>2, <1>5
  <2>4. y = [m \in E |-> y[m]] /\ y[k] = s /\ \A m \in D : y[m] = x[m] /\ y[m] # s
    BY <1>4, <1>5, <2>1, <2>2, <2>3
  <2>5. Spread(y, E)
    <3>1. \A m \in D : y[m] \in 1 .. SLOTS /\ \A j \in D : y[m] = y[j] => m = j
      BY <1>3, <2>4 DEF Spread
    <3>2. \A m \in E : m = k \/ m \in D
      BY <2>3
    <3>3. \A m \in E : y[m] \in 1 .. SLOTS
      BY <2>1, <2>4, <3>1, <3>2
    <3>4. \A m, j \in E : y[m] = y[j] => m = j
      BY <2>4, <3>1, <3>2
    <3>5. QED
      BY <2>4, <3>3, <3>4, Zenon DEF Spread
  <2>6. QED
    BY <1>3, <2>4, <2>5 DEF y, E
<1>6. CASE k \notin names \ D
  <2>1. y = x /\ E = D
    BY <1>2, <1>4, <1>6 DEF NextAddress
  <2>2. QED
    BY <1>3, <2>1 DEF E
<1>7. QED
  BY <1>5, <1>6

\* The names whose address is kept.
Kept(names, existing) ==
    {n \in names \cap DOMAIN existing :
        \A m \in names \cap DOMAIN existing : m < n => existing[m] # existing[n]}

\* allocate gives every name an address of its own, the ones it keeps included.
LEMMA AllocateSpreads ==
    ASSUME NEW names \in SUBSET Names, NEW existing,
           \A m \in DOMAIN existing : existing[m] \in 1 .. SLOTS
    PROVE  /\ Spread(allocate(names, existing), names)
           /\ \A m \in Kept(names, existing) : allocate(names, existing)[m] = existing[m]
<1> DEFINE n == Len(fnv1a32)
           K == Kept(names, existing)
           a0 == [m \in K |-> existing[m]]
           Good(x, k) == /\ Spread(x, K \cup {m \in names : m <= k})
                         /\ \A m \in K : x[m] = existing[m]
           All == UNION {[D -> 1 .. SLOTS] : D \in SUBSET Names}
           X == [k \in 0 .. n |-> {x \in All : Good(x, k)}]
           step == [k \in 1 .. n |-> [x \in All |-> NextAddress(names, k, x)]]
           addresses[k \in 0 .. n] ==
               IF k = 0 THEN a0 ELSE NextAddress(names, k, addresses[k - 1])
<1>1. n \in Nat /\ Names = 1 .. n
  BY FileAssumption, Places
<1>a. \A m \in names : m \in Nat /\ m <= n /\ ~(m <= 0)
  BY <1>1
<1>2. K \in SUBSET names /\ \A m \in K : existing[m] \in 1 .. SLOTS
  BY DEF Kept
<1>3. ASSUME NEW x, NEW k \in 0 .. n, Good(x, k) PROVE x \in All
  <2> DEFINE D == K \cup {m \in names : m <= k}
  <2>1. D \in SUBSET Names
    BY <1>2
  <2>2. Spread(x, D)
    BY <1>3
  <2> HIDE DEF D
  <2>3. x \in [D -> 1 .. SLOTS]
    BY <2>2 DEF Spread
  <2>4. QED
    BY <2>1, <2>3
<1>4. Good(a0, 0)
  <2>1. K \cup {m \in names : m <= 0} = K
    BY <1>2, <1>a
  <2>2. ASSUME NEW m \in K, NEW k \in K, existing[m] = existing[k] PROVE m = k
    <3>1. m \in Nat /\ k \in Nat
      BY <1>2, <1>a
    <3>2. ~(m < k) /\ ~(k < m)
      BY <2>2 DEF Kept
    <3>3. QED
      BY <3>1, <3>2
  <2>3. a0 = [m \in K |-> a0[m]] /\ \A m \in K : a0[m] = existing[m]
    OBVIOUS
  <2> HIDE DEF a0, K
  <2>4. Spread(a0, K)
    BY <1>2, <2>2, <2>3 DEF Spread
  <2>5. QED
    BY <2>1, <2>3, <2>4
<1>5. ASSUME NEW k \in 1 .. n, NEW x, Good(x, k - 1) PROVE Good(NextAddress(names, k, x), k)
  <2>1. k \in Names
    BY <1>1
  <2> HIDE DEF K
  <2>2. QED
    BY <1>2, <1>5, <2>1, AddressNext
<1>6. allocate(names, existing) = addresses[n]
  BY DEF allocate, NextAddress, Kept
<1>7. \A x : Good(x, n) => Spread(x, names) /\ \A m \in K : x[m] = existing[m]
  <2>1. K \cup {m \in names : m <= n} = names
    BY <1>2, <1>a
  <2> HIDE DEF K
  <2>2. QED
    BY <2>1
<1> HIDE DEF n, K, a0, Good, All
<1>8. ASSUME NEW k \in 0 .. n, NEW x PROVE x \in X[k] <=> Good(x, k)
  BY <1>3
<1>9. \A k \in 1 .. n : \A x \in X[k - 1] : step[k][x] = NextAddress(names, k, x)
  BY <1>1
<1> HIDE DEF X, step
<1>10. ASSUME NEW k \in 1 .. n, NEW x \in X[k - 1] PROVE NextAddress(names, k, x) \in X[k]
  <2>1. k \in 0 .. n /\ k - 1 \in 0 .. n
    BY <1>1
  <2>2. QED
    BY <1>5, <1>8, <1>10, <2>1
<1>11. Leads(n, X, step)
  BY <1>9, <1>10 DEF Leads
<1>12. a0 \in X[0]
  BY <1>1, <1>4, <1>8
<1>13. PICK f : Runs(f, n, X, a0, step)
  BY <1>1, <1>11, <1>12, Recursion
<1>14. f = [k \in 0 .. n |-> IF k = 0 THEN a0 ELSE NextAddress(names, k, f[k - 1])]
  <2>1. ASSUME NEW k \in 0 .. n, k # 0 PROVE step[k][f[k - 1]] = NextAddress(names, k, f[k - 1])
    <3>1. k \in 1 .. n /\ k - 1 \in 0 .. n
      BY <1>1, <2>1
    <3>2. QED
      BY <1>9, <1>13, <3>1 DEF Runs
  <2>2. QED
    BY <1>13, <2>1 DEF Runs
<1>15. addresses = [k \in 0 .. n |-> IF k = 0 THEN a0 ELSE NextAddress(names, k, addresses[k - 1])]
  BY <1>14
<1> HIDE DEF addresses
<1>16. addresses[0] \in X[0]
  BY <1>1, <1>12, <1>15
<1>17. ASSUME NEW k \in 1 .. n, addresses[k - 1] \in X[k - 1] PROVE addresses[k] \in X[k]
  <2>1. addresses[k] = NextAddress(names, k, addresses[k - 1])
    BY <1>1, <1>15
  <2>2. QED
    BY <1>10, <1>17, <2>1
<1>18. addresses[n] \in X[n]
  <2>1. \A k \in 1 .. n : addresses[k - 1] \in X[k - 1] => addresses[k] \in X[k]
    BY <1>17
  <2>2. \A k \in 0 .. n : addresses[k] \in X[k]
    BY <1>1, <1>16, <2>1, Steps
  <2>3. QED
    BY <1>1, <2>2
<1>19. Good(addresses[n], n)
  BY <1>1, <1>8, <1>18
<1>20. QED
  BY <1>6, <1>7, <1>19 DEF K

-----------------------------------------------------------------------------
(* What a block had. *)

-----------------------------------------------------------------------------
(* What is read from the text, and what is written. *)

\* The kinds of lines.
LEMMA Kinds ==
    ASSUME NEW l \in Lines
    PROVE  /\ l.kind \in {"user", "alias", "begin", "end"} /\ l.off \in Tags \cup {None}
           /\ l.kind = "user" <=> l.tag = None
           /\ l.kind # "user" <=> l.tag \in Tags
           /\ l.kind \in {"user", "alias"} => l.name \in Names
           /\ l.kind = "alias" => l.ip \in 1 .. SLOTS
           /\ l.kind \in {"begin", "end"} => l.name = 0 /\ l.off = None
BY FileAssumption DEF Lines, UserLines, AliasLines, MarkerLines, Off

\* A set of numbers up to n that is not empty has a greatest element.
LEMMA GreatestOf ==
    ASSUME NEW n \in Nat, NEW T \in SUBSET (1 .. n), T # {}
    PROVE  \E x \in T : \A y \in T : y <= x
<1> DEFINE U == {n - x : x \in T}
<1>1. U \in SUBSET Nat /\ U # {}
  <2>1. PICK z \in T : TRUE
    OBVIOUS
  <2>2. n - z \in U
    OBVIOUS
  <2>3. \A x \in T : n - x \in Nat
    OBVIOUS
  <2>4. QED
    BY <2>2, <2>3
<1>2. PICK u \in U : \A v \in U : u <= v
  <2> HIDE DEF U
  <2>1. QED
    BY <1>1, LeastOf
<1>3. PICK x \in T : u = n - x
  OBVIOUS
<1>4. \A y \in T : n - x <= n - y
  BY <1>2, <1>3
<1>5. \A y \in T : y <= x
  BY <1>4
<1>6. QED
  BY <1>5

\* The address of a name is that of an entry for it.
LEMMA Existing ==
    ASSUME NEW text \in Seq(Lines), NEW t
    PROVE  \A m \in DOMAIN existing_entries(text, t) :
              \E i \in entries(text, t) :
                 text[i].name = m /\ existing_entries(text, t)[m] = text[i].ip
<1> DEFINE E == entries(text, t)
           x == existing_entries(text, t)
           last(m) == CHOOSE i \in E : /\ text[i].name = m
                                       /\ \A j \in E : text[j].name = m => j <= i
<1>1. x = [m \in {text[i].name : i \in E} |-> text[last(m)].ip]
  BY DEF existing_entries
<1>2. \A i \in E : i \in 1 .. Len(text)
  BY Places DEF entries, inside
<1> HIDE DEF E, x
<1>3. ASSUME NEW m \in {text[i].name : i \in E}
      PROVE  last(m) \in E /\ text[last(m)].name = m
  <2> DEFINE T == {i \in E : text[i].name = m}
  <2>1. T \in SUBSET (1 .. Len(text)) /\ T # {}
    BY <1>2, <1>3
  <2>2. Len(text) \in Nat
    BY Places
  <2>3. PICK g \in T : \A y \in T : y <= g
    <3> HIDE DEF T
    <3>1. QED
      BY <2>1, <2>2, GreatestOf
  <2>4. g \in E /\ text[g].name = m /\ \A j \in E : text[j].name = m => j <= g
    BY <2>3
  <2>5. QED
    BY <2>4
<1> HIDE DEF last
<1>4. DOMAIN x = {text[i].name : i \in E} /\ \A m \in DOMAIN x : x[m] = text[last(m)].ip
  BY <1>1
<1>5. QED
  BY <1>3, <1>4 DEF E, x

\* The addresses that a block has are slots.
LEMMA ExistingAddresses ==
    ASSUME NEW text \in Seq(Lines), NEW t
    PROVE  \A m \in DOMAIN existing_entries(text, t) : existing_entries(text, t)[m] \in 1 .. SLOTS
<1>1. \A i \in entries(text, t) : text[i].ip \in 1 .. SLOTS
  <2>1. \A i \in entries(text, t) : i \in 1 .. Len(text) /\ text[i].kind = "alias"
    BY Places DEF entries, inside
  <2>2. \A i \in 1 .. Len(text) : text[i] \in Lines
    BY Places
  <2>3. QED
    BY <2>1, <2>2, Kinds
<1>2. QED
  BY <1>1, Existing

\* In a well-formed text no two names have one address, so all addresses are kept.
LEMMA ExistingKept ==
    ASSUME NEW text, WellFormed(text), NEW t \in Tags, NEW names \in SUBSET Names
    PROVE  Kept(names, existing_entries(text, t)) = names \cap DOMAIN existing_entries(text, t)
<1> DEFINE x == existing_entries(text, t)
<1>1. text \in Seq(Lines) /\ Distinct(text) /\ OneBlock(text, t)
  BY DEF WellFormed
<1>2. \A i \in entries(text, t) : i \in DOMAIN text /\ text[i].kind = "alias" /\ text[i].tag = t
  <2>1. \A i \in inside(text, t) : i \in DOMAIN text /\ text[i].tag = t
    BY <1>1, BlockIs DEF block
  <2>2. QED
    BY <2>1 DEF entries
<1>3. ASSUME NEW m \in DOMAIN x, NEW k \in DOMAIN x, x[m] = x[k] PROVE m = k
  <2>1. PICK i \in entries(text, t) : text[i].name = m /\ x[m] = text[i].ip
    BY <1>1, Existing
  <2>2. PICK j \in entries(text, t) : text[j].name = k /\ x[k] = text[j].ip
    BY <1>1, Existing
  <2>3. i = j
    BY <1>1, <1>2, <1>3, <2>1, <2>2 DEF Distinct
  <2>4. QED
    BY <2>1, <2>2, <2>3
<1> HIDE DEF x
<1>4. \A m \in names : m \in Nat
  BY FileAssumption, Places
<1>5. \A m, k \in names \cap DOMAIN x : m < k => x[m] # x[k]
  BY <1>3, <1>4
<1>6. QED
  BY <1>5 DEF Kept, x

\* Removing a block leaves lines.
LEMMA RemoveTyped ==
    ASSUME NEW text \in Seq(Lines), NEW t
    PROVE  remove_block(text, t) \in Seq(Lines)
<1> DEFINE P == DOMAIN text \ block(text, t)
           e == InOrder(P, Len(text))
           left == Without(text, block(text, t))
           r == remove_block(text, t)
<1>1. Len(text) \in Nat /\ \A i \in 1 .. Len(text) : text[i] \in Lines
  BY Places
<1>2. Lists(e, {i \in 1 .. Len(text) : i \in P})
  BY <1>1, InOrderLists
<1>3. DOMAIN e = 1 .. Len(e) /\ Len(e) \in Nat /\ \A k \in 1 .. Len(e) : e[k] \in 1 .. Len(text)
  BY <1>2, Places DEF Lists
<1>4. left = [k \in DOMAIN e |-> text[e[k]]]
  BY DEF Without
<1>5. r = [k \in DOMAIN left |-> IF left[k].off = t THEN [left[k] EXCEPT !.off = None] ELSE left[k]]
  BY DEF remove_block
<1> HIDE DEF P, e, left, r
<1>6. DOMAIN left = 1 .. Len(e) /\ \A k \in 1 .. Len(e) : left[k] \in Lines
  BY <1>1, <1>3, <1>4
<1>7. \A k \in 1 .. Len(e) : r[k] = Restored(left[k], {t})
  BY <1>5, <1>6 DEF Restored
<1>8. \A k \in 1 .. Len(e) : r[k] \in Lines
  BY <1>6, <1>7, RestoredLine
<1>9. r = [k \in 1 .. Len(e) |-> r[k]]
  BY <1>5, <1>6
<1>10. r \in Seq(Lines)
  BY <1>3, <1>8, <1>9, Tabled
<1>11. QED
  BY <1>10 DEF r

-----------------------------------------------------------------------------
(* What an apply makes of a text. *)

\* The text after an apply: the base, with what is in conflict disabled, and the new block.
Disabled(base, t, names, i) ==
    IF i \in conflicts(base, names) THEN [base[i] EXCEPT !.off = t] ELSE base[i]

Merged(M, base, t, a, order) ==
    /\ M \in Seq(Lines) /\ Len(M) = Len(base) + Len(order) + 2
    /\ \A i \in 1 .. Len(base) : M[i] = Disabled(base, t, DOMAIN a, i)
    /\ M[Len(base) + 1] = Marker("begin", t)
    /\ \A k \in 1 .. Len(order) : M[Len(base) + 1 + k] = Line("alias", t, order[k], a[order[k]])
    /\ M[Len(base) + Len(order) + 2] = Marker("end", t)

\* Disabling a line leaves the rest of it.
LEMMA DisabledLine ==
    ASSUME NEW base \in Seq(Lines), NEW t \in Tags, NEW names, NEW i \in 1 .. Len(base)
    PROVE  /\ Disabled(base, t, names, i) \in Lines
           /\ Disabled(base, t, names, i).kind = base[i].kind
           /\ Disabled(base, t, names, i).tag = base[i].tag
           /\ Disabled(base, t, names, i).name = base[i].name
           /\ Disabled(base, t, names, i).ip = base[i].ip
           /\ base[i].kind \in {"begin", "end"} => Disabled(base, t, names, i) = base[i]
           /\ Disabled(base, t, names, i).off = None /\ base[i].kind \in {"user", "alias"} =>
                 base[i].name \notin names
<1>1. base[i] \in Lines /\ DOMAIN base = 1 .. Len(base)
  BY Places
<1>2. i \in conflicts(base, names) <=> /\ base[i].kind \in {"user", "alias"}
                                       /\ base[i].off = None /\ base[i].name \in names
  BY <1>1 DEF conflicts
<1>3. CASE i \in conflicts(base, names)
  <2> DEFINE l == base[i]
             m == [l EXCEPT !.off = t]
  <2>1. Disabled(base, t, names, i) = m
    BY <1>3 DEF Disabled
  <2>2. l \in Lines /\ l.kind \in {"user", "alias"}
    BY <1>1, <1>2, <1>3
  <2> HIDE DEF l
  <2>3. /\ m \in Lines /\ m.kind = l.kind /\ m.tag = l.tag /\ m.name = l.name /\ m.ip = l.ip
        /\ m.off = t
    BY <2>2 DEF Lines, UserLines, AliasLines, MarkerLines, Off
  <2>4. t # None
    BY FileAssumption
  <2> HIDE DEF m
  <2>5. QED
    BY <1>2, <2>1, <2>2, <2>3, <2>4 DEF l
<1>4. CASE i \notin conflicts(base, names)
  <2>1. Disabled(base, t, names, i) = base[i]
    BY <1>4 DEF Disabled
  <2>2. QED
    BY <1>1, <1>2, <1>4, <2>1
<1>5. QED
  BY <1>3, <1>4

\* merge_block makes such a text.
LEMMA MergeIs ==
    ASSUME NEW text \in Seq(Lines), NEW t \in Tags, NEW names \in SUBSET Names, NEW a, Spread(a, names)
    PROVE  /\ Merged(merge_block(text, t, a), remove_block(text, t), t, a,
                     InOrder(names, Len(fnv1a32)))
           /\ Lists(InOrder(names, Len(fnv1a32)), names)
<1> DEFINE base == remove_block(text, t)
           order == InOrder(names, Len(fnv1a32))
           B == [i \in DOMAIN base |->
                   IF i \in conflicts(base, DOMAIN a) THEN [base[i] EXCEPT !.off = t] ELSE base[i]]
           A == [k \in DOMAIN order |-> Line("alias", t, order[k], a[order[k]])]
           b == <<Marker("begin", t)>>
           e == <<Marker("end", t)>>
           M == merge_block(text, t, a)
<1>1. base \in Seq(Lines)
  BY RemoveTyped
<1>2. DOMAIN a = names /\ \A m \in names : a[m] \in 1 .. SLOTS
  BY DEF Spread
<1>3. M = B \o b \o A \o e
  BY <1>2 DEF merge_block
<1> HIDE DEF base, M
<1>4. Len(base) \in Nat /\ DOMAIN base = 1 .. Len(base)
  BY <1>1, Places
<1>5. B \in Seq(Lines) /\ Len(B) = Len(base) /\ \A i \in 1 .. Len(base) : B[i] = Disabled(base, t, DOMAIN a, i)
  <2>1. \A i \in 1 .. Len(base) : B[i] = Disabled(base, t, DOMAIN a, i)
    BY <1>4 DEF Disabled
  <2>2. B = [i \in 1 .. Len(base) |-> B[i]]
    BY <1>4
  <2> HIDE DEF B
  <2>3. \A i \in 1 .. Len(base) : B[i] \in Lines
    BY <1>1, <2>1, DisabledLine
  <2>4. QED
    BY <1>4, <2>1, <2>2, <2>3, Tabled
<1>6. Lists(order, names)
  <2>1. Len(fnv1a32) \in Nat /\ Names = 1 .. Len(fnv1a32)
    BY FileAssumption, Places
  <2>2. {i \in 1 .. Len(fnv1a32) : i \in names} = names
    BY <2>1
  <2>3. QED
    BY <2>1, <2>2, InOrderLists
<1> HIDE DEF order
<1>7. DOMAIN order = 1 .. Len(order) /\ Len(order) \in Nat /\ \A k \in 1 .. Len(order) : order[k] \in names
  BY <1>6, Places DEF Lists
<1>8. /\ A \in Seq(Lines) /\ Len(A) = Len(order)
      /\ \A k \in 1 .. Len(order) : A[k] = Line("alias", t, order[k], a[order[k]])
  <2>1. \A k \in 1 .. Len(order) : A[k] = Line("alias", t, order[k], a[order[k]])
    BY <1>7
  <2>2. A = [k \in 1 .. Len(order) |-> A[k]]
    BY <1>7
  <2> HIDE DEF A
  <2>3. ASSUME NEW k \in 1 .. Len(order) PROVE A[k] \in Lines
    <3>1. order[k] \in Names /\ a[order[k]] \in 1 .. SLOTS
      BY <1>2, <1>7
    <3>2. Line("alias", t, order[k], a[order[k]]) \in AliasLines
      BY <3>1 DEF Line, AliasLines, Off
    <3>3. QED
      BY <2>1, <3>2 DEF Lines
  <2>4. QED
    BY <1>7, <2>1, <2>2, <2>3, Tabled
<1>9. /\ b \in Seq(Lines) /\ Len(b) = 1 /\ b[1] = Marker("begin", t)
      /\ e \in Seq(Lines) /\ Len(e) = 1 /\ e[1] = Marker("end", t)
  <2>1. Marker("begin", t) \in Lines /\ Marker("end", t) \in Lines
    BY DEF Marker, Line, Lines, MarkerLines
  <2>2. QED
    BY <2>1
<1> HIDE DEF A, B, b, e
<1> DEFINE C == B \o b
           D == C \o A
<1>10. /\ C \in Seq(Lines) /\ Len(C) = Len(base) + 1
       /\ \A i \in 1 .. Len(base) : C[i] = B[i]
       /\ C[Len(base) + 1] = Marker("begin", t)
  <2>1. B \in Seq(Lines) /\ b \in Seq(Lines)
    BY <1>5, <1>9
  <2>2. /\ C \in Seq(Lines) /\ Len(C) = Len(B) + Len(b)
        /\ \A i \in 1 .. Len(B) : C[i] = B[i]
        /\ \A k \in 1 .. Len(b) : C[Len(B) + k] = b[k]
    BY <2>1, Joined
  <2> HIDE DEF C
  <2>3. 1 \in 1 .. Len(b)
    BY <1>9
  <2>4. QED
    BY <1>5, <1>9, <2>2, <2>3
<1>11. M = D \o e
  BY <1>3
<1> HIDE DEF C
<1>12. /\ D \in Seq(Lines) /\ Len(D) = Len(base) + 1 + Len(order)
       /\ \A i \in 1 .. Len(base) + 1 : D[i] = C[i]
       /\ \A k \in 1 .. Len(order) : D[Len(base) + 1 + k] = A[k]
  <2>1. C \in Seq(Lines) /\ A \in Seq(Lines)
    BY <1>8, <1>10
  <2>2. /\ D \in Seq(Lines) /\ Len(D) = Len(C) + Len(A)
        /\ \A i \in 1 .. Len(C) : D[i] = C[i]
        /\ \A k \in 1 .. Len(A) : D[Len(C) + k] = A[k]
    BY <2>1, Joined
  <2> HIDE DEF D
  <2>3. Len(C) = Len(base) + 1 /\ Len(A) = Len(order)
    BY <1>8, <1>10
  <2>4. QED
    BY <2>2, <2>3
<1> HIDE DEF D
<1>13. /\ M \in Seq(Lines) /\ Len(M) = Len(base) + Len(order) + 2
       /\ \A i \in 1 .. Len(base) + 1 + Len(order) : M[i] = D[i]
       /\ M[Len(base) + Len(order) + 2] = Marker("end", t)
  <2>1. D \in Seq(Lines) /\ e \in Seq(Lines)
    BY <1>9, <1>12
  <2>2. /\ M \in Seq(Lines) /\ Len(M) = Len(D) + Len(e)
        /\ \A i \in 1 .. Len(D) : M[i] = D[i]
        /\ \A k \in 1 .. Len(e) : M[Len(D) + k] = e[k]
    BY <1>11, <2>1, Joined
  <2>3. 1 \in 1 .. Len(e) /\ Len(D) = Len(base) + 1 + Len(order)
    BY <1>9, <1>12
  <2>4. Len(D) + 1 = Len(base) + Len(order) + 2
    BY <1>4, <1>7, <2>3
  <2>5. M[Len(D) + 1] = Marker("end", t)
    BY <1>9, <2>2, <2>3
  <2>6. Len(M) = Len(base) + Len(order) + 2
    BY <1>9, <2>2, <2>4
  <2>7. QED
    BY <2>2, <2>3, <2>4, <2>5, <2>6
<1>14. \A i \in 1 .. Len(base) : M[i] = Disabled(base, t, DOMAIN a, i)
  BY <1>4, <1>5, <1>7, <1>10, <1>12, <1>13
<1>15. M[Len(base) + 1] = Marker("begin", t)
  BY <1>4, <1>7, <1>10, <1>12, <1>13
<1>16. \A k \in 1 .. Len(order) : M[Len(base) + 1 + k] = Line("alias", t, order[k], a[order[k]])
  BY <1>4, <1>7, <1>8, <1>12, <1>13
<1>17. Merged(M, base, t, a, order)
  BY <1>13, <1>14, <1>15, <1>16 DEF Merged
<1>18. QED
  BY <1>6, <1>17 DEF M, base, order

\* A place of the new text is in the base, a marker or an alias.
OldPlace(M, base, t, names, i) ==
    /\ i \in 1 .. Len(base) /\ base[i] \in Lines /\ M[i] = Disabled(base, t, names, i)
    /\ M[i].kind = base[i].kind /\ M[i].tag = base[i].tag /\ M[i].name = base[i].name
    /\ M[i].ip = base[i].ip
NewPlace(M, base, t, names, a, order, i, k) ==
    /\ i = Len(base) + 1 + k /\ order[k] \in names
    /\ M[i] = Line("alias", t, order[k], a[order[k]])

\* There is no other place.
LEMMA MergedPlaces ==
    ASSUME NEW base \in Seq(Lines), NEW M, NEW t \in Tags, NEW names \in SUBSET Names,
           NEW a, Spread(a, names), NEW order, Lists(order, names), Merged(M, base, t, a, order),
           NEW i \in DOMAIN M
    PROVE  \/ OldPlace(M, base, t, names, i)
           \/ i = Len(base) + 1 /\ M[i] = Marker("begin", t)
           \/ i = Len(base) + Len(order) + 2 /\ M[i] = Marker("end", t)
           \/ \E k \in 1 .. Len(order) : NewPlace(M, base, t, names, a, order, i, k)
<1>1. DOMAIN M = 1 .. Len(base) + Len(order) + 2 /\ DOMAIN a = names
  BY Places DEF Merged, Spread
<1>2. Len(base) \in Nat /\ Len(order) \in Nat
  BY Places DEF Lists
<1>3. CASE i \in 1 .. Len(base)
  <2>1. base[i] \in Lines /\ M[i] = Disabled(base, t, names, i)
    BY <1>1, <1>3, Places DEF Merged
  <2>2. QED
    BY <1>3, <2>1, DisabledLine DEF OldPlace
<1>4. CASE i = Len(base) + 1
  BY <1>4 DEF Merged
<1>5. CASE i = Len(base) + Len(order) + 2
  BY <1>5 DEF Merged
<1>6. CASE i \notin 1 .. Len(base) /\ i # Len(base) + 1 /\ i # Len(base) + Len(order) + 2
  <2> DEFINE k == i - Len(base) - 1
  <2>1. k \in 1 .. Len(order) /\ i = Len(base) + 1 + k
    BY <1>1, <1>2, <1>6
  <2> HIDE DEF k
  <2>2. order[k] \in names
    BY <2>1 DEF Lists
  <2>3. M[i] = Line("alias", t, order[k], a[order[k]])
    BY <2>1 DEF Merged
  <2>4. QED
    BY <2>1, <2>2, <2>3 DEF NewPlace
<1>7. QED
  BY <1>3, <1>4, <1>5, <1>6

\* The lines that are active for some names.
Active(M, names) == {i \in DOMAIN M : M[i].off = None /\ M[i].name \in names}

\* The active lines for the names are aliases of the tag, one for each name.
Mapped(M, t, names, a) ==
    /\ \A i \in Active(M, names) : /\ M[i].kind = "alias" /\ M[i].tag = t
                                   /\ M[i].name \in names /\ M[i].ip = a[M[i].name]
    /\ \A n \in names : \E i \in Active(M, names) : M[i].name = n
    /\ \A i, j \in Active(M, names) : M[i].ip = M[j].ip => i = j

\* Every name of an apply is mapped by its own block alone, each to an address of its own.
LEMMA MergeMaps ==
    ASSUME NEW base \in Seq(Lines), NEW M, NEW t \in Tags, NEW names \in SUBSET Names,
           NEW a, Spread(a, names), NEW order, Lists(order, names), Merged(M, base, t, a, order)
    PROVE  Mapped(M, t, names, a)
<1> DEFINE mine == Active(M, names)
<1>1. /\ Len(base) \in Nat /\ Len(order) \in Nat /\ DOMAIN M = 1 .. Len(base) + Len(order) + 2
      /\ Names = 1 .. Len(fnv1a32) /\ Len(fnv1a32) \in Nat
  BY FileAssumption, Places DEF Merged, Lists
<1>2. 0 \notin names
  BY <1>1
<1>3. \A k : /\ Line("alias", t, k, a[k]).off = None /\ Line("alias", t, k, a[k]).name = k
             /\ Line("alias", t, k, a[k]).kind = "alias" /\ Line("alias", t, k, a[k]).tag = t
             /\ Line("alias", t, k, a[k]).ip = a[k]
  BY DEF Line
<1>4. ASSUME NEW i \in mine
      PROVE  \E k \in 1 .. Len(order) : NewPlace(M, base, t, names, a, order, i, k)
  <2>1. i \in DOMAIN M /\ M[i].off = None /\ M[i].name \in names
    BY DEF Active
  <2>2. ~OldPlace(M, base, t, names, i)
    <3>1. SUFFICES ASSUME i \in 1 .. Len(base), M[i] = Disabled(base, t, names, i) PROVE FALSE
      BY DEF OldPlace
    <3>2. M[i].name = base[i].name /\ (base[i].kind \in {"user", "alias"} => base[i].name \notin names)
      BY <2>1, <3>1, DisabledLine
    <3>3. base[i] \in Lines
      BY <3>1, Places
    <3>4. base[i].kind \in {"user", "alias"} \/ base[i].name = 0
      BY <3>3, Kinds
    <3>5. QED
      BY <1>2, <2>1, <3>2, <3>4
  <2>3. M[i] # Marker("begin", t) /\ M[i] # Marker("end", t)
    BY <1>2, <2>1 DEF Marker, Line
  <2>4. QED
    BY <2>1, <2>2, <2>3, MergedPlaces
<1>5. \A i \in mine : /\ M[i].kind = "alias" /\ M[i].tag = t
                      /\ M[i].name \in names /\ M[i].ip = a[M[i].name]
  <2>1. ASSUME NEW i \in mine
        PROVE  M[i].kind = "alias" /\ M[i].tag = t /\ M[i].name \in names /\ M[i].ip = a[M[i].name]
    BY <1>3, <1>4 DEF NewPlace
  <2>2. QED
    BY <2>1
<1>6. ASSUME NEW n \in names PROVE \E i \in mine : M[i].name = n
  <2>1. PICK k \in 1 .. Len(order) : order[k] = n
    BY DEF Lists
  <2> DEFINE i == Len(base) + 1 + k
  <2>2. i \in DOMAIN M
    BY <1>1
  <2>3. M[i] = Line("alias", t, n, a[n])
    BY <2>1 DEF Merged
  <2> HIDE DEF i
  <2>4. i \in mine /\ M[i].name = n
    BY <1>3, <2>2, <2>3 DEF Active
  <2>5. QED
    BY <2>4
<1>7. ASSUME NEW i \in mine, NEW j \in mine, M[i].ip = M[j].ip PROVE i = j
  <2>1. PICK k \in 1 .. Len(order) : /\ i = Len(base) + 1 + k /\ order[k] \in names
                                     /\ M[i] = Line("alias", t, order[k], a[order[k]])
    BY <1>4 DEF NewPlace
  <2>2. PICK m \in 1 .. Len(order) : /\ j = Len(base) + 1 + m /\ order[m] \in names
                                     /\ M[j] = Line("alias", t, order[m], a[order[m]])
    BY <1>4 DEF NewPlace
  <2>3. a[order[k]] = a[order[m]]
    BY <1>3, <1>7, <2>1, <2>2
  <2>4. order[k] = order[m]
    BY <2>1, <2>2, <2>3 DEF Spread
  <2>5. k = m
    BY <2>4, OrderOnce
  <2>6. QED
    BY <2>1, <2>2, <2>5
<1>8. QED
  BY <1>5, <1>6, <1>7 DEF Mapped

\* The new block maps a name once, and no two names to one address, as the others still do.
LEMMA MergeDistinct ==
    ASSUME NEW base \in Seq(Lines), Distinct(base), NEW M, NEW t \in Tags, NEW names \in SUBSET Names,
           NEW a, Spread(a, names), NEW order, Lists(order, names), Merged(M, base, t, a, order),
           \A i \in DOMAIN base : base[i].tag # t
    PROVE  Distinct(M)
<1> DEFINE New(i, k) == NewPlace(M, base, t, names, a, order, i, k)
           Old(i) == OldPlace(M, base, t, names, i)
<1>1. ASSUME NEW i \in DOMAIN M, M[i].kind = "alias"
      PROVE  Old(i) \/ \E k \in 1 .. Len(order) : New(i, k)
  <2>1. M[i] # Marker("begin", t) /\ M[i] # Marker("end", t)
    BY <1>1 DEF Marker, Line
  <2>2. QED
    BY <2>1, MergedPlaces
<1>2. ASSUME NEW i, NEW k, New(i, k)
      PROVE  M[i].tag = t /\ M[i].name = order[k] /\ M[i].ip = a[order[k]]
  BY <1>2 DEF Line, NewPlace
<1>3. SUFFICES ASSUME NEW i \in DOMAIN M, NEW j \in DOMAIN M, M[i].kind = "alias",
                      M[j].kind = "alias", M[i].tag = M[j].tag,
                      M[i].name = M[j].name \/ M[i].ip = M[j].ip
               PROVE  i = j
  BY DEF Distinct
<1>4. CASE Old(i) /\ Old(j)
  <2>1. DOMAIN base = 1 .. Len(base)
    BY Places
  <2>2. QED
    BY <1>3, <1>4, <2>1 DEF Distinct, OldPlace
<1>5. ASSUME NEW k \in 1 .. Len(order), NEW m \in 1 .. Len(order), New(i, k), New(j, m)
      PROVE  i = j
  <2>1. order[k] = order[m]
    <3>1. order[k] \in names /\ order[m] \in names
      BY <1>5 DEF NewPlace
    <3>2. QED
      BY <1>2, <1>3, <1>5, <3>1 DEF Spread
  <2>2. k = m
    BY <2>1, OrderOnce
  <2>3. QED
    BY <1>5, <2>2 DEF NewPlace
<1>6. ASSUME NEW k, Old(i), New(j, k) PROVE FALSE
  <2>1. i \in DOMAIN base /\ M[i].tag = base[i].tag
    BY <1>6, Places DEF OldPlace
  <2>2. QED
    BY <1>2, <1>3, <1>6, <2>1
<1>7. ASSUME NEW k, Old(j), New(i, k) PROVE FALSE
  <2>1. j \in DOMAIN base /\ M[j].tag = base[j].tag
    BY <1>7, Places DEF OldPlace
  <2>2. QED
    BY <1>2, <1>3, <1>7, <2>1
<1>8. Old(i) \/ \E k \in 1 .. Len(order) : New(i, k)
  BY <1>1, <1>3
<1>9. Old(j) \/ \E k \in 1 .. Len(order) : New(j, k)
  BY <1>1, <1>3
<1> HIDE DEF Old, New
<1>10. QED
  BY <1>4, <1>5, <1>6, <1>7, <1>8, <1>9

\* The lines of the tag are one block, and the others' blocks stay whole.
LEMMA MergeBlocks ==
    ASSUME NEW base \in Seq(Lines), NEW M, NEW t \in Tags, NEW names \in SUBSET Names,
           NEW a, Spread(a, names), NEW order, Lists(order, names), Merged(M, base, t, a, order),
           \A i \in DOMAIN base : base[i].tag # t,
           NEW u \in Tags, OneBlock(base, u)
    PROVE  OneBlock(M, u)
<1>1. /\ Len(base) \in Nat /\ Len(order) \in Nat /\ DOMAIN M = 1 .. Len(base) + Len(order) + 2
      /\ DOMAIN base = 1 .. Len(base)
  BY Places DEF Merged, Lists
<1>2. /\ Marker("begin", t).tag = t /\ Marker("end", t).tag = t
      /\ \A k : Line("alias", t, k, a[k]).tag = t /\ Line("alias", t, k, a[k]).kind = "alias"
  BY DEF Marker, Line
<1>3. \A i \in DOMAIN M : i \in DOMAIN base \/ M[i].tag = t
  <2>1. ASSUME NEW i \in DOMAIN M PROVE i \in DOMAIN base \/ M[i].tag = t
    <3>1. \/ OldPlace(M, base, t, names, i)
          \/ M[i] = Marker("begin", t) \/ M[i] = Marker("end", t)
          \/ \E k \in 1 .. Len(order) : NewPlace(M, base, t, names, a, order, i, k)
      BY MergedPlaces
    <3>2. OldPlace(M, base, t, names, i) => i \in DOMAIN base
      BY <1>1 DEF OldPlace
    <3>3. \A k : NewPlace(M, base, t, names, a, order, i, k) => M[i].tag = t
      BY <1>2 DEF NewPlace
    <3>4. QED
      BY <1>2, <3>1, <3>2, <3>3
  <2>2. QED
    BY <2>1
<1>4. \A i \in DOMAIN base : /\ i \in DOMAIN M /\ M[i].tag = base[i].tag /\ M[i].kind = base[i].kind
                             /\ base[i].kind \in {"begin", "end"} => M[i] = base[i]
  <2>1. ASSUME NEW i \in DOMAIN base
        PROVE  /\ i \in DOMAIN M /\ M[i].tag = base[i].tag /\ M[i].kind = base[i].kind
               /\ base[i].kind \in {"begin", "end"} => M[i] = base[i]
    <3>1. i \in DOMAIN M /\ i \in 1 .. Len(base)
      BY <1>1
    <3>2. M[i] = Disabled(base, t, DOMAIN a, i)
      BY <3>1 DEF Merged
    <3>3. QED
      BY <3>1, <3>2, DisabledLine
  <2>2. QED
    BY <2>1
<1>5. CASE u = t
  <2> DEFINE b == Len(base) + 1
             e == Len(base) + Len(order) + 2
  <2>1. b \in DOMAIN M /\ e \in DOMAIN M /\ b < e
    BY <1>1
  <2>2. M[b] = Marker("begin", t) /\ M[e] = Marker("end", t)
    BY DEF Merged
  <2>3. \A i \in DOMAIN M : M[i].tag = t <=> b <= i /\ i <= e
    BY <1>1, <1>3, <1>4
  <2>4. ASSUME NEW i \in DOMAIN M, b < i, i < e PROVE M[i].kind = "alias"
    <3> DEFINE k == i - Len(base) - 1
    <3>1. k \in 1 .. Len(order) /\ i = Len(base) + 1 + k
      BY <1>1, <2>4
    <3> HIDE DEF k
    <3>2. M[i] = Line("alias", t, order[k], a[order[k]])
      BY <3>1 DEF Merged
    <3>3. QED
      BY <1>2, <3>2
  <2> HIDE DEF b, e
  <2>5. BlockAt(M, t, b, e)
    BY <2>1, <2>2, <2>3, <2>4 DEF BlockAt
  <2>6. QED
    BY <1>5, <2>1, <2>5 DEF OneBlock
<1>6. CASE u # t
  <2>1. CASE \A i \in DOMAIN base : base[i].tag # u
    <3>1. \A i \in DOMAIN M : M[i].tag # u
      BY <1>3, <1>4, <1>6, <2>1
    <3>2. QED
      BY <3>1 DEF OneBlock
  <2>2. ASSUME NEW b \in DOMAIN base, NEW e \in DOMAIN base, BlockAt(base, u, b, e)
        PROVE  OneBlock(M, u)
    <3>1. /\ b < e /\ \A i \in DOMAIN base : base[i].tag = u <=> b <= i /\ i <= e
          /\ base[b] = Marker("begin", u) /\ base[e] = Marker("end", u)
          /\ \A i \in DOMAIN base : b < i /\ i < e => base[i].kind = "alias"
      BY <2>2 DEF BlockAt
    <3>2. M[b] = Marker("begin", u) /\ M[e] = Marker("end", u)
      <4>1. base[b].kind = "begin" /\ base[e].kind = "end"
        BY <3>1 DEF Marker, Line
      <4>2. QED
        BY <1>4, <3>1, <4>1
    <3>3. \A i \in DOMAIN M : i \notin DOMAIN base => ~(b <= i /\ i <= e)
      BY <1>1
    <3>4. \A i \in DOMAIN M : M[i].tag = u <=> b <= i /\ i <= e
      BY <1>3, <1>4, <1>6, <3>1, <3>3
    <3>5. \A i \in DOMAIN M : b < i /\ i < e => M[i].kind = "alias"
      BY <1>1, <1>4, <3>1
    <3>6. BlockAt(M, u, b, e)
      BY <3>1, <3>2, <3>4, <3>5 DEF BlockAt
    <3>7. QED
      BY <1>4, <3>6 DEF OneBlock
  <2>3. QED
    BY <2>1, <2>2 DEF OneBlock
<1>7. QED
  BY <1>5, <1>6

-----------------------------------------------------------------------------
(* What the user wrote. *)

\* What is added in a block, and what is disabled, is gone with the tags.
LEMMA CleanedSame ==
    ASSUME NEW x \in Seq(Lines), NEW y \in Seq(Lines), Len(x) <= Len(y),
           \A i \in 1 .. Len(x) : /\ y[i].kind = x[i].kind /\ y[i].tag = x[i].tag
                                  /\ y[i].name = x[i].name /\ y[i].ip = x[i].ip,
           \A i \in 1 .. Len(y) : i \notin 1 .. Len(x) => y[i].tag \in Tags
    PROVE  Cleaned(y, Tags) = Cleaned(x, Tags)
<1> DEFINE S == {i \in 1 .. Len(x) : x[i].tag \notin Tags}
           e == Others(x, Tags)
<1>1. Len(x) \in Nat /\ Len(y) \in Nat /\ \A i \in 1 .. Len(x) : x[i] \in Lines /\ y[i] \in Lines
  BY Places
<1>2. {i \in 1 .. Len(y) : y[i].tag \notin Tags} = S
  BY <1>1
<1>3. Lists(e, S) /\ Lists(Others(y, Tags), S)
  BY <1>2, OthersList
<1>4. Others(y, Tags) = e
  <2> HIDE DEF e, S
  <2>1. QED
    BY <1>3, ListsUnique
<1>5. \A k \in DOMAIN e : e[k] \in 1 .. Len(x)
  <2>1. e \in Seq(Nat) /\ \A k \in 1 .. Len(e) : e[k] \in S
    BY <1>3 DEF Lists
  <2> HIDE DEF e
  <2>2. DOMAIN e = 1 .. Len(e)
    BY <2>1, Places
  <2>3. QED
    BY <2>1, <2>2
<1>6. ASSUME NEW i \in 1 .. Len(x) PROVE Restored(y[i], Tags) = Restored(x[i], Tags)
  <2> DEFINE l == Restored(y[i], Tags)
             m == Restored(x[i], Tags)
  <2>1. /\ l \in Lines /\ l.kind = y[i].kind /\ l.tag = y[i].tag /\ l.name = y[i].name
        /\ l.ip = y[i].ip /\ l.off = IF y[i].off \in Tags THEN None ELSE y[i].off
    BY <1>1, RestoredLine
  <2>2. /\ m \in Lines /\ m.kind = x[i].kind /\ m.tag = x[i].tag /\ m.name = x[i].name
        /\ m.ip = x[i].ip /\ m.off = IF x[i].off \in Tags THEN None ELSE x[i].off
    BY <1>1, RestoredLine
  <2>3. y[i].off \in Tags \cup {None} /\ x[i].off \in Tags \cup {None}
    BY <1>1, Kinds
  <2> HIDE DEF l, m
  <2>4. l.off = m.off
    BY <2>1, <2>2, <2>3
  <2>5. l = m
    BY <2>1, <2>2, <2>4, SameLine
  <2>6. QED
    BY <2>5 DEF l, m
<1>7. Cleaned(y, Tags) = [k \in DOMAIN e |-> Restored(y[e[k]], Tags)]
  BY <1>4 DEF Cleaned
<1>8. Cleaned(x, Tags) = [k \in DOMAIN e |-> Restored(x[e[k]], Tags)]
  BY DEF Cleaned
<1> HIDE DEF e
<1>9. \A k \in DOMAIN e : Restored(y[e[k]], Tags) = Restored(x[e[k]], Tags)
  BY <1>5, <1>6
<1>10. QED
  BY <1>7, <1>8, <1>9

\* A line of the user at the end of the text is one of those that are left.
LEMMA CleanedAppend ==
    ASSUME NEW x \in Seq(Lines), NEW l \in Lines, l.tag = None, l.off = None
    PROVE  Cleaned(Append(x, l), Tags) = Append(Cleaned(x, Tags), l)
<1> DEFINE y == Append(x, l)
           n == Len(x) + 1
           S == {i \in 1 .. n : y[i].tag \notin Tags}
           e == Others(x, Tags)
           f == Append(e, n)
<1>0. None \notin Tags
  BY FileAssumption
<1>1. Len(x) \in Nat /\ n \in Nat /\ n # 0 /\ n - 1 = Len(x)
  BY Places
<1>2. /\ y \in Seq(Lines) /\ Len(y) = n /\ y[n] = l
      /\ \A i \in 1 .. Len(x) : y[i] = x[i]
  BY Appended
<1> HIDE DEF y
<1>3. Lists(e, {i \in 1 .. n - 1 : i \in S})
  <2>1. {i \in 1 .. n - 1 : i \in S} = {i \in 1 .. Len(x) : x[i].tag \notin Tags}
    BY <1>1, <1>2
  <2>2. QED
    BY <2>1, OthersList
<1>4. n \in S
  BY <1>0, <1>1, <1>2
<1>5. {i \in 1 .. n : i \in S} = S
  OBVIOUS
<1>6. Lists(Others(y, Tags), S)
  BY <1>2, OthersList
<1> HIDE DEF S, n
<1>7. Lists(f, S)
  <2>1. Lists(IF n \in S THEN Append(e, n) ELSE e, {i \in 1 .. n : i \in S})
    BY <1>1, <1>3, ListsNext
  <2>2. QED
    BY <1>4, <1>5, <2>1
<1>8. Others(y, Tags) = f
  <2> HIDE DEF f
  <2>1. QED
    BY <1>6, <1>7, ListsUnique
<1>9. /\ e \in Seq(Nat) /\ Len(e) \in Nat /\ DOMAIN e = 1 .. Len(e)
      /\ \A k \in 1 .. Len(e) : e[k] \in 1 .. Len(x)
  <2>1. e \in Seq(Nat) /\ \A k \in 1 .. Len(e) : e[k] \in 1 .. n - 1
    BY <1>3 DEF Lists
  <2>2. QED
    BY <1>1, <2>1, Places
<1>10. /\ f \in Seq(Nat) /\ Len(f) = Len(e) + 1 /\ DOMAIN f = 1 .. Len(e) + 1
       /\ f[Len(e) + 1] = n /\ \A k \in 1 .. Len(e) : f[k] = e[k]
  <2>1. /\ f \in Seq(Nat) /\ Len(f) = Len(e) + 1
        /\ f[Len(e) + 1] = n /\ \A k \in 1 .. Len(e) : f[k] = e[k]
    BY <1>1, <1>9, Appended
  <2> HIDE DEF f
  <2>2. QED
    BY <2>1, Places
<1> DEFINE c == Cleaned(x, Tags)
           d == Cleaned(y, Tags)
           g == Append(c, l)
<1>11. /\ c \in Seq(Lines) /\ Len(c) = Len(e)
       /\ \A k \in 1 .. Len(e) : c[k] = Restored(x[e[k]], Tags)
  BY CleanedLines
<1>12. d = [k \in 1 .. Len(e) + 1 |-> Restored(y[f[k]], Tags)]
  BY <1>8, <1>10 DEF Cleaned
<1> HIDE DEF c, d, e, f
<1>13. /\ g \in Seq(Lines) /\ Len(g) = Len(e) + 1 /\ g[Len(e) + 1] = l
       /\ \A k \in 1 .. Len(e) : g[k] = c[k]
  BY <1>11, Appended
<1> HIDE DEF g
<1>14. g = [k \in 1 .. Len(e) + 1 |-> g[k]]
  BY <1>13, Places
<1>15. ASSUME NEW k \in 1 .. Len(e) + 1 PROVE Restored(y[f[k]], Tags) = g[k]
  <2>1. CASE k = Len(e) + 1
    <3>1. Restored(l, Tags) = l
      BY <1>0 DEF Restored
    <3>2. QED
      BY <1>2, <1>10, <1>13, <2>1, <3>1
  <2>2. CASE k # Len(e) + 1
    <3>1. k \in 1 .. Len(e)
      BY <1>9, <2>2
    <3>2. f[k] = e[k] /\ y[e[k]] = x[e[k]] /\ g[k] = c[k]
      BY <1>2, <1>9, <1>10, <1>13, <3>1
    <3>3. QED
      BY <1>11, <3>1, <3>2
  <2>3. QED
    BY <2>1, <2>2
<1>16. d = g
  BY <1>12, <1>14, <1>15
<1>17. QED
  BY <1>16 DEF d, g, c, y

\* A well-formed text stays so with a line of the user.
LEMMA AppendWellFormed ==
    ASSUME NEW x, WellFormed(x), NEW l \in Lines, l.kind = "user"
    PROVE  WellFormed(Append(x, l))
<1> DEFINE y == Append(x, l)
<1>1. x \in Seq(Lines) /\ Distinct(x) /\ \A t \in Tags : OneBlock(x, t)
  BY DEF WellFormed
<1>2. /\ y \in Seq(Lines) /\ Len(y) = Len(x) + 1 /\ y[Len(x) + 1] = l
      /\ \A i \in 1 .. Len(x) : y[i] = x[i]
  BY <1>1, Appended
<1> HIDE DEF y
<1>3. Len(x) \in Nat /\ DOMAIN x = 1 .. Len(x) /\ DOMAIN y = 1 .. Len(x) + 1
  BY <1>1, <1>2, Places
<1>4. /\ \A i \in DOMAIN x : i \in DOMAIN y /\ y[i] = x[i]
      /\ \A i \in DOMAIN y : i \in DOMAIN x \/ (y[i] = l /\ i = Len(x) + 1)
  <2>1. ASSUME NEW i \in DOMAIN x PROVE i \in DOMAIN y /\ y[i] = x[i]
    <3>1. i \in 1 .. Len(x)
      BY <1>3
    <3>2. QED
      BY <1>2, <1>3, <3>1
  <2>2. ASSUME NEW i \in DOMAIN y, i \notin DOMAIN x PROVE y[i] = l /\ i = Len(x) + 1
    <3>1. i \in 1 .. Len(x) + 1 /\ i \notin 1 .. Len(x)
      BY <1>3, <2>2
    <3>2. i = Len(x) + 1
      BY <1>3, <3>1
    <3>3. QED
      BY <1>2, <3>2
  <2>3. QED
    BY <2>1, <2>2
<1>5. l.kind # "alias" /\ l.tag \notin Tags
  <2>1. l.tag = None
    BY Kinds
  <2>2. QED
    BY <2>1, FileAssumption
<1>6. Distinct(y)
  BY <1>1, <1>4, <1>5 DEF Distinct
<1>7. ASSUME NEW t \in Tags PROVE OneBlock(y, t)
  <2>1. OneBlock(x, t)
    BY <1>1
  <2>2. CASE \A i \in DOMAIN x : x[i].tag # t
    BY <1>4, <1>5, <2>2 DEF OneBlock
  <2>3. ASSUME NEW b \in DOMAIN x, NEW e \in DOMAIN x, BlockAt(x, t, b, e) PROVE OneBlock(y, t)
    <3>1. /\ b < e /\ \A i \in DOMAIN x : x[i].tag = t <=> b <= i /\ i <= e
          /\ x[b] = Marker("begin", t) /\ x[e] = Marker("end", t)
          /\ \A i \in DOMAIN x : b < i /\ i < e => x[i].kind = "alias"
      BY <2>3 DEF BlockAt
    <3>2. \A i \in DOMAIN y : i \notin DOMAIN x => ~(i <= e)
      BY <1>3
    <3>3. \A i \in DOMAIN y : y[i].tag = t <=> b <= i /\ i <= e
      BY <1>4, <1>5, <3>1, <3>2
    <3>4. \A i \in DOMAIN y : b < i /\ i < e => y[i].kind = "alias"
      BY <1>3, <1>4, <3>1
    <3>5. BlockAt(y, t, b, e)
      BY <1>4, <3>1, <3>3, <3>4 DEF BlockAt
    <3>6. QED
      BY <1>4, <3>5 DEF OneBlock
  <2>4. QED
    BY <2>1, <2>2, <2>3 DEF OneBlock
<1>8. QED
  BY <1>2, <1>6, <1>7 DEF WellFormed, y

-----------------------------------------------------------------------------
(* What a command writes. *)

\* The addresses and the order of the names in the block that a command writes.
Addresses(c) == allocate(c.names, existing_entries(c.text, c.tag))
Order(c) == InOrder(c.names, Len(fnv1a32))

\* What an apply writes.
LEMMA AfterApply ==
    ASSUME NEW c \in Working, c.action = "apply"
    PROVE  /\ Spread(Addresses(c), c.names)
           /\ \A m \in Kept(c.names, existing_entries(c.text, c.tag)) :
                 Addresses(c)[m] = existing_entries(c.text, c.tag)[m]
           /\ Lists(Order(c), c.names)
           /\ Merged(After(c), remove_block(c.text, c.tag), c.tag, Addresses(c), Order(c))
<1>1. c.tag \in Tags /\ c.names \in SUBSET Names /\ c.text \in Seq(Lines)
  BY DEF Working
<1>2. /\ Spread(Addresses(c), c.names)
      /\ \A m \in Kept(c.names, existing_entries(c.text, c.tag)) :
            Addresses(c)[m] = existing_entries(c.text, c.tag)[m]
  BY <1>1, ExistingAddresses, AllocateSpreads DEF Addresses
<1>3. /\ Merged(merge_block(c.text, c.tag, Addresses(c)), remove_block(c.text, c.tag), c.tag,
                Addresses(c), Order(c))
      /\ Lists(Order(c), c.names)
  BY <1>1, <1>2, MergeIs DEF Order
<1>4. After(c) = merge_block(c.text, c.tag, Addresses(c))
  BY DEF After, Addresses
<1>5. QED
  BY <1>2, <1>3, <1>4

\* What a command writes are lines.
LEMMA AfterTyped ==
    ASSUME NEW c \in Working
    PROVE  After(c) \in Seq(Lines)
<1>1. c.action \in {"apply", "remove"} /\ c.text \in Seq(Lines)
  BY DEF Working
<1>2. CASE c.action = "remove"
  BY <1>1, <1>2, RemoveTyped DEF After
<1>3. CASE c.action = "apply"
  BY <1>3, AfterApply DEF Merged
<1>4. QED
  BY <1>1, <1>2, <1>3

\* A text without the lines of a tag has none, and is well-formed as before.
LEMMA RemoveKeeps ==
    ASSUME NEW text, WellFormed(text), NEW t \in Tags
    PROVE  /\ WellFormed(remove_block(text, t))
           /\ \A i \in DOMAIN remove_block(text, t) : remove_block(text, t)[i].tag # t
           /\ Cleaned(remove_block(text, t), Tags) = Cleaned(text, Tags)
<1>1. text \in Seq(Lines) /\ OneBlock(text, t)
  BY DEF WellFormed
<1>2. remove_block(text, t) = Cleaned(text, {t})
  BY <1>1, RemoveIs
<1>3. WellFormed(Cleaned(text, {t}))
  BY CleanedWellFormed
<1>4. \A i \in DOMAIN Cleaned(text, {t}) : Cleaned(text, {t})[i].tag # t
  <2>1. /\ Cleaned(text, {t}) \in Seq(Lines)
        /\ \A i \in 1 .. Len(Cleaned(text, {t})) :
              /\ text[Others(text, {t})[i]].tag \notin {t}
              /\ Cleaned(text, {t})[i].tag = text[Others(text, {t})[i]].tag
    BY <1>1, CleanedLines
  <2>2. DOMAIN Cleaned(text, {t}) = 1 .. Len(Cleaned(text, {t}))
    BY <2>1, Places
  <2>3. QED
    BY <2>1, <2>2
<1>5. Cleaned(Cleaned(text, {t}), Tags) = Cleaned(text, Tags)
  <2>1. {t} \cup Tags = Tags
    OBVIOUS
  <2>2. QED
    BY <1>1, <2>1, CleanedTwice
<1>6. QED
  BY <1>2, <1>3, <1>4, <1>5

\* What a command makes of a well-formed text is well-formed, and has the same lines of
\* the user.
LEMMA AfterKeeps ==
    ASSUME NEW c \in Working, WellFormed(c.text)
    PROVE  WellFormed(After(c)) /\ Cleaned(After(c), Tags) = Cleaned(c.text, Tags)
<1> DEFINE base == remove_block(c.text, c.tag)
<1>1. c.action \in {"apply", "remove"} /\ c.tag \in Tags /\ c.names \in SUBSET Names
  BY DEF Working
<1>2. /\ WellFormed(base) /\ Cleaned(base, Tags) = Cleaned(c.text, Tags)
      /\ \A i \in DOMAIN base : base[i].tag # c.tag
  BY <1>1, RemoveKeeps
<1>3. CASE c.action = "remove"
  BY <1>2, <1>3 DEF After
<1>4. CASE c.action = "apply"
  <2> DEFINE M == After(c)
             a == Addresses(c)
             order == Order(c)
             t == c.tag
             names == c.names
  <2>1. Spread(a, names) /\ Lists(order, names) /\ Merged(M, base, t, a, order)
    BY <1>4, AfterApply
  <2>2. base \in Seq(Lines) /\ Distinct(base) /\ \A u \in Tags : OneBlock(base, u)
    BY <1>2 DEF WellFormed
  <2>3. M \in Seq(Lines) /\ Len(M) = Len(base) + Len(order) + 2
    BY <2>1 DEF Merged
  <2>4. order \in Seq(Nat)
    BY <2>1 DEF Lists
  <2> HIDE DEF M, a, order, base
  <2>5. Len(order) \in Nat /\ Len(base) \in Nat /\ Len(M) \in Nat /\ DOMAIN M = 1 .. Len(M)
    BY <2>2, <2>3, <2>4, Places
  <2>6. Distinct(M)
    BY <1>1, <1>2, <2>1, <2>2, MergeDistinct
  <2>7. \A u \in Tags : OneBlock(M, u)
    BY <1>1, <1>2, <2>1, <2>2, MergeBlocks
  <2>8. WellFormed(M)
    BY <2>3, <2>6, <2>7 DEF WellFormed
  <2>9. \A i \in DOMAIN M :
           \/ OldPlace(M, base, t, names, i)
           \/ i = Len(base) + 1 /\ M[i] = Marker("begin", t)
           \/ i = Len(base) + Len(order) + 2 /\ M[i] = Marker("end", t)
           \/ \E k \in 1 .. Len(order) : NewPlace(M, base, t, names, a, order, i, k)
    BY <1>1, <2>1, <2>2, MergedPlaces
  <2>10. ASSUME NEW i \in 1 .. Len(base)
         PROVE  /\ M[i].kind = base[i].kind /\ M[i].tag = base[i].tag
                /\ M[i].name = base[i].name /\ M[i].ip = base[i].ip
    <3>1. i \in DOMAIN M
      BY <2>3, <2>5
    <3>2. i # Len(base) + 1 /\ i # Len(base) + Len(order) + 2
      BY <2>5
    <3>3. \A k \in 1 .. Len(order) : i # Len(base) + 1 + k
      BY <2>5
    <3>4. OldPlace(M, base, t, names, i)
      BY <2>9, <3>1, <3>2, <3>3 DEF NewPlace
    <3>5. QED
      BY <3>4 DEF OldPlace
  <2>11. ASSUME NEW i \in 1 .. Len(M), i \notin 1 .. Len(base) PROVE M[i].tag \in Tags
    <3>1. i \in DOMAIN M /\ ~OldPlace(M, base, t, names, i)
      BY <2>5, <2>11 DEF OldPlace
    <3>2. \/ M[i] = Marker("begin", t) \/ M[i] = Marker("end", t)
          \/ \E k \in 1 .. Len(order) : M[i] = Line("alias", t, order[k], a[order[k]])
      BY <2>9, <3>1 DEF NewPlace
    <3>3. /\ Marker("begin", t).tag = t /\ Marker("end", t).tag = t
          /\ \A k \in 1 .. Len(order) : Line("alias", t, order[k], a[order[k]]).tag = t
      BY DEF Marker, Line
    <3>4. M[i].tag = t
      BY <3>2, <3>3
    <3>5. QED
      BY <1>1, <3>4
  <2>12. Len(base) <= Len(M)
    BY <2>3, <2>5
  <2>13. Cleaned(M, Tags) = Cleaned(base, Tags)
    BY <2>2, <2>3, <2>10, <2>11, <2>12, CleanedSame
  <2>14. QED
    BY <1>2, <2>8, <2>13 DEF M
<1>5. QED
  BY <1>1, <1>3, <1>4

\* The empty file.
LEMMA EmptyFile == WellFormed(<<>>) /\ Cleaned(<<>>, Tags) = <<>>
<1>1. <<>> \in Seq(Lines) /\ Len(<<>>) = 0 /\ DOMAIN <<>> = {}
  OBVIOUS
<1>2. WellFormed(<<>>)
  BY <1>1 DEF WellFormed, Distinct, OneBlock
<1> DEFINE c == Cleaned(<<>>, Tags)
<1>3. /\ c \in Seq(Lines) /\ Len(c) \in Nat
      /\ \A k \in 1 .. Len(c) : Others(<<>>, Tags)[k] \in 1 .. Len(<<>>)
  BY <1>1, CleanedLines
<1> HIDE DEF c
<1>4. Len(c) = 0
  BY <1>1, <1>3
<1>5. c = <<>>
  BY <1>3, <1>4, EmptySeq
<1>6. QED
  BY <1>2, <1>5 DEF c

-----------------------------------------------------------------------------
(* The steps. *)

\* What a command holds.
LEMMA AtWork ==
    ASSUME FileTypes, NEW p \in Procs, cmd[p] # Done
    PROVE  cmd[p] \in Working
BY DEF FileTypes

\* Done is no command at work, and its text is well-formed.
LEMMA NotAtWork == Done.action = "remove" /\ Done.text = <<>> /\ Done \notin Working
BY DEF Done, Working

\* The file and the commands are well-formed at first.
LEMMA FileFirst == FileInit => FileInv
<1> SUFFICES ASSUME FileInit PROVE FileInv
  OBVIOUS
<1>1. /\ file = <<>> /\ user = <<>> /\ unsafe = FALSE
      /\ DOMAIN cmd = Procs /\ \A p \in Procs : cmd[p] = Done
  BY DEF FileInit
<1>2. <<>> \in Seq(Lines) /\ <<>> \in Seq(UserLines)
  OBVIOUS
<1>3. FileTypes
  BY <1>1, <1>2 DEF FileTypes
<1>4. \A p \in Procs : cmd[p].text = <<>>
  BY <1>1, NotAtWork
<1>5. QED
  BY <1>1, <1>3, <1>4, EmptyFile DEF FileInv

\* A command becomes done.
LEMMA DoneKeeps ==
    ASSUME FileInv, NEW q \in Procs, cmd' = [cmd EXCEPT ![q] = Done]
    PROVE  /\ DOMAIN cmd' = Procs /\ \A p \in Procs : cmd'[p] = Done \/ cmd'[p] \in Working
           /\ ~unsafe => \A p \in Procs : WellFormed(cmd'[p].text)
<1>1. DOMAIN cmd = Procs /\ \A p \in Procs : cmd[p] = Done \/ cmd[p] \in Working
  BY DEF FileInv, FileTypes
<1>2. ~unsafe => \A p \in Procs : WellFormed(cmd[p].text)
  BY DEF FileInv
<1>3. DOMAIN cmd' = Procs /\ \A p \in Procs : cmd'[p] = IF p = q THEN Done ELSE cmd[p]
  BY <1>1
<1>4. WellFormed(Done.text)
  BY EmptyFile, NotAtWork
<1>5. QED
  BY <1>1, <1>2, <1>3, <1>4

\* read: the text is the file.
LEMMA ReadKeeps ==
    ASSUME FileInv, NEW q \in Procs, NEW action \in {"apply", "remove"}, NEW t \in Tags,
           NEW names \in SUBSET Names, NEW r \in BOOLEAN, read(q, action, t, names, r)
    PROVE  FileInv'
<1> DEFINE c == [pc |-> "loading", action |-> action, tag |-> t, names |-> names,
                 replace |-> r, text |-> file]
<1>1. /\ FileTypes /\ file \in Seq(Lines) /\ DOMAIN cmd = Procs
      /\ \A p \in Procs : cmd[p] = Done \/ cmd[p] \in Working
  BY DEF FileInv, FileTypes
<1>2. ~unsafe => /\ WellFormed(file) /\ Cleaned(file, Tags) = user
                 /\ \A p \in Procs : WellFormed(cmd[p].text)
  BY DEF FileInv
<1>3. file' = file /\ user' = user /\ unsafe' = unsafe /\ cmd' = [cmd EXCEPT ![q] = c]
  BY DEF read
<1>4. c \in Working /\ c.text = file
  BY <1>1 DEF Working
<1> HIDE DEF c
<1>5. DOMAIN cmd' = Procs /\ \A p \in Procs : cmd'[p] = IF p = q THEN c ELSE cmd[p]
  BY <1>1, <1>3
<1>6. FileTypes'
  BY <1>1, <1>3, <1>4, <1>5 DEF FileTypes
<1>7. ~unsafe => \A p \in Procs : WellFormed(cmd'[p].text)
  BY <1>2, <1>4, <1>5
<1>8. ~unsafe => WellFormed(file') /\ Cleaned(file', Tags) = user'
  BY <1>2, <1>3
<1>9. QED
  BY <1>3, <1>6, <1>7, <1>8 DEF FileInv, WellFormed, Distinct, OneBlock, BlockAt, Cleaned, Others

\* write_hosts: the text that was read is the file, or the write is unsafe.
LEMMA WriteKeeps ==
    ASSUME FileInv, NEW q \in Procs, write_hosts(q)
    PROVE  FileInv'
<1> DEFINE c == cmd[q]
<1>1. FileTypes /\ user \in Seq(UserLines) /\ unsafe \in BOOLEAN
  BY DEF FileInv, FileTypes
<1>2. ~unsafe => /\ WellFormed(file) /\ Cleaned(file, Tags) = user
                 /\ \A p \in Procs : WellFormed(cmd[p].text)
  BY DEF FileInv
<1>3. /\ c # Done /\ cmd' = [cmd EXCEPT ![q] = Done] /\ user' = user
      /\ file' = After(c) /\ unsafe' = (unsafe \/ file # c.text)
  BY DEF write_hosts, Writes
<1>4. c \in Working
  BY <1>1, <1>3, AtWork
<1>5. file' \in Seq(Lines)
  BY <1>3, <1>4, AfterTyped
<1>6. /\ DOMAIN cmd' = Procs /\ \A p \in Procs : cmd'[p] = Done \/ cmd'[p] \in Working
      /\ ~unsafe => \A p \in Procs : WellFormed(cmd'[p].text)
  BY <1>3, DoneKeeps
<1>7. FileTypes'
  BY <1>1, <1>3, <1>5, <1>6 DEF FileTypes
<1>8. ASSUME ~unsafe' PROVE WellFormed(file') /\ Cleaned(file', Tags) = user'
  <2>1. ~unsafe /\ file = c.text
    BY <1>1, <1>3, <1>8
  <2>2. WellFormed(c.text) /\ Cleaned(c.text, Tags) = user
    BY <1>2, <2>1
  <2>3. QED
    BY <1>3, <1>4, <2>2, AfterKeeps
<1>9. ~unsafe' => ~unsafe
  BY <1>1, <1>3
<1>10. QED
  BY <1>6, <1>7, <1>8, <1>9 DEF FileInv

\* write_cut leaves lines, and nothing else is promised after it.
LEMMA CutKeeps ==
    ASSUME FileInv, NEW q \in Procs, write_cut(q)
    PROVE  FileInv'
<1> DEFINE s == After(cmd[q])
<1>1. FileTypes /\ user \in Seq(UserLines)
  BY DEF FileInv, FileTypes
<1>2. cmd[q] # Done /\ cmd' = [cmd EXCEPT ![q] = Done] /\ user' = user /\ unsafe' = TRUE
  BY DEF write_cut, Writes
<1>3. PICK n \in 0 .. Len(s) - 1 : file' = SubSeq(s, 1, n)
  BY DEF write_cut
<1>4. s \in Seq(Lines)
  BY <1>1, <1>2, AtWork, AfterTyped
<1> HIDE DEF s
<1>5. file' \in Seq(Lines)
  <2>1. Len(s) \in Nat /\ \A i \in 1 .. n : s[i] \in Lines
    BY <1>4, Places
  <2>2. QED
    BY <1>3, <1>4, <2>1, SubSeqProperties
<1>6. DOMAIN cmd' = Procs /\ \A p \in Procs : cmd'[p] = Done \/ cmd'[p] \in Working
  BY <1>2, DoneKeeps
<1>7. QED
  BY <1>1, <1>2, <1>5, <1>6 DEF FileInv, FileTypes

\* ends: the command is done.
LEMMA EndsKeeps ==
    ASSUME FileInv, NEW q \in Procs, ends(q)
    PROVE  FileInv'
<1>1. /\ FileTypes /\ file \in Seq(Lines) /\ user \in Seq(UserLines) /\ unsafe \in BOOLEAN
      /\ ~unsafe => WellFormed(file) /\ Cleaned(file, Tags) = user
  BY DEF FileInv, FileTypes
<1>2. cmd' = [cmd EXCEPT ![q] = Done] /\ file' = file /\ user' = user /\ unsafe' = unsafe
  BY DEF ends
<1>3. /\ DOMAIN cmd' = Procs /\ \A p \in Procs : cmd'[p] = Done \/ cmd'[p] \in Working
      /\ ~unsafe => \A p \in Procs : WellFormed(cmd'[p].text)
  BY <1>2, DoneKeeps
<1>4. FileTypes'
  BY <1>1, <1>2, <1>3 DEF FileTypes
<1>5. ~unsafe => WellFormed(file') /\ Cleaned(file', Tags) = user'
  BY <1>1, <1>2
<1>6. QED
  BY <1>2, <1>3, <1>4, <1>5 DEF FileInv

\* edit: the line is one more of the user's, in the file and in what is left of it.
LEMMA EditKeeps ==
    ASSUME FileInv, NEW name \in Names, edit(name)
    PROVE  FileInv'
<1> DEFINE l == Line("user", None, name, Own)
<1>1. /\ file \in Seq(Lines) /\ user \in Seq(UserLines) /\ unsafe \in BOOLEAN
      /\ DOMAIN cmd = Procs /\ \A p \in Procs : cmd[p] = Done \/ cmd[p] \in Working
      /\ ~unsafe => /\ WellFormed(file) /\ Cleaned(file, Tags) = user
                    /\ \A p \in Procs : WellFormed(cmd[p].text)
  BY DEF FileInv, FileTypes
<1>2. file' = Append(file, l) /\ user' = Append(user, l) /\ cmd' = cmd /\ unsafe' = unsafe
  BY DEF edit
<1>3. l \in UserLines /\ l \in Lines /\ l.kind = "user" /\ l.tag = None /\ l.off = None
  BY DEF Line, Lines, UserLines, Off
<1> HIDE DEF l
<1>4. Append(file, l) \in Seq(Lines) /\ Append(user, l) \in Seq(UserLines)
  BY <1>1, <1>3, Appended
<1>5. FileTypes'
  BY <1>1, <1>2, <1>4 DEF FileTypes
<1>6. ~unsafe => WellFormed(Append(file, l)) /\ Cleaned(Append(file, l), Tags) = Append(user, l)
  BY <1>1, <1>3, AppendWellFormed, CleanedAppend
<1>7. QED
  BY <1>1, <1>2, <1>5, <1>6 DEF FileInv

\* hosts.rs: however the commands and the editor overlap, the file and what a command has
\* read are lines of the user, aliases and markers; and as long as no write was cut off and
\* none started from a file that has changed since, they hold one whole block for each tag
\* that is applied, with each name once and each address once, and without the blocks the
\* file is the user's lines, all active.
THEOREM FileInductive == FileSpec => []FileInv
<1>1. FileInit => FileInv
  BY FileFirst
<1>2. FileInv /\ [FileNext]_fileVars => FileInv'
  <2> SUFFICES ASSUME FileInv, [FileNext]_fileVars PROVE FileInv'
    OBVIOUS
  <2>1. ASSUME NEW p \in Procs, run_hosts(p) PROVE FileInv'
    <3>1. ASSUME NEW tag \in Tags, read(p, "remove", tag, {}, FALSE) PROVE FileInv'
      BY <3>1, ReadKeeps
    <3>2. ASSUME NEW tag \in Tags, NEW names \in SUBSET Names, NEW r \in BOOLEAN,
                 read(p, "apply", tag, names, r)
          PROVE  FileInv'
      BY <3>2, ReadKeeps
    <3>3. QED
      BY <2>1, <3>1, <3>2, WriteKeeps, CutKeeps, EndsKeeps DEF run_hosts
  <2>2. ASSUME NEW name \in Names, edit(name) PROVE FileInv'
    BY <2>2, EditKeeps
  <2>3. CASE UNCHANGED fileVars
    <3>1. file' = file /\ user' = user /\ cmd' = cmd /\ unsafe' = unsafe
      BY <2>3 DEF fileVars
    <3>2. QED
      BY <3>1 DEF FileInv, FileTypes
  <2>4. QED
    BY <2>1, <2>2, <2>3 DEF FileNext
<1>3. QED
  BY <1>1, <1>2, PTL DEF FileSpec

-----------------------------------------------------------------------------
(* Removing all tags. *)

\* R[k] is what is left of the text without the first k tags of the order.
Removes(R, text, order, n) ==
    R = [k \in 0 .. n |-> IF k = 0 THEN text ELSE remove_block(R[k - 1], order[k])]

\* Removing tags one after the other leaves what removing them all at once does.
LEMMA RemovedAll ==
    ASSUME NEW text, WellFormed(text), NEW n \in Nat, NEW order \in [1 .. n -> Tags],
           NEW R, Removes(R, text, order, n)
    PROVE  R[n] = Cleaned(text, {order[k] : k \in 1 .. n})
<1> DEFINE T(k) == {order[j] : j \in 1 .. k}
           X == [k \in 0 .. n |-> {Cleaned(text, T(k))}]
<1>0. R = [k \in 0 .. n |-> IF k = 0 THEN text ELSE remove_block(R[k - 1], order[k])]
  BY DEF Removes
<1>1. text \in Seq(Lines)
  BY DEF WellFormed
<1>2. R[0] \in X[0]
  <2>1. T(0) = {} /\ 0 \in 0 .. n
    OBVIOUS
  <2>2. R[0] = text
    BY <1>0, <2>1
  <2>3. Cleaned(text, {}) = text
    BY <1>1, CleanedNone
  <2>4. Cleaned(text, T(0)) = text
    BY <2>1, <2>3
  <2>5. X[0] = {Cleaned(text, T(0))}
    BY <2>1
  <2>6. QED
    BY <2>2, <2>4, <2>5
<1>3. ASSUME NEW k \in 1 .. n, R[k - 1] \in X[k - 1] PROVE R[k] \in X[k]
  <2>1. k \in 0 .. n /\ k - 1 \in 0 .. n /\ k # 0 /\ order[k] \in Tags
    OBVIOUS
  <2>2. X[k] = {Cleaned(text, T(k))} /\ X[k - 1] = {Cleaned(text, T(k - 1))}
    BY <2>1
  <2>3. R[k] = remove_block(R[k - 1], order[k])
    BY <1>0, <2>1
  <2>4. R[k - 1] = Cleaned(text, T(k - 1))
    BY <1>3, <2>2
  <2>5. T(k) = T(k - 1) \cup {order[k]}
    BY <2>1
  <2> HIDE DEF T, X
  <2>6. WellFormed(R[k - 1])
    BY <2>4, CleanedWellFormed
  <2>7. remove_block(R[k - 1], order[k]) = Cleaned(R[k - 1], {order[k]})
    BY <2>1, <2>6, RemoveIs DEF WellFormed
  <2>8. Cleaned(R[k - 1], {order[k]}) = Cleaned(text, T(k))
    BY <1>1, <2>4, <2>5, CleanedTwice
  <2>9. QED
    BY <2>2, <2>3, <2>7, <2>8
<1>4. \A k \in 0 .. n : R[k] \in X[k]
  <2> HIDE DEF X
  <2>1. QED
    BY <1>2, <1>3, Steps
<1>5. n \in 0 .. n /\ X[n] = {Cleaned(text, T(n))}
  OBVIOUS
<1>6. QED
  BY <1>4, <1>5

\* The recursive function of the removals is defined.
LEMMA RemovedRuns ==
    ASSUME NEW text \in Seq(Lines), NEW n \in Nat, NEW order \in [1 .. n -> Tags]
    PROVE  LET R[k \in 0 .. n] == IF k = 0 THEN text ELSE remove_block(R[k - 1], order[k])
           IN  Removes(R, text, order, n)
<1> DEFINE R[k \in 0 .. n] == IF k = 0 THEN text ELSE remove_block(R[k - 1], order[k])
           X == [k \in 0 .. n |-> Seq(Lines)]
           step == [k \in 1 .. n |-> [x \in Seq(Lines) |-> remove_block(x, order[k])]]
<1>1. text \in X[0]
  OBVIOUS
<1>2. ASSUME NEW k \in 1 .. n, NEW x \in X[k - 1]
      PROVE  step[k][x] \in X[k] /\ step[k][x] = remove_block(x, order[k])
  <2>1. k \in 0 .. n /\ k - 1 \in 0 .. n
    OBVIOUS
  <2>2. x \in Seq(Lines) /\ X[k] = Seq(Lines)
    BY <2>1
  <2>3. step[k][x] = remove_block(x, order[k])
    BY <2>2
  <2>4. QED
    BY <2>2, <2>3, RemoveTyped
<1> HIDE DEF X, step
<1>3. Leads(n, X, step)
  BY <1>2 DEF Leads
<1>4. PICK f : Runs(f, n, X, text, step)
  BY <1>1, <1>3, Recursion
<1>5. f = [k \in 0 .. n |-> IF k = 0 THEN text ELSE remove_block(f[k - 1], order[k])]
  <2>1. /\ f = [k \in 0 .. n |-> IF k = 0 THEN text ELSE step[k][f[k - 1]]]
        /\ \A k \in 0 .. n : f[k] \in X[k]
    BY <1>4 DEF Runs
  <2>2. \A k \in 0 .. n : k # 0 => step[k][f[k - 1]] = remove_block(f[k - 1], order[k])
    <3>1. \A k \in 0 .. n : k # 0 => k \in 1 .. n /\ k - 1 \in 0 .. n
      OBVIOUS
    <3>2. QED
      BY <1>2, <2>1, <3>1
  <2>3. \A k \in 0 .. n : (IF k = 0 THEN text ELSE step[k][f[k - 1]])
                          = IF k = 0 THEN text ELSE remove_block(f[k - 1], order[k])
    BY <2>2
  <2>4. QED
    BY <2>1, <2>3
<1>6. QED
  BY <1>5, Zenon DEF Removes

-----------------------------------------------------------------------------
(* The theorems. *)

\* The lines of the user are in the file once, and come back.
LEMMA FileKeepsUser == FileInv => UserLinesKept
<1> SUFFICES ASSUME FileInv PROVE UserLinesKept
  OBVIOUS
<1> DEFINE n == Cardinality(Tags)
           Users == {i \in DOMAIN file : file[i].kind = "user"}
           Removed(order) ==
               LET R[k \in 0 .. n] == IF k = 0 THEN file ELSE remove_block(R[k - 1], order[k])
               IN  R
<1>1. n \in Nat
  BY FileAssumption, FS_CardinalityType
<1>2. CASE unsafe
  BY <1>2 DEF UserLinesKept
<1>3. CASE ~unsafe
  <2>1. file \in Seq(Lines) /\ WellFormed(file) /\ Cleaned(file, Tags) = user
    BY <1>3 DEF FileInv, FileTypes
  <2>2. Len(InOrder(Users, Len(file))) = Len(user)
    <3>1. DOMAIN file = 1 .. Len(file) /\ \A i \in 1 .. Len(file) : file[i] \in Lines
      BY <2>1, Places
    <3>2. \A i \in DOMAIN file : file[i].kind = "user" <=> file[i].tag \notin Tags
      BY <3>1, Kinds
    <3>3. Users = {i \in DOMAIN file : file[i].tag \notin Tags}
      BY <3>2
    <3>4. InOrder(Users, Len(file)) = Others(file, Tags)
      BY <3>3 DEF Others
    <3>5. Len(Others(file, Tags)) = Len(Cleaned(file, Tags))
      BY <2>1, CleanedLines
    <3>6. QED
      BY <2>1, <3>4, <3>5
  <2>3. ASSUME NEW order \in [1 .. n -> Tags], Tags = {order[k] : k \in 1 .. n}
        PROVE  Removed(order)[n] = user
    <3> DEFINE R == Removed(order)
    <3> HIDE DEF n
    <3>1. Removes(R, file, order, n)
      BY <1>1, <2>1, RemovedRuns
    <3> HIDE DEF R
    <3>2. R[n] = Cleaned(file, {order[k] : k \in 1 .. n})
      BY <1>1, <2>1, <3>1, RemovedAll
    <3>3. R[n] = user
      BY <2>1, <2>3, <3>2
    <3>4. QED
      BY <3>3 DEF R
  <2>4. QED
    BY <2>2, <2>3 DEF UserLinesKept
<1>4. QED
  BY <1>2, <1>3

\* hosts.rs, remove_block and merge_block: whichever tags were applied, in whichever order,
\* removing them all, in whichever order, leaves the user's lines, in their order and all
\* active, unless a write was cut off or undid a change.
THEOREM UserLinesComeBack == FileSpec => []UserLinesKept
<1>1. FileInv => UserLinesKept
  BY FileKeepsUser
<1>2. QED
  BY <1>1, FileInductive, PTL

\* A step that writes what an apply made of the text.
LEMMA ApplyStep ==
    ASSUME FileInv, NEW p \in Procs, cmd[p].action = "apply", NEW M, M = After(cmd[p]),
           NEW mine, mine = Active(M, cmd[p].names),
           NEW before, before = existing_entries(cmd[p].text, cmd[p].tag)
    PROVE  /\ \A i \in mine : M[i].kind = "alias" /\ M[i].tag = cmd[p].tag
           /\ \A n \in cmd[p].names : \E i \in mine : M[i].name = n
           /\ \A i, j \in mine : M[i].ip = M[j].ip => i = j
           /\ ~unsafe => \A i \in mine : M[i].name \in DOMAIN before => M[i].ip = before[M[i].name]
<1> DEFINE c == cmd[p]
           a == Addresses(c)
           base == remove_block(c.text, c.tag)
<1>1. c \in Working
  BY AtWork, NotAtWork DEF FileInv
<1>2. c.tag \in Tags /\ c.names \in SUBSET Names /\ c.text \in Seq(Lines)
  BY <1>1 DEF Working
<1>3. /\ Spread(a, c.names) /\ Lists(Order(c), c.names) /\ Merged(M, base, c.tag, a, Order(c))
      /\ \A m \in Kept(c.names, before) : a[m] = before[m]
  BY <1>1, AfterApply
<1>4. base \in Seq(Lines)
  BY <1>2, RemoveTyped
<1> HIDE DEF c, a, base
<1>5. /\ \A i \in mine : /\ M[i].kind = "alias" /\ M[i].tag = c.tag
                         /\ M[i].name \in c.names /\ M[i].ip = a[M[i].name]
      /\ \A n \in c.names : \E i \in mine : M[i].name = n
      /\ \A i, j \in mine : M[i].ip = M[j].ip => i = j
  <2>1. mine = Active(M, c.names)
    BY DEF c
  <2>2. Mapped(M, c.tag, c.names, a)
    BY <1>2, <1>3, <1>4, MergeMaps
  <2>3. QED
    BY <2>1, <2>2 DEF Mapped
<1>6. ASSUME ~unsafe, NEW i \in mine, M[i].name \in DOMAIN before
      PROVE  M[i].ip = before[M[i].name]
  <2>1. WellFormed(c.text)
    BY <1>6 DEF FileInv, c
  <2>2. Kept(c.names, before) = c.names \cap DOMAIN before
    BY <1>2, <2>1, ExistingKept DEF c
  <2>3. QED
    BY <1>3, <1>5, <1>6, <2>2
<1>7. QED
  BY <1>5, <1>6 DEF c

\* hosts.rs, allocate, conflicts and merge_block: what an apply writes maps each of its names
\* in its own block alone, each to an address of its own, and unless a write was cut off
\* before, to the one that an active line of the block already gave it.
THEOREM ApplyMapsNames == FileSpec => ApplyMaps
<1> DEFINE Maps ==
        \A p \in Procs :
            LET c == cmd[p]
                mine == {i \in DOMAIN file' : file'[i].off = None /\ file'[i].name \in c.names}
                before == existing_entries(c.text, c.tag)
            IN  c.action = "apply" /\ writes' > writes /\ cmd'[p] = Done /\ file' = After(c) =>
                    /\ \A i \in mine : file'[i].kind = "alias" /\ file'[i].tag = c.tag
                    /\ \A n \in c.names : \E i \in mine : file'[i].name = n
                    /\ \A i, j \in mine : file'[i].ip = file'[j].ip => i = j
                    /\ ~unsafe => \A i \in mine : file'[i].name \in DOMAIN before =>
                            file'[i].ip = before[file'[i].name]
<1>1. FileInv => Maps
  <2> SUFFICES ASSUME FileInv, NEW p \in Procs, cmd[p].action = "apply", file' = After(cmd[p])
               PROVE  LET c == cmd[p]
                          mine == {i \in DOMAIN file' : file'[i].off = None /\ file'[i].name \in c.names}
                          before == existing_entries(c.text, c.tag)
                      IN  /\ \A i \in mine : file'[i].kind = "alias" /\ file'[i].tag = c.tag
                          /\ \A n \in c.names : \E i \in mine : file'[i].name = n
                          /\ \A i, j \in mine : file'[i].ip = file'[j].ip => i = j
                          /\ ~unsafe => \A i \in mine : file'[i].name \in DOMAIN before =>
                                  file'[i].ip = before[file'[i].name]
    OBVIOUS
  <2> DEFINE M == After(cmd[p])
             mine == Active(M, cmd[p].names)
             before == existing_entries(cmd[p].text, cmd[p].tag)
  <2>1. /\ \A i \in mine : M[i].kind = "alias" /\ M[i].tag = cmd[p].tag
        /\ \A n \in cmd[p].names : \E i \in mine : M[i].name = n
        /\ \A i, j \in mine : M[i].ip = M[j].ip => i = j
        /\ ~unsafe => \A i \in mine : M[i].name \in DOMAIN before => M[i].ip = before[M[i].name]
    BY ApplyStep
  <2>2. mine = {i \in DOMAIN M : M[i].off = None /\ M[i].name \in cmd[p].names}
    BY DEF Active
  <2> HIDE DEF M, mine, before
  <2>3. file' = M
    BY DEF M
  <2>4. QED
    BY <2>1, <2>2, <2>3 DEF before
<1>2. QED
  BY <1>1, FileInductive, PTL DEF ApplyMaps
=============================================================================
