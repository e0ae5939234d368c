-------------------------- MODULE Forwarding_proofs --------------------------
(***************************************************************************)
(* The data path.  First the datagrams of a client (UdpRoute), for any     *)
(* number of routes, any capacity of the channels and any timeouts: what a *)
(* route holds is a pipe, the datagrams the target has, those on the       *)
(* stream, those in the channel.  Lemmas about the pipe alone say what     *)
(* writing, cutting and reading a frame do to its order; the invariant     *)
(* adds that whoever cuts a frame has stopped sending, so that nothing     *)
(* ever follows the cut.  Then a relayed connection (Tunnel), whose data   *)
(* is followed in the same way from one application to the other.          *)
(***************************************************************************)
EXTENDS Tunnel, UdpRoute, SequenceTheorems, TLAPS

\* A sequence of datagrams, numbered as the client sent them, in that order.
Rising(s, n) ==
    \A i \in 1..Len(s) : s[i] \in 1..n /\ \A j \in 1..i - 1 : s[j] < s[i]

\* Datagrams on a stream, the last of which may be cut off.
Framed(w, n) ==
    \A i \in 1..Len(w) :
        /\ w[i] = Cut \/ w[i] \in 1..n
        /\ \A j \in 1..i - 1 : w[j] # Cut /\ (w[i] # Cut => w[j] < w[i])

\* At the target, on the stream and in the channel of a route: n datagrams at most, and each
\* part is older than the next.
Pipe(a, w, q, n) ==
    /\ a \in Seq(Int) /\ w \in Seq(Int) /\ q \in Seq(Int) /\ n \in Nat
    /\ Rising(a, n) /\ Framed(w, n) /\ Rising(q, n)
    /\ \A i \in 1..Len(a), j \in 1..Len(w) : w[j] # Cut => a[i] < w[j]
    /\ \A i \in 1..Len(a), j \in 1..Len(q) : a[i] < q[j]
    /\ \A i \in 1..Len(w), j \in 1..Len(q) : w[i] # Cut => w[i] < q[j]

HasCut(w) == \E i \in 1..Len(w) : w[i] = Cut

\* Datagrams that have got into a channel, or were dropped: all but the one the loop has.
Seen == IF loop.at \in {"send", "create"} THEN clientSent - 1 ELSE clientSent

\* The variables the datagrams depend on have their types, and the loop that has a datagram
\* has the newest.
Types ==
    /\ clientSent \in Nat /\ made \in Nat /\ table \in {0} \cup Routes
    /\ loop \in [at : {"recv_from", "send", "create", "ended"}, datagram : Nat]
    /\ loop.at \in {"send", "create"} => loop.datagram = clientSent /\ clientSent # 0
    /\ loop.at = "send" => table # 0
    /\ tasks \in [Routes -> SUBSET Tasks]
    /\ queue \in [Routes -> Seq(Int)] /\ upWire \in [Routes -> Seq(Int)]
    /\ atTarget \in [Routes -> Seq(Int)]

\* A route that was not made yet is new.  Only a sender that runs has datagrams in its
\* channel; after a frame was cut off it no longer runs, and when the remote reader has met
\* the cut there is nothing left to read.
RouteOK(r) ==
    /\ r > made => tasks[r] = {} /\ upWire[r] = <<>> /\ r \notin misread
    /\ "sender" \notin tasks[r] => queue[r] = <<>>
    /\ HasCut(upWire[r]) \/ r \in misread => "sender" \notin tasks[r]
    /\ r \in misread => upWire[r] = <<>>
    /\ Pipe(atTarget[r], upWire[r], queue[r], Seen)

IInv == Types /\ \A r \in Routes : RouteOK(r)

-----------------------------------------------------------------------------
(* What happens to a pipe. *)

\* A sequence and one more element at its end.
LEMMA Longer ==
    ASSUME NEW s \in Seq(Int), NEW e \in Int
    PROVE  \E v \in Seq(Int) :
              /\ v = Append(s, e) /\ Len(v) = Len(s) + 1 /\ Len(s) \in Nat
              /\ \A i \in 1..Len(v) : v[i] = IF i = Len(v) THEN e ELSE s[i]
<1>1. Len(s) \in Nat
  BY LenProperties
<1>2. /\ Append(s, e) \in Seq(Int) /\ Len(Append(s, e)) = Len(s) + 1
      /\ \A i \in 1..Len(s) : Append(s, e)[i] = s[i]
      /\ Append(s, e)[Len(s) + 1] = e
  BY AppendProperties
<1>3. \A i \in 1..Len(s) + 1 : Append(s, e)[i] = IF i = Len(s) + 1 THEN e ELSE s[i]
  BY <1>1, <1>2
<1>4. QED
  BY <1>1, <1>2, <1>3

\* A sequence and its first element.
LEMMA Shorter ==
    ASSUME NEW s \in Seq(Int), s # <<>>
    PROVE  \E v \in Seq(Int) :
              /\ v = Tail(s) /\ Len(v) = Len(s) - 1 /\ Len(s) \in Nat /\ Len(s) >= 1
              /\ \A i \in 1..Len(v) : v[i] = s[i + 1]
              /\ Head(s) = s[1] /\ s[1] \in Int
              /\ Len(v) = 0 => v = <<>>
<1>1. Len(s) \in Nat /\ (Len(s) = 0 => s = <<>>)
  BY EmptySeq, LenProperties
<1>2. /\ Tail(s) \in Seq(Int) /\ Len(Tail(s)) = Len(s) - 1 /\ Head(s) \in Int
      /\ \A i \in 1..Len(Tail(s)) : Tail(s)[i] = s[i + 1]
  BY HeadTailProperties
<1>3. Len(Tail(s)) = 0 => Tail(s) = <<>>
  BY <1>2, EmptySeq
<1>4. Head(s) = s[1] /\ Len(s) >= 1
  BY <1>1
<1>5. WITNESS Tail(s) \in Seq(Int)
<1>6. QED
  BY <1>1, <1>2, <1>3, <1>4

\* A newer datagram enters the channel.
LEMMA PipeEnqueue ==
    ASSUME NEW a, NEW w, NEW q, NEW n, Pipe(a, w, q, n)
    PROVE  Pipe(a, w, Append(q, n + 1), n + 1)
<1>1. n + 1 \in Int /\ n \in Nat /\ q \in Seq(Int)
  BY DEF Pipe
<1>2. PICK v \in Seq(Int) :
        /\ v = Append(q, n + 1) /\ Len(v) = Len(q) + 1 /\ Len(q) \in Nat
        /\ \A i \in 1..Len(v) : v[i] = IF i = Len(v) THEN n + 1 ELSE q[i]
  BY <1>1, Longer
<1>3. Rising(a, n + 1) /\ Framed(w, n + 1)
  BY DEF Pipe, Rising, Framed
<1>4. Rising(v, n + 1)
  BY <1>1, <1>2 DEF Pipe, Rising
<1>5. \A i \in 1..Len(a) : a[i] < n + 1
  BY DEF Pipe, Rising
<1>6. \A i \in 1..Len(w) : w[i] # Cut => w[i] < n + 1
  BY DEF Pipe, Framed
<1>7. Pipe(a, w, v, n + 1)
  BY <1>1, <1>2, <1>3, <1>4, <1>5, <1>6 DEF Pipe
<1>8. QED
  BY <1>2, <1>7

\* A datagram more was sent and none has entered the channel.
LEMMA PipeGrows ==
    ASSUME NEW a, NEW w, NEW q, NEW n, Pipe(a, w, q, n)
    PROVE  Pipe(a, w, q, n + 1)
BY DEF Pipe, Rising, Framed

\* A place that is not the last is one of those before.
LEMMA Inner == \A n \in Nat : \A i \in 1..n + 1 : i # n + 1 => i \in 1..n
OBVIOUS

\* The oldest datagram of the channel is written to the stream, or to a stream that is gone.
LEMMA PipeWrite ==
    ASSUME NEW a, NEW w, NEW q, NEW n, Pipe(a, w, q, n), q # <<>>, ~HasCut(w)
    PROVE  /\ Pipe(a, Append(w, Head(q)), Tail(q), n) /\ Pipe(a, w, Tail(q), n)
           /\ ~HasCut(Append(w, Head(q)))
<1>1. a \in Seq(Int) /\ w \in Seq(Int) /\ q \in Seq(Int) /\ n \in Nat
  BY DEF Pipe
<1>2. PICK p \in Seq(Int) :
        /\ p = Tail(q) /\ Len(p) = Len(q) - 1 /\ Len(q) \in Nat /\ Len(q) >= 1
        /\ \A i \in 1..Len(p) : p[i] = q[i + 1]
        /\ Head(q) = q[1] /\ q[1] \in Int
  BY <1>1, Shorter
<1>3. PICK v \in Seq(Int) :
        /\ v = Append(w, q[1]) /\ Len(v) = Len(w) + 1 /\ Len(w) \in Nat
        /\ \A i \in 1..Len(v) : v[i] = IF i = Len(v) THEN q[1] ELSE w[i]
  BY <1>1, <1>2, Longer
<1>4. q[1] \in 1..n /\ q[1] # Cut /\ \A j \in 2..Len(q) : q[1] < q[j]
  BY <1>2 DEF Pipe, Rising, Cut
<1>5. Rising(p, n)
  BY <1>2 DEF Pipe, Rising
<1>6. \A i \in 1..Len(w) : w[i] # Cut /\ w[i] < q[1]
  BY <1>2 DEF Pipe, HasCut
<1>7. Framed(v, n) /\ ~HasCut(v)
  <2>1. \A i \in 1..Len(v) : v[i] # Cut
    BY <1>3, <1>4, <1>6
  <2>2. \A i \in 1..Len(v) : v[i] \in 1..n
    BY <1>3, <1>4, <1>6 DEF Pipe, Framed
  <2>3. \A i \in 1..Len(v) : \A j \in 1..i - 1 : v[j] < v[i]
    <3>1. \A i \in 1..Len(w) : \A j \in 1..i - 1 : w[j] < w[i]
      BY <1>6 DEF Pipe, Framed
    <3>2. ASSUME NEW i \in 1..Len(v), NEW j \in 1..i - 1 PROVE v[j] < v[i]
      <4>1. j \in 1..Len(w) /\ v[j] = w[j]
        BY <1>3
      <4>2. CASE i = Len(v)
        BY <1>3, <1>6, <4>1, <4>2
      <4>3. CASE i # Len(v)
        <5>1. i \in 1..Len(w) /\ v[i] = w[i]
          <6>1. Len(v) = Len(w) + 1 /\ Len(w) \in Nat
            BY <1>3
          <6>2. i \in 1..Len(w)
            BY <4>3, <6>1, Inner
          <6>3. QED
            BY <1>3, <4>3, <6>2
        <5>2. QED
          BY <3>1, <4>1, <5>1
      <4>4. QED
        BY <4>2, <4>3
    <3>3. QED
      BY <3>2
  <2>4. QED
    BY <2>1, <2>2, <2>3 DEF Framed, HasCut
<1>8. \A i \in 1..Len(a), j \in 1..Len(v) : v[j] # Cut => a[i] < v[j]
  BY <1>2, <1>3 DEF Pipe
<1>9. \A i \in 1..Len(v), j \in 1..Len(p) : v[i] # Cut => v[i] < p[j]
  BY <1>2, <1>3, <1>4 DEF Pipe
<1>10. /\ \A i \in 1..Len(a), j \in 1..Len(p) : a[i] < p[j]
       /\ \A i \in 1..Len(w), j \in 1..Len(p) : w[i] # Cut => w[i] < p[j]
  <2>1. \A j \in 1..Len(p) : j + 1 \in 1..Len(q) /\ p[j] = q[j + 1]
    BY <1>2
  <2>2. /\ \A i \in 1..Len(a), j \in 1..Len(q) : a[i] < q[j]
        /\ \A i \in 1..Len(w), j \in 1..Len(q) : w[i] # Cut => w[i] < q[j]
    BY DEF Pipe
  <2>3. QED
    BY <2>1, <2>2
<1>11. Pipe(a, w, p, n) /\ Pipe(a, v, p, n)
  BY <1>1, <1>5, <1>7, <1>8, <1>9, <1>10 DEF Pipe
<1>12. QED
  BY <1>2, <1>3, <1>7, <1>11

\* The sender stops: its channel is emptied, and the frame it was writing may be cut off.
LEMMA PipeStop ==
    ASSUME NEW a, NEW w, NEW q, NEW n, Pipe(a, w, q, n)
    PROVE  /\ Pipe(a, w, <<>>, n)
           /\ ~HasCut(w) => Pipe(a, Append(w, Cut), <<>>, n)
<1>1. Pipe(a, w, <<>>, n)
  BY DEF Pipe, Rising
<1>2. ASSUME ~HasCut(w) PROVE Pipe(a, Append(w, Cut), <<>>, n)
  <2>1. w \in Seq(Int) /\ Cut \in Int
    BY DEF Pipe, Cut
  <2>2. PICK v \in Seq(Int) :
          /\ v = Append(w, Cut) /\ Len(v) = Len(w) + 1 /\ Len(w) \in Nat
          /\ \A i \in 1..Len(v) : v[i] = IF i = Len(v) THEN Cut ELSE w[i]
    BY <2>1, Longer
  <2>3. Framed(v, n)
    BY <1>2, <2>2 DEF Pipe, Framed, HasCut
  <2>4. \A i \in 1..Len(a), j \in 1..Len(v) : v[j] # Cut => a[i] < v[j]
    BY <2>2 DEF Pipe
  <2>5. Pipe(a, v, <<>>, n)
    BY <1>1, <2>3, <2>4 DEF Pipe
  <2>6. QED
    BY <2>2, <2>5
<1>3. QED
  BY <1>1, <1>2

\* The remote forwarder reads the oldest frame: a datagram goes to the target, and behind a
\* frame that was cut off there is nothing.
LEMMA PipeRead ==
    ASSUME NEW a, NEW w, NEW q, NEW n, Pipe(a, w, q, n), w # <<>>
    PROVE  /\ Head(w) # Cut => Pipe(Append(a, Head(w)), Tail(w), q, n)
           /\ Head(w) = Cut => Tail(w) = <<>> /\ HasCut(w) /\ Pipe(a, <<>>, q, n)
           /\ HasCut(Tail(w)) => HasCut(w)
<1>1. a \in Seq(Int) /\ w \in Seq(Int) /\ q \in Seq(Int) /\ n \in Nat
  BY DEF Pipe
<1>2. PICK p \in Seq(Int) :
        /\ p = Tail(w) /\ Len(p) = Len(w) - 1 /\ Len(w) \in Nat /\ Len(w) >= 1
        /\ \A i \in 1..Len(p) : p[i] = w[i + 1]
        /\ Head(w) = w[1] /\ w[1] \in Int
        /\ Len(p) = 0 => p = <<>>
  BY <1>1, Shorter
<1>3. ASSUME w[1] # Cut PROVE Pipe(Append(a, w[1]), p, q, n)
  <2>1. PICK v \in Seq(Int) :
          /\ v = Append(a, w[1]) /\ Len(v) = Len(a) + 1 /\ Len(a) \in Nat
          /\ \A i \in 1..Len(v) : v[i] = IF i = Len(v) THEN w[1] ELSE a[i]
    BY <1>1, <1>2, Longer
  <2>2. w[1] \in 1..n /\ (\A i \in 1..Len(a) : a[i] < w[1]) /\ (\A j \in 1..Len(q) : w[1] < q[j])
    BY <1>2, <1>3 DEF Pipe, Framed
  <2>3. Rising(v, n)
    BY <2>1, <2>2 DEF Pipe, Rising
  <2>4. Framed(p, n)
    BY <1>2 DEF Pipe, Framed
  <2>5. \A j \in 2..Len(w) : w[j] # Cut => w[1] < w[j]
    BY <1>2 DEF Pipe, Framed
  <2>6. \A i \in 1..Len(v), j \in 1..Len(p) : p[j] # Cut => v[i] < p[j]
    BY <1>2, <2>1, <2>5 DEF Pipe
  <2>7. \A i \in 1..Len(v), j \in 1..Len(q) : v[i] < q[j]
    BY <2>1, <2>2 DEF Pipe
  <2>8. \A i \in 1..Len(p), j \in 1..Len(q) : p[i] # Cut => p[i] < q[j]
    BY <1>2 DEF Pipe
  <2>9. Pipe(v, p, q, n)
    BY <1>1, <2>3, <2>4, <2>6, <2>7, <2>8 DEF Pipe
  <2>10. QED
    BY <2>1, <2>9
<1>4. ASSUME w[1] = Cut PROVE p = <<>> /\ HasCut(w) /\ Pipe(a, <<>>, q, n)
  <2>1. Len(w) = 1
    BY <1>2, <1>4 DEF Pipe, Framed
  <2>2. Pipe(a, <<>>, q, n)
    BY DEF Pipe, Framed
  <2>3. QED
    BY <1>2, <1>4, <2>1, <2>2 DEF HasCut
<1>5. HasCut(p) => HasCut(w)
  BY <1>2 DEF HasCut
<1>6. QED
  BY <1>2, <1>3, <1>4, <1>5

-----------------------------------------------------------------------------
(* Steps. *)

\* The datagrams of a route are as they were; a task that reads may have ended.
Same(r) ==
    /\ tasks'[r] \subseteq tasks[r] /\ ("sender" \in tasks[r] => "sender" \in tasks'[r])
    /\ queue'[r] = queue[r] /\ upWire'[r] = upWire[r]
    /\ atTarget'[r] = atTarget[r] /\ (r \in misread' <=> r \in misread)

\* A route stays right when nothing happens to it, and when the client sends more.
LEMMA SameKeeps ==
    ASSUME NEW r \in Routes, RouteOK(r), Same(r), Routes \subseteq Nat,
           made \in Nat, made' \in Nat, made' >= made,
           Seen' = Seen \/ Seen' = Seen + 1
    PROVE  RouteOK(r)'
<1>1. Pipe(atTarget[r], upWire[r], queue[r], Seen')
  BY PipeGrows DEF RouteOK
<1>2. Pipe(atTarget'[r], upWire'[r], queue'[r], Seen')
  BY <1>1 DEF Same
<1>3. r > made' => r > made
  OBVIOUS
<1>4. QED
  BY <1>2, <1>3 DEF RouteOK, Same, HasCut

\* The initial state.
LEMMA InitInv == ASSUME Routes \subseteq Nat, UdpInit PROVE IInv
<1>1. Types
  BY DEF UdpInit, Types, Idle, Tasks, Readers
<1>2. ASSUME NEW r \in Routes PROVE RouteOK(r)
  <2>1. atTarget[r] = <<>> /\ upWire[r] = <<>> /\ queue[r] = <<>> /\ Seen = 0
    BY DEF UdpInit, Seen, Idle
  <2>2. Pipe(<<>>, <<>>, <<>>, 0)
    BY DEF Pipe, Rising, Framed
  <2>3. QED
    BY <2>1, <2>2 DEF UdpInit, RouteOK, HasCut
<1>3. QED
  BY <1>1, <1>2 DEF IInv

\* The loop takes a datagram, or ends: no route changes.
LEMMA LoopKeeps ==
    ASSUME Routes \subseteq Nat, IInv, recv_from \/ shut_down PROVE IInv'
<1>1. Types
  BY DEF IInv
<1>2. UNCHANGED <<made, queue, tasks, upWire, misread, atTarget>>
  BY DEF recv_from, shut_down, streams
<1>3. loop.at = "recv_from"
  BY DEF recv_from, shut_down, Idle
<1>4. Types' /\ Seen' = Seen
  <2>1. CASE recv_from
    <3>1. clientSent' = clientSent + 1 /\ clientSent' \in Nat /\ clientSent' # 0
      BY <1>1, <2>1 DEF recv_from, Types
    <3>2. table' \in {0} \cup Routes
      BY <1>1, <2>1 DEF recv_from, Types
    <3>3. \/ loop' = [at |-> "send", datagram |-> clientSent'] /\ table' # 0
          \/ loop' = [at |-> "create", datagram |-> clientSent']
      BY <2>1, <3>1 DEF recv_from
    <3>4. QED
      BY <1>1, <1>2, <1>3, <3>1, <3>2, <3>3 DEF Types, Seen
  <2>2. CASE shut_down
    BY <1>1, <1>2, <1>3, <2>2 DEF shut_down, Types, Seen, Idle, local, udpVars
  <2>3. QED
    BY <2>1, <2>2
<1>5. ASSUME NEW r \in Routes PROVE RouteOK(r)'
  <2>1. RouteOK(r) /\ Same(r) /\ made \in Nat /\ made' = made
    BY <1>1, <1>2 DEF IInv, Same, Types
  <2>2. QED
    BY <1>4, <2>1, SameKeeps
<1>6. QED
  BY <1>4, <1>5 DEF IInv

\* create_udp_route: the new route is empty and its sender runs; or the datagram is dropped.
LEMMA CreateKeeps ==
    ASSUME Routes \subseteq Nat, IInv, create_udp_route PROVE IInv'
<1>1. Types /\ loop.at = "create"
  BY DEF IInv, create_udp_route
<1>2. UNCHANGED <<clientSent, queue, upWire, misread, atTarget>>
  BY DEF create_udp_route, streams
<1>3. CASE loop' = Idle /\ UNCHANGED <<made, table, tasks>>
  <2>1. Types' /\ Seen' = Seen + 1
    BY <1>1, <1>2, <1>3 DEF Types, Seen, Idle
  <2>2. ASSUME NEW r \in Routes PROVE RouteOK(r)'
    <3>1. RouteOK(r) /\ Same(r) /\ made \in Nat /\ made' = made
      BY <1>1, <1>2, <1>3 DEF IInv, Same, Types
    <3>2. QED
      BY <2>1, <3>1, SameKeeps
  <2>3. QED
    BY <2>1, <2>2 DEF IInv
<1>4. CASE /\ made + 1 \in Routes /\ made' = made + 1 /\ table' = made + 1
           /\ loop' = [loop EXCEPT !.at = "send"]
           /\ tasks' = [tasks EXCEPT ![made + 1] = Tasks]
  <2>1. Types'
    <3>1. tasks' \in [Routes -> SUBSET Tasks]
      BY <1>1, <1>4 DEF Types
    <3>2. loop' \in [at : {"recv_from", "send", "create", "ended"}, datagram : Nat]
          /\ loop'.datagram = loop.datagram
      BY <1>1, <1>4 DEF Types
    <3>3. made' \in Nat /\ table' \in Routes /\ table' # 0
      BY <1>1, <1>4 DEF Types
    <3>4. QED
      BY <1>1, <1>2, <3>1, <3>2, <3>3 DEF Types
  <2>2. Seen' = Seen
    BY <1>1, <1>2, <1>4 DEF Types, Seen
  <2>3. ASSUME NEW r \in Routes PROVE RouteOK(r)'
    <3>1. RouteOK(r) /\ made \in Nat /\ r \in Nat
      BY <1>1 DEF IInv, Types
    <3>2. CASE r # made + 1
      <4>1. Same(r)
        BY <1>1, <1>2, <1>4, <3>2 DEF Same, Types
      <4>2. QED
        BY <1>4, <2>2, <3>1, <4>1, SameKeeps
    <3>3. CASE r = made + 1
      <4>1. tasks'[r] = Tasks /\ "sender" \in Tasks
        BY <1>1, <1>4, <3>3 DEF Types, Tasks
      <4>2. upWire'[r] = <<>> /\ r \notin misread' /\ ~HasCut(upWire'[r])
        BY <1>2, <3>1, <3>3 DEF RouteOK, HasCut
      <4>3. Pipe(atTarget'[r], upWire'[r], queue'[r], Seen')
        BY <1>2, <2>2, <3>1 DEF RouteOK
      <4>4. ~(r > made')
        BY <1>4, <3>1, <3>3
      <4>5. QED
        BY <4>1, <4>2, <4>3, <4>4 DEF RouteOK
    <3>4. QED
      BY <3>2, <3>3
  <2>4. QED
    BY <2>1, <2>3 DEF IInv
<1>5. QED
  BY <1>3, <1>4 DEF create_udp_route

\* relay_tx.send: the newest datagram enters the channel of a sender that runs, or is lost.
LEMMA RelayKeeps ==
    ASSUME Routes \subseteq Nat, IInv, relay_tx_send PROVE IInv'
<1>1. Types /\ loop.at = "send" /\ table \in Routes
  BY DEF IInv, Types, relay_tx_send
<1>2. UNCHANGED <<clientSent, made, tasks, upWire, misread, atTarget>> /\ loop' = Idle
  BY DEF relay_tx_send, streams
<1>3. Seen' = Seen + 1 /\ loop.datagram = Seen + 1 /\ Seen \in Nat
  BY <1>1, <1>2 DEF Types, Seen, Idle
<1>4. \/ table' = 0 /\ queue' = queue
      \/ /\ table' = table /\ "sender" \in tasks[table]
         /\ queue' = [queue EXCEPT ![table] = Append(@, Seen + 1)]
  BY <1>3 DEF relay_tx_send, Running
<1>5. Types'
  <2>1. queue' \in [Routes -> Seq(Int)]
    <3>1. queue \in [Routes -> Seq(Int)] /\ Seen + 1 \in Int
      BY <1>1, <1>3 DEF Types
    <3>2. Append(queue[table], Seen + 1) \in Seq(Int)
      BY <1>1, <3>1, AppendProperties
    <3>3. QED
      BY <1>4, <3>1, <3>2
  <2>2. QED
    BY <1>1, <1>2, <1>4, <2>1 DEF Types, Idle
<1>6. ASSUME NEW r \in Routes PROVE RouteOK(r)'
  <2>1. RouteOK(r) /\ made \in Nat /\ made' = made
    BY <1>1, <1>2 DEF IInv, Types
  <2>2. CASE queue'[r] = queue[r]
    <3>1. Same(r)
      BY <1>2, <2>2 DEF Same
    <3>2. QED
      BY <1>3, <2>1, <3>1, SameKeeps
  <2>3. CASE "sender" \in tasks[r] /\ queue'[r] = Append(queue[r], Seen + 1)
    <3>1. Pipe(atTarget[r], upWire[r], queue'[r], Seen')
      BY <1>3, <2>1, <2>3, PipeEnqueue DEF RouteOK
    <3>2. QED
      BY <1>2, <2>1, <2>3, <3>1 DEF RouteOK, HasCut
  <2>4. QED
    BY <1>1, <1>4, <2>2, <2>3 DEF Types
<1>7. QED
  BY <1>5, <1>6 DEF IInv

\* Everything but the routes' own state and the loop's datagram stays; one route may change.
Others(r) ==
    /\ UNCHANGED <<clientSent, loop, table, made>>
    /\ tasks' \in [Routes -> SUBSET Tasks]
    /\ queue' \in [Routes -> Seq(Int)] /\ upWire' \in [Routes -> Seq(Int)]
    /\ atTarget' \in [Routes -> Seq(Int)]
    /\ \A s \in Routes : s # r => Same(s)

\* A step of one route keeps the invariant when it keeps that of the route.
LEMMA OneRoute ==
    ASSUME Routes \subseteq Nat, IInv, NEW r \in Routes, Others(r),
           \/ tasks'[r] \subseteq tasks[r] /\ (upWire[r] = <<>> => upWire'[r] = <<>>)
           \/ r <= made,
           r \in misread' => r \in misread \/ r <= made,
           "sender" \notin tasks'[r] => queue'[r] = <<>>,
           HasCut(upWire'[r]) \/ r \in misread' => "sender" \notin tasks'[r],
           r \in misread' => upWire'[r] = <<>>,
           Pipe(atTarget'[r], upWire'[r], queue'[r], Seen)
    PROVE  IInv'
<1>1. Types /\ made \in Nat /\ made' = made /\ r \in Nat
  BY DEF IInv, Types, Others
<1>2. Types' /\ Seen' = Seen
  BY <1>1 DEF Types, Seen, Others
<1>3. ASSUME NEW s \in Routes, s # r PROVE RouteOK(s)'
  <2>1. RouteOK(s) /\ Same(s)
    BY <1>3 DEF IInv, Others
  <2>2. QED
    BY <1>1, <1>2, <2>1, SameKeeps
<1>4. RouteOK(r)'
  <2>1. RouteOK(r)
    BY DEF IInv
  <2>2. r > made' => tasks'[r] = {} /\ upWire'[r] = <<>> /\ r \notin misread'
    BY <1>1, <2>1 DEF RouteOK
  <2>3. QED
    BY <1>2, <2>2 DEF RouteOK
<1>5. QED
  BY <1>2, <1>3, <1>4 DEF IInv

\* send_datagram: the sender runs, so no frame of the stream is cut off.
LEMMA SendKeeps ==
    ASSUME Routes \subseteq Nat, IInv, NEW r \in Routes, send_datagram(r) PROVE IInv'
<1>1. /\ UNCHANGED <<clientSent, loop, table, made, tasks, misread, atTarget>>
      /\ "sender" \in tasks[r] /\ queue[r] # <<>>
  BY DEF send_datagram, Running
<1>2. Types /\ RouteOK(r)
  BY DEF IInv
<1>3. /\ ~HasCut(upWire[r]) /\ r \notin misread /\ r <= made
      /\ Pipe(atTarget[r], upWire[r], queue[r], Seen)
  BY <1>1, <1>2 DEF RouteOK, Types
<1>4. /\ Pipe(atTarget[r], Append(upWire[r], Head(queue[r])), Tail(queue[r]), Seen)
      /\ Pipe(atTarget[r], upWire[r], Tail(queue[r]), Seen)
      /\ ~HasCut(Append(upWire[r], Head(queue[r])))
  BY <1>1, <1>3, PipeWrite
<1>5. /\ queue' \in [Routes -> Seq(Int)] /\ queue'[r] = Tail(queue[r])
      /\ \A s \in Routes : s # r => queue'[s] = queue[s]
  <2>1. Tail(queue[r]) \in Seq(Int) /\ queue \in [Routes -> Seq(Int)]
    BY <1>2, <1>4 DEF Pipe, Types
  <2>2. QED
    BY <2>1 DEF send_datagram
<1>6. /\ upWire' \in [Routes -> Seq(Int)]
      /\ upWire'[r] \in {upWire[r], Append(upWire[r], Head(queue[r]))}
      /\ \A s \in Routes : s # r => upWire'[s] = upWire[s]
  <2>1. Append(upWire[r], Head(queue[r])) \in Seq(Int) /\ upWire \in [Routes -> Seq(Int)]
    BY <1>2, <1>4 DEF Pipe, Types
  <2>2. upWire' = upWire \/ upWire' = [upWire EXCEPT ![r] = Append(@, Head(queue[r]))]
    BY DEF send_datagram
  <2>3. QED
    BY <2>1, <2>2
<1>7. Others(r)
  BY <1>1, <1>2, <1>5, <1>6 DEF Others, Same, Types
<1>8. Pipe(atTarget'[r], upWire'[r], queue'[r], Seen) /\ ~HasCut(upWire'[r])
  BY <1>1, <1>3, <1>4, <1>5, <1>6
<1>9. QED
  BY <1>1, <1>3, <1>7, <1>8, OneRoute

\* The sender ends, whatever the reason, and may leave a frame that is cut off.
LEMMA SenderStops ==
    ASSUME Routes \subseteq Nat, IInv, NEW r \in Routes,
           send_times_out(r) \/ send_fails(r) \/ sender_ends(r)
    PROVE  IInv'
<1>1. /\ UNCHANGED <<clientSent, loop, table, made, misread, atTarget>>
      /\ "sender" \in tasks[r] /\ EndTask(r, "sender")
      /\ upWire' \in {upWire, [upWire EXCEPT ![r] = Append(@, Cut)]}
  BY DEF send_times_out, send_fails, sender_ends, Running
<1>2. Types /\ RouteOK(r)
  BY DEF IInv
<1>3. /\ ~HasCut(upWire[r]) /\ r \notin misread /\ r <= made
      /\ Pipe(atTarget[r], upWire[r], queue[r], Seen)
  BY <1>1, <1>2 DEF RouteOK, Types
<1>4. /\ Pipe(atTarget[r], upWire[r], <<>>, Seen)
      /\ Pipe(atTarget[r], Append(upWire[r], Cut), <<>>, Seen)
  BY <1>3, PipeStop
<1>5. /\ queue' \in [Routes -> Seq(Int)] /\ queue'[r] = <<>>
      /\ \A s \in Routes : s # r => queue'[s] = queue[s]
  BY <1>1, <1>2 DEF EndTask, Types
<1>6. /\ tasks' \in [Routes -> SUBSET Tasks] /\ "sender" \notin tasks'[r]
      /\ \A s \in Routes : s # r => tasks'[s] = tasks[s]
  BY <1>1, <1>2 DEF EndTask, Types
<1>7. /\ upWire' \in [Routes -> Seq(Int)] /\ upWire'[r] \in {upWire[r], Append(upWire[r], Cut)}
      /\ \A s \in Routes : s # r => upWire'[s] = upWire[s]
  <2>1. Append(upWire[r], Cut) \in Seq(Int) /\ upWire \in [Routes -> Seq(Int)]
    BY <1>2, <1>4 DEF Pipe, Types
  <2>2. QED
    BY <1>1, <2>1
<1>8. Others(r)
  BY <1>1, <1>2, <1>5, <1>6, <1>7 DEF Others, Same, Types
<1>9. Pipe(atTarget'[r], upWire'[r], queue'[r], Seen)
  BY <1>1, <1>4, <1>5, <1>7
<1>10. QED
  BY <1>1, <1>3, <1>5, <1>6, <1>8, <1>9, OneRoute

\* remote_send: a reader that has lost the boundaries finds nothing more to read.
LEMMA ReadKeeps ==
    ASSUME Routes \subseteq Nat, IInv, NEW r \in Routes, remote_send(r) PROVE IInv'
<1>1. /\ UNCHANGED <<clientSent, loop, table, made, queue, tasks>>
      /\ "send_handle" \in tasks[r] /\ upWire[r] # <<>>
      /\ upWire' = [upWire EXCEPT ![r] = Tail(@)]
  BY DEF remote_send, Running, local
<1>2. Types /\ RouteOK(r)
  BY DEF IInv
<1>3. /\ r \notin misread /\ r <= made
      /\ Pipe(atTarget[r], upWire[r], queue[r], Seen)
  BY <1>1, <1>2 DEF RouteOK, Types
<1>4. /\ Head(upWire[r]) # Cut =>
            Pipe(Append(atTarget[r], Head(upWire[r])), Tail(upWire[r]), queue[r], Seen)
      /\ Head(upWire[r]) = Cut =>
            Tail(upWire[r]) = <<>> /\ HasCut(upWire[r]) /\ Pipe(atTarget[r], <<>>, queue[r], Seen)
      /\ HasCut(Tail(upWire[r])) => HasCut(upWire[r])
  BY <1>1, <1>3, PipeRead
<1>5. /\ upWire' \in [Routes -> Seq(Int)] /\ upWire'[r] = Tail(upWire[r])
      /\ \A s \in Routes : s # r => upWire'[s] = upWire[s]
  <2>1. Tail(upWire[r]) \in Seq(Int) /\ upWire \in [Routes -> Seq(Int)]
    BY <1>2, <1>4 DEF Pipe, Types
  <2>2. QED
    BY <1>1, <2>1
<1>6. CASE Head(upWire[r]) = Cut
  <2>1. misread' = misread \cup {r} /\ atTarget' = atTarget
    BY <1>6 DEF remote_send
  <2>2. Others(r)
    BY <1>1, <1>2, <1>5, <2>1 DEF Others, Same, Types
  <2>3. "sender" \notin tasks[r]
    BY <1>2, <1>4, <1>6 DEF RouteOK
  <2>4. queue[r] = <<>>
    BY <1>2, <2>3 DEF RouteOK
  <2>5. upWire'[r] = <<>> /\ Pipe(atTarget'[r], upWire'[r], queue'[r], Seen)
    BY <1>1, <1>4, <1>5, <1>6, <2>1
  <2>6. QED
    BY <1>1, <1>3, <2>2, <2>3, <2>4, <2>5, OneRoute
<1>7. CASE Head(upWire[r]) # Cut
  <2>1. /\ misread' = misread
        /\ atTarget' = [atTarget EXCEPT ![r] = Append(@, Head(upWire[r]))]
    BY <1>3, <1>7 DEF remote_send
  <2>2. /\ atTarget' \in [Routes -> Seq(Int)]
        /\ atTarget'[r] = Append(atTarget[r], Head(upWire[r]))
        /\ \A s \in Routes : s # r => atTarget'[s] = atTarget[s]
    <3>1. Append(atTarget[r], Head(upWire[r])) \in Seq(Int) /\ atTarget \in [Routes -> Seq(Int)]
      BY <1>2, <1>4, <1>7 DEF Pipe, Types
    <3>2. QED
      BY <2>1, <3>1
  <2>3. Others(r)
    BY <1>1, <1>2, <1>5, <2>1, <2>2 DEF Others, Same, Types
  <2>4. Pipe(atTarget'[r], upWire'[r], queue'[r], Seen)
    BY <1>1, <1>4, <1>5, <1>7, <2>2
  <2>5. QED
    BY <1>1, <1>2, <1>3, <1>4, <1>5, <2>1, <2>3, <2>4, OneRoute DEF RouteOK
<1>8. QED
  BY <1>6, <1>7

\* The steps that touch no datagram on its way to the target.
LEMMA RestKeeps ==
    ASSUME Routes \subseteq Nat, IInv,
           UNCHANGED <<clientSent, loop, table, made, queue, upWire, misread, atTarget>>,
           \/ tasks' = tasks
           \/ \E r \in Routes, t \in Readers : tasks' = [tasks EXCEPT ![r] = @ \ {t}]
    PROVE  IInv'
<1>1. Types /\ made \in Nat /\ made' = made
  BY DEF IInv, Types
<1>2. /\ tasks' \in [Routes -> SUBSET Tasks]
      /\ \A s \in Routes : tasks'[s] \subseteq tasks[s]
                           /\ ("sender" \in tasks[s] => "sender" \in tasks'[s])
  BY <1>1 DEF Types, Readers
<1>3. Types' /\ Seen' = Seen
  BY <1>1, <1>2 DEF Types, Seen
<1>4. ASSUME NEW s \in Routes PROVE RouteOK(s)'
  <2>1. RouteOK(s) /\ Same(s)
    BY <1>2 DEF IInv, Same
  <2>2. QED
    BY <1>1, <1>3, <2>1, SameKeeps
<1>5. QED
  BY <1>3, <1>4 DEF IInv

-----------------------------------------------------------------------------
(* The theorems. *)

\* The invariant of UDP routes: the order of the datagrams on their way, and that nothing
\* follows a frame that was cut off.
THEOREM RoutesInductive == ASSUME Routes \subseteq Nat PROVE UdpSpec => []IInv
<1>1. UdpInit => IInv
  BY InitInv
<1>2. IInv /\ [UdpNext]_udpVars => IInv'
  <2>1. SUFFICES ASSUME IInv, [UdpNext]_udpVars PROVE IInv'
    OBVIOUS
  <2>2. CASE recv_from \/ create_udp_route \/ relay_tx_send \/ shut_down
    BY <2>1, <2>2, LoopKeeps, CreateKeeps, RelayKeeps
  <2>3. ASSUME NEW r \in Routes, Sender(r) \/ remote_send(r) PROVE IInv'
    BY <2>1, <2>3, SendKeeps, SenderStops, ReadKeeps DEF Sender
  <2>4. ASSUME NEW r \in Routes, NEW t \in Readers, idle_timeout(r, t) \/ reader_fails(r, t)
        PROVE  IInv'
    <3>1. /\ UNCHANGED <<clientSent, loop, table, made, upWire, misread, atTarget>>
          /\ EndTask(r, t) /\ t # "sender"
      BY <2>4 DEF idle_timeout, reader_fails, Readers
    <3>2. tasks' = [tasks EXCEPT ![r] = @ \ {t}] /\ queue' = queue
      BY <3>1 DEF EndTask
    <3>3. QED
      BY <2>1, <3>1, <3>2, RestKeeps
  <2>5. ASSUME NEW r \in Routes,
               receive_datagram(r) \/ remote_recv(r) \/ stall(r) \/ resume(r) \/ break(r)
        PROVE  IInv'
    BY <2>1, <2>5, RestKeeps DEF receive_datagram, remote_recv, stall, resume, break, local
  <2>6. CASE tick
    BY <2>1, <2>6, RestKeeps DEF tick, local, streams
  <2>7. CASE UNCHANGED udpVars
    BY <2>1, <2>7, RestKeeps DEF udpVars, local, streams
  <2>8. QED
    BY <2>1, <2>2, <2>3, <2>4, <2>5, <2>6, <2>7 DEF UdpNext
<1>3. QED
  BY <1>1, <1>2, PTL DEF UdpSpec

\* Over every route the target sees datagrams of the client only, each at most once and in
\* the order they were sent, however often a write is given up in the middle of a frame.
THEOREM FramesExact == ASSUME Routes \subseteq Nat PROVE UdpSpec => []FramingExact
<1>1. IInv => FramingExact
  <2>1. SUFFICES ASSUME IInv, NEW r \in Routes, NEW i \in DOMAIN atTarget[r]
                 PROVE  /\ atTarget[r][i] \in 1 .. clientSent
                        /\ \A j \in 1 .. i - 1 : atTarget[r][j] < atTarget[r][i]
    BY DEF FramingExact
  <2>2. i \in 1..Len(atTarget[r]) /\ Rising(atTarget[r], Seen) /\ clientSent \in Nat
    <3>1. Pipe(atTarget[r], upWire[r], queue[r], Seen) /\ clientSent \in Nat
      BY <2>1 DEF IInv, RouteOK, Types
    <3>2. atTarget[r] \in Seq(Int) /\ Rising(atTarget[r], Seen)
      BY <3>1 DEF Pipe
    <3>3. DOMAIN atTarget[r] = 1..Len(atTarget[r])
      BY <3>2
    <3>4. QED
      BY <2>1, <3>1, <3>2, <3>3
  <2>3. Seen <= clientSent /\ Seen \in Int
    BY <2>2 DEF Seen
  <2>4. QED
    BY <2>2, <2>3 DEF Rising
<1>2. QED
  BY <1>1, RoutesInductive, PTL

-----------------------------------------------------------------------------
(* A relayed connection, for any amount of data.  What one side sends is got by the      *)
(* other, on the stream, or in the hands of the copy task (Flow); a side comes to the    *)
(* end of what it reads when the other has shut down its write side, or has itself come  *)
(* to the end of what this side sends (Finish).                                          *)

\* The frames of a stream, as Tunnel writes them.
Frames == {<<"request">>, <<"ok">>, <<"error">>, <<"close">>} \cup ({"data"} \X Nat)

\* What a stream begins with before its data, and whether it has ended.
Opening(w) == IF w # <<>> /\ w[1][1] \in {"request", "ok", "error"} THEN 1 ELSE 0
Closing(w) == IF w # <<>> /\ w[Len(w)][1] = "close" THEN 1 ELSE 0
Chunks(w) == Len(w) - Opening(w) - Closing(w)

\* A stream after n chunks were read from it: the chunks that follow, between a frame of
\* the preamble and a close frame.
Stream(w, n) ==
    /\ w \in Seq(Frames) /\ n \in Nat
    /\ \A i \in 1..Chunks(w) : w[Opening(w) + i] = <<"data", n + i>>

\* How far a handler is, how far a copy task.
Stages == {"new", "awaiting", "reading", "connecting", "pumping", "datagram", "dropped", "failed"}
CopyStates == {"idle", "run", "ok", "failed"}
Over(c) == c \in {"ok", "failed"}
Pumped == {"pumping", "dropped"}

\* The types of what the data depends on; a side has copy tasks from the pump on.
TunnelTypes ==
    /\ stage \in [Sides -> Stages] /\ up \in [Sides -> CopyStates] /\ down \in [Sides -> CopyStates]
    /\ sent \in [Sides -> Nat] /\ taken \in [Sides -> Nat] /\ hold \in [Sides -> Nat]
    /\ open \in [Sides -> BOOLEAN] /\ ended \in [Sides -> BOOLEAN]
    /\ got \in [Sides -> Seq(Nat)] /\ wire \in [Sides -> Seq(Frames)]
    /\ gone \in SUBSET Sides /\ fault \in BOOLEAN
    /\ \A s \in Sides : /\ up[s] = "idle" <=> stage[s] \notin Pumped
                        /\ down[s] = "idle" <=> stage[s] \notin Pumped
                        /\ stage[s] = "dropped" => Over(up[s]) /\ Over(down[s])

\* Who has got how far: the preamble is under way before there is data.
Preamble ==
    /\ stage["local"] = "new" => stage["remote"] = "new"
    /\ stage["local"] \in Pumped => stage["remote"] \in Pumped
    /\ stage["remote"] \in Pumped => request.mode = "stream"
    /\ stage["remote"] = "datagram" => request.mode # "stream"
    /\ up["local"] = "idle" =>
          \/ wire["local"] = <<>>
          \/ wire["local"] = <<<<"request">>>> /\ stage["remote"] = "reading"
    /\ up["remote"] = "idle" =>
          \/ wire["remote"] = <<>>
          \/ wire["remote"] = <<<<"error">>>> /\ stage["remote"] = "failed"
          \/ wire["remote"] = <<<<"ok">>>> /\ stage["remote"] = "datagram"
    /\ \A s \in Sides : up[s] # "idle" /\ wire[s] # <<>> => wire[s][1][1] # "error"

\* With no fault, a side is gone only when its handler is over, and neither handler fails
\* after the remote one has connected.
NoFault ==
    ~fault =>
       /\ \A s \in gone : stage[s] \in {"failed", "dropped"}
       /\ stage["remote"] \in {"reading", "connecting"} => stage["local"] = "awaiting"
       /\ stage["remote"] \in Pumped => stage["local"] \in {"awaiting", "pumping", "dropped"}
\* A connection the relay cut carries nothing any more.
AfterFault == fault => \A s \in Sides : wire[s] = <<>>

\* What side s sends: got by the other, on the wire, and in hand.
Flow(s) ==
    LET n == Len(got[other(s)]) IN
    /\ got[other(s)] = Sequence(n)
    /\ Stream(wire[s], n)
    /\ hold[s] \in {0, taken[s]} /\ taken[s] <= sent[s]
    /\ n + Chunks(wire[s]) + (IF hold[s] = 0 THEN 0 ELSE 1) <= taken[s]
    /\ ~fault /\ up[s] # "failed" =>
          n + Chunks(wire[s]) + (IF hold[s] = 0 THEN 0 ELSE 1) = taken[s]
    /\ Closing(wire[s]) = 1 => up[s] = "ok"
    /\ up[s] = "ok" => ~open[s] /\ hold[s] = 0 /\ taken[s] = sent[s]

\* How side s comes to the end of what the other sends: the other has shut down, or it has
\* seen this side do so.
Finish(s) ==
    /\ ended[s] => Over(down[s]) \/ stage[s] = "failed"
    /\ ~fault /\ Over(down[s]) =>
          /\ wire[other(s)] = <<>> /\ Over(up[other(s)])
          /\ up[other(s)] = "ok" \/ up[s] = "ok"

\* The inductive invariant of a relayed connection.
TunnelInv ==
    /\ TunnelTypes /\ Preamble /\ NoFault /\ AfterFault
    /\ \A s \in Sides : Flow(s) /\ Finish(s)

-----------------------------------------------------------------------------
(* What happens to a stream. *)

\* The kinds of frames.
LEMMA FrameKinds ==
    /\ \A f \in Frames : f[1] \in {"request", "ok", "error", "close", "data"}
    /\ \A n \in Nat : <<"data", n>> \in Frames /\ <<"data", n>>[1] = "data" /\ <<"data", n>>[2] = n
    /\ <<"close">> \in Frames /\ <<"close">>[1] = "close"
    /\ <<"request">> \in Frames /\ <<"request">>[1] = "request"
    /\ <<"ok">> \in Frames /\ <<"ok">>[1] = "ok"
    /\ <<"error">> \in Frames /\ <<"error">>[1] = "error"
BY DEF Frames

\* A stream that has nothing, or the preamble alone.
LEMMA NoStream ==
    ASSUME NEW n \in Nat
    PROVE  Stream(<<>>, n) /\ Chunks(<<>>) = 0 /\ Closing(<<>>) = 0
<1>1. Opening(<<>>) = 0 /\ Closing(<<>>) = 0 /\ Len(<<>>) = 0 /\ <<>> \in Seq(Frames)
  BY DEF Opening, Closing
<1>2. QED
  BY <1>1 DEF Stream, Chunks

\* A stream that has the preamble alone.
LEMMA OpenStream ==
    ASSUME NEW n \in Nat, NEW f \in {<<"request">>, <<"ok">>, <<"error">>}
    PROVE  /\ Stream(<<f>>, n) /\ Chunks(<<f>>) = 0 /\ Closing(<<f>>) = 0
           /\ Append(<<>>, f) = <<f>> /\ Tail(<<f>>) = <<>>
<1>1. f \in Frames /\ f[1] \in {"request", "ok", "error"}
  BY FrameKinds
<1>2. /\ <<f>> \in Seq(Frames) /\ <<f>> # <<>> /\ Len(<<f>>) = 1 /\ <<f>>[1] = f
      /\ Append(<<>>, f) = <<f>> /\ Tail(<<f>>) = <<>>
  BY <1>1
<1>3. Opening(<<f>>) = 1 /\ Closing(<<f>>) = 0
  BY <1>1, <1>2 DEF Opening, Closing
<1>4. QED
  BY <1>2, <1>3 DEF Stream, Chunks

\* The numbers of a stream.
LEMMA StreamParts ==
    ASSUME NEW w \in Seq(Frames)
    PROVE  /\ Len(w) \in Nat /\ Opening(w) \in {0, 1} /\ Closing(w) \in {0, 1}
           /\ Chunks(w) \in Nat /\ Len(w) = Opening(w) + Chunks(w) + Closing(w)
           /\ w # <<>> => Len(w) # 0 /\ w[1] \in Frames /\ w[Len(w)] \in Frames
<1>1. Len(w) \in Nat /\ (w # <<>> => Len(w) # 0)
  BY LenProperties, EmptySeq
<1>2. w # <<>> => w[1] \in Frames /\ w[Len(w)] \in Frames
  BY <1>1, ElementOfSeq
<1>3. Opening(w) \in {0, 1} /\ Closing(w) \in {0, 1}
  BY DEF Opening, Closing
<1>4. CASE w = <<>>
  BY <1>1, <1>4, NoStream DEF Opening, Closing, Chunks
<1>5. CASE w # <<>>
  <2>1. CASE Len(w) = 1
    <3>1. ~(Opening(w) = 1 /\ Closing(w) = 1)
      BY <2>1 DEF Opening, Closing
    <3>2. QED
      BY <1>1, <1>2, <1>3, <2>1, <3>1 DEF Chunks
  <2>2. CASE Len(w) # 1
    <3>1. Len(w) >= 2
      <4>1. \A k \in Nat : k # 0 /\ k # 1 => k >= 2
        OBVIOUS
      <4>2. QED
        BY <1>1, <1>5, <2>2, <4>1, Zenon
    <3>2. QED
      BY <1>1, <1>2, <1>3, <3>1 DEF Chunks
  <2>3. QED
    BY <2>1, <2>2
<1>6. QED
  BY <1>4, <1>5

\* A chunk is written to a stream that is not closed.
LEMMA WriteChunk ==
    ASSUME NEW w, NEW n, Stream(w, n), Closing(w) = 0, NEW k \in Nat, k = n + Chunks(w) + 1
    PROVE  /\ Stream(Append(w, <<"data", k>>), n)
           /\ Chunks(Append(w, <<"data", k>>)) = Chunks(w) + 1
           /\ Closing(Append(w, <<"data", k>>)) = 0
           /\ Append(w, <<"data", k>>)[1] = IF w = <<>> THEN <<"data", k>> ELSE w[1]
<1> DEFINE f == <<"data", k>>
           v == Append(w, f)
<1>1. w \in Seq(Frames) /\ n \in Nat /\ f \in Frames /\ f[1] = "data"
  BY FrameKinds DEF Stream
<1> HIDE DEF f
<1>2. /\ Len(w) \in Nat /\ Opening(w) \in {0, 1} /\ Chunks(w) \in Nat
      /\ Len(w) = Opening(w) + Chunks(w)
      /\ w # <<>> => Len(w) # 0
  BY <1>1, StreamParts
<1>3. /\ v \in Seq(Frames) /\ Len(v) = Len(w) + 1 /\ v[Len(w) + 1] = f
      /\ \A i \in 1..Len(w) : v[i] = w[i]
  BY <1>1, AppendProperties
<1>4. v # <<>> /\ v[1] = IF w = <<>> THEN f ELSE w[1]
  <2>1. v # <<>>
    BY <1>1
  <2>2. CASE w = <<>>
    BY <1>1, <1>3, <2>2
  <2>3. CASE w # <<>>
    <3>1. 1 \in 1..Len(w)
      BY <1>2, <2>3
    <3>2. QED
      BY <1>3, <2>3, <3>1
  <2>4. QED
    BY <2>1, <2>2, <2>3
<1> HIDE DEF v
<1>5. Closing(v) = 0
  BY <1>1, <1>2, <1>3 DEF Closing
<1>6. Opening(v) = Opening(w)
  BY <1>1, <1>4 DEF Opening
<1>7. Chunks(v) = Chunks(w) + 1
  BY <1>2, <1>3, <1>5, <1>6 DEF Chunks
<1>8. ASSUME NEW i \in 1..Chunks(v) PROVE v[Opening(v) + i] = <<"data", n + i>>
  <2>1. CASE i = Chunks(w) + 1
    <3>1. Opening(v) + i = Len(w) + 1 /\ n + i = k
      BY <1>1, <1>2, <1>6, <2>1
    <3>2. QED
      BY <1>3, <3>1 DEF f
  <2>2. CASE i # Chunks(w) + 1
    <3>1. i \in 1..Chunks(w)
      BY <1>2, <1>7, <2>2
    <3>2. Opening(v) + i \in 1..Len(w)
      BY <1>2, <1>6, <3>1
    <3>3. QED
      BY <1>3, <1>6, <3>1, <3>2 DEF Stream
  <2>3. QED
    BY <2>1, <2>2
<1>9. QED
  BY <1>1, <1>3, <1>4, <1>5, <1>7, <1>8 DEF Stream, f, v

\* A close frame is written to a stream that is not closed.
LEMMA WriteClose ==
    ASSUME NEW w, NEW n, Stream(w, n), Closing(w) = 0
    PROVE  /\ Stream(Append(w, <<"close">>), n)
           /\ Chunks(Append(w, <<"close">>)) = Chunks(w)
           /\ Append(w, <<"close">>)[1] = IF w = <<>> THEN <<"close">> ELSE w[1]
<1> DEFINE f == <<"close">>
           v == Append(w, f)
<1>1. w \in Seq(Frames) /\ n \in Nat /\ f \in Frames /\ f[1] = "close"
  BY FrameKinds DEF Stream
<1> HIDE DEF f
<1>2. /\ Len(w) \in Nat /\ Opening(w) \in {0, 1} /\ Chunks(w) \in Nat
      /\ Len(w) = Opening(w) + Chunks(w)
      /\ w # <<>> => Len(w) # 0
  BY <1>1, StreamParts
<1>3. /\ v \in Seq(Frames) /\ Len(v) = Len(w) + 1 /\ v[Len(w) + 1] = f
      /\ \A i \in 1..Len(w) : v[i] = w[i]
  BY <1>1, AppendProperties
<1>4. v # <<>> /\ v[1] = IF w = <<>> THEN f ELSE w[1]
  <2>1. v # <<>>
    BY <1>1
  <2>2. CASE w = <<>>
    BY <1>1, <1>3, <2>2
  <2>3. CASE w # <<>>
    <3>1. 1 \in 1..Len(w)
      BY <1>2, <2>3
    <3>2. QED
      BY <1>3, <2>3, <3>1
  <2>4. QED
    BY <2>1, <2>2, <2>3
<1> HIDE DEF v
<1>5. Closing(v) = 1
  BY <1>1, <1>2, <1>3, <1>4 DEF Closing
<1>6. Opening(v) = Opening(w)
  BY <1>1, <1>4 DEF Opening
<1>7. Chunks(v) = Chunks(w)
  BY <1>2, <1>3, <1>5, <1>6 DEF Chunks
<1>8. ASSUME NEW i \in 1..Chunks(v) PROVE v[Opening(v) + i] = <<"data", n + i>>
  <2>1. i \in 1..Chunks(w) /\ Opening(v) + i \in 1..Len(w)
    BY <1>2, <1>6, <1>7
  <2>2. QED
    BY <1>3, <1>6, <2>1 DEF Stream
<1>9. QED
  BY <1>1, <1>3, <1>4, <1>7, <1>8 DEF Stream, f, v

\* What is left of a stream when its first frame has been read.
LEMMA ReadFrame ==
    ASSUME NEW w \in Seq(Frames), w # <<>>
    PROVE  /\ Head(w) = w[1] /\ Tail(w) \in Seq(Frames) /\ Len(Tail(w)) = Len(w) - 1
           /\ \A i \in 1..Len(w) - 1 : Tail(w)[i] = w[i + 1]
BY HeadTailProperties

\* The frame after the first is a chunk or a close frame.
LEMMA ReadStream ==
    ASSUME NEW w, NEW n, Stream(w, n), w # <<>>, NEW d \in {0, 1},
           (Opening(w) = 1 /\ d = 0) \/ (w[1][1] = "data" /\ d = 1)
    PROVE  /\ d = 1 => w[1] = <<"data", n + 1>>
           /\ Stream(Tail(w), n + d) /\ Chunks(Tail(w)) = Chunks(w) - d
           /\ Closing(Tail(w)) = Closing(w) /\ Opening(Tail(w)) = 0
<1> DEFINE v == Tail(w)
           t == Len(w) - 1
<1>1. w \in Seq(Frames) /\ n \in Nat
  BY DEF Stream
<1>2. /\ Len(w) \in Nat /\ Opening(w) \in {0, 1} /\ Closing(w) \in {0, 1} /\ Chunks(w) \in Nat
      /\ Len(w) = Opening(w) + Chunks(w) + Closing(w) /\ Len(w) # 0 /\ w[1] \in Frames
  BY <1>1, StreamParts
<1>3. v \in Seq(Frames) /\ Len(v) = t /\ t \in Nat /\ \A i \in 1..t : v[i] = w[i + 1]
  BY <1>1, <1>2, ReadFrame
<1>4. Opening(w) + d = 1 /\ (d = 1 => Chunks(w) >= 1)
  <2>1. CASE d = 0
    BY <2>1
  <2>2. CASE d = 1
    <3>1. w[1][1] = "data" /\ Opening(w) = 0
      BY <2>2 DEF Opening
    <3>2. Len(w) = 1 => Closing(w) = 0
      BY <3>1 DEF Closing
    <3>3. QED
      BY <1>2, <2>2, <3>1, <3>2
  <2>3. QED
    BY <2>1, <2>2
<1>5. d = 1 => w[1] = <<"data", n + 1>>
  <2>1. SUFFICES ASSUME d = 1 PROVE w[1] = <<"data", n + 1>>
    OBVIOUS
  <2>2. 1 \in 1..Chunks(w) /\ Opening(w) + 1 = 1
    BY <1>2, <1>4, <2>1
  <2>3. QED
    BY <2>2 DEF Stream
<1> HIDE DEF v, t
<1>6. Closing(v) = Closing(w)
  <2>1. CASE t = 0
    <3>1. Len(w) = 1 /\ v = <<>>
      BY <1>2, <1>3, <2>1, EmptySeq DEF t
    <3>2. w[1][1] # "close"
      BY DEF Opening
    <3>3. QED
      BY <3>1, <3>2 DEF Closing
  <2>2. CASE t # 0
    <3>1. t \in 1..t /\ t + 1 = Len(w)
      BY <1>2, <1>3, <2>2 DEF t
    <3>2. v[Len(v)] = w[Len(w)]
      BY <1>3, <3>1
    <3>3. v # <<>>
      BY <1>3, <2>2, EmptySeq
    <3>4. QED
      BY <3>2, <3>3 DEF Closing
  <2>3. QED
    BY <2>1, <2>2
<1>7. ASSUME NEW i \in 1..Chunks(w) - d PROVE v[i] = <<"data", (n + d) + i>>
  <2>1. i \in 1..t /\ i + d \in 1..Chunks(w) /\ Opening(w) + (i + d) = i + 1 /\ n + (i + d) = (n + d) + i
    BY <1>1, <1>2, <1>4 DEF t
  <2>2. w[Opening(w) + (i + d)] = <<"data", n + (i + d)>>
    BY <2>1 DEF Stream
  <2>3. QED
    BY <1>3, <2>1, <2>2
<1>8. Opening(v) = 0
  <2>1. CASE v = <<>>
    BY <2>1 DEF Opening
  <2>2. CASE v # <<>> /\ Chunks(w) - d >= 1
    <3>1. v[1] = <<"data", (n + d) + 1>> /\ (n + d) + 1 \in Nat
      BY <1>1, <1>2, <1>7, <2>2
    <3>2. v[1][1] = "data"
      BY <3>1, FrameKinds
    <3>3. QED
      BY <3>2 DEF Opening
  <2>3. CASE v # <<>> /\ ~(Chunks(w) - d >= 1)
    <3>1. Len(v) # 0
      BY <1>3, <2>3, EmptySeq
    <3>2. Len(v) = 1 /\ Closing(w) = 1
      BY <1>2, <1>3, <1>4, <2>3, <3>1 DEF t
    <3>3. v[1][1] = "close"
      BY <1>6, <3>2 DEF Closing
    <3>4. QED
      BY <3>3 DEF Opening
  <2>4. QED
    BY <2>1, <2>2, <2>3
<1>9. Chunks(v) = Chunks(w) - d
  BY <1>2, <1>3, <1>4, <1>6, <1>8 DEF Chunks, t
<1>10. n + d \in Nat /\ \A i \in 1..Chunks(v) : v[Opening(v) + i] = <<"data", (n + d) + i>>
  <2>1. \A i \in 1..Chunks(v) : Opening(v) + i = i
    BY <1>8
  <2>2. QED
    BY <1>1, <1>7, <1>9, <2>1
<1>11. QED
  BY <1>3, <1>5, <1>6, <1>8, <1>9, <1>10 DEF Stream, v

\* Behind a close frame there is nothing.
LEMMA ReadClose ==
    ASSUME NEW w, NEW n, Stream(w, n), w # <<>>, w[1][1] = "close"
    PROVE  Tail(w) = <<>> /\ Chunks(w) = 0 /\ Closing(w) = 1
<1>1. w \in Seq(Frames) /\ n \in Nat /\ Opening(w) = 0
  BY DEF Stream, Opening
<1>2. /\ Len(w) \in Nat /\ Closing(w) \in {0, 1} /\ Chunks(w) \in Nat
      /\ Len(w) = Opening(w) + Chunks(w) + Closing(w) /\ Len(w) # 0
  BY <1>1, StreamParts
<1>3. Chunks(w) = 0
  <2>1. SUFFICES ASSUME Chunks(w) # 0 PROVE FALSE
    OBVIOUS
  <2>2. 1 \in 1..Chunks(w) /\ Opening(w) + 1 = 1
    BY <1>1, <1>2, <2>1
  <2>3. w[1] = <<"data", n + 1>>
    BY <2>2 DEF Stream
  <2>4. QED
    BY <1>1, <2>3, FrameKinds
<1>4. Len(w) = 1 /\ Closing(w) = 1
  BY <1>1, <1>2, <1>3
<1>5. Tail(w) \in Seq(Frames) /\ Len(Tail(w)) = 0
  BY <1>1, <1>4, ReadFrame
<1>6. QED
  BY <1>3, <1>4, <1>5, EmptySeq

-----------------------------------------------------------------------------
(* What a step leaves alone. *)

\* There are two sides, and each is the other of the other.
LEMMA OtherSide ==
    ASSUME NEW s \in Sides
    PROVE  /\ other(s) \in Sides /\ other(s) # s /\ other(other(s)) = s
           /\ \A t \in Sides : t = s \/ t = other(s)
BY DEF Sides, other

\* What Flow(s) and Finish(s) are about.
SameFlow(s) ==
    /\ got'[other(s)] = got[other(s)] /\ wire'[s] = wire[s] /\ hold'[s] = hold[s]
    /\ taken'[s] = taken[s] /\ sent'[s] = sent[s] /\ open'[s] = open[s] /\ up'[s] = up[s]
    /\ fault' = fault
SameFinish(s) ==
    /\ ended'[s] = ended[s] /\ down'[s] = down[s] /\ wire'[other(s)] = wire[other(s)]
    /\ up'[other(s)] = up[other(s)] /\ up'[s] = up[s] /\ fault' = fault
    /\ stage[s] = "failed" => stage'[s] = "failed"

\* A step that leaves what Flow and Finish speak of keeps them.
LEMMA FlowKept == ASSUME NEW s \in Sides, Flow(s), SameFlow(s) PROVE Flow(s)'
BY DEF Flow, SameFlow

LEMMA FinishKept == ASSUME NEW s \in Sides, Finish(s), SameFinish(s) PROVE Finish(s)'
BY DEF Finish, SameFinish

\* A step of a copy task: streams change only where there is a pump and no fault.
LEMMA PumpPhase ==
    ASSUME TunnelInv, UNCHANGED <<request, stage, gone, fault>>,
           \A t \in Sides : up[t] = "idle" <=> up'[t] = "idle",
           \A t \in Sides : \/ wire'[t] = wire[t]
                            \/ /\ up[t] # "idle" /\ ~fault
                               /\ wire'[t] # <<>> => wire'[t][1][1] # "error"
    PROVE  Preamble' /\ NoFault' /\ AfterFault'
<1>1. Preamble /\ NoFault /\ AfterFault
  BY DEF TunnelInv
<1>2. "local" \in Sides /\ "remote" \in Sides
  BY DEF Sides
<1>3. Preamble'
  BY <1>1, <1>2 DEF Preamble
<1>4. NoFault'
  BY <1>1 DEF NoFault
<1>5. AfterFault'
  BY <1>1 DEF AfterFault
<1>6. QED
  BY <1>3, <1>4, <1>5

\* What a step of side s starts from.
LEMMA TunnelFacts ==
    ASSUME TunnelInv, NEW s \in Sides
    PROVE  /\ TunnelTypes /\ Flow(s) /\ Flow(other(s)) /\ Finish(s) /\ Finish(other(s))
           /\ \A t \in Sides : t = s \/ t = other(s)
           /\ other(s) \in Sides /\ other(s) # s /\ other(other(s)) = s
           /\ Len(got[s]) \in Nat /\ Len(got[other(s)]) \in Nat
           /\ Chunks(wire[s]) \in Nat /\ Chunks(wire[other(s)]) \in Nat
<1>1. other(s) \in Sides
  BY OtherSide
<1>2. \A t \in Sides : got[t] \in Seq(Nat) /\ wire[t] \in Seq(Frames)
  BY DEF TunnelInv, TunnelTypes
<1>3. \A t \in Sides : Len(got[t]) \in Nat /\ Chunks(wire[t]) \in Nat
  BY <1>2, LenProperties, StreamParts
<1>4. QED
  BY <1>1, <1>3, OtherSide DEF TunnelInv

\* A step that changes nothing the invariant is about.
LEMMA TunnelRests ==
    ASSUME TunnelInv,
           UNCHANGED <<request, stage, up, down, sent, taken, hold, open, ended, got, wire, gone, fault>>
    PROVE  TunnelInv'
<1>1. Preamble' /\ NoFault' /\ AfterFault'
  BY PumpPhase
<1>2. TunnelTypes'
  BY DEF TunnelInv, TunnelTypes
<1>3. ASSUME NEW s \in Sides PROVE Flow(s)' /\ Finish(s)'
  BY FlowKept, FinishKept DEF TunnelInv, SameFlow, SameFinish
<1>4. QED
  BY <1>1, <1>2, <1>3 DEF TunnelInv

-----------------------------------------------------------------------------
(* The applications, and the copy that reads them. *)

\* An application that sends gives its copy more to take.
LEMMA AppSend == ASSUME TunnelInv, NEW s \in Sides, app_send(s) PROVE TunnelInv'
<1>1. /\ TunnelTypes /\ Flow(s) /\ Flow(other(s)) /\ Finish(s) /\ Finish(other(s))
      /\ \A t \in Sides : t = s \/ t = other(s)
      /\ other(s) \in Sides /\ other(s) # s /\ other(other(s)) = s
  BY TunnelFacts
<1>2. /\ open[s] /\ sent' = [sent EXCEPT ![s] = sent[s] + 1]
      /\ UNCHANGED <<request, stage, up, down, taken, hold, open, ended, got, wire, gone, fault>>
  BY DEF app_send, Set, handlers, copies, relay
<1>3. sent[s] \in Nat /\ taken[s] \in Nat /\ sent'[s] = sent[s] + 1 /\ sent'[other(s)] = sent[other(s)]
  BY <1>1, <1>2 DEF TunnelTypes
<1>4. Preamble' /\ NoFault' /\ AfterFault'
  BY <1>2, PumpPhase
<1>5. TunnelTypes'
  BY <1>1, <1>2 DEF TunnelTypes
<1>6. Flow(s)'
  BY <1>1, <1>2, <1>3 DEF Flow
<1>7. Flow(other(s))' /\ Finish(s)' /\ Finish(other(s))'
  BY <1>1, <1>2, <1>3, FlowKept, FinishKept DEF SameFlow, SameFinish
<1>8. QED
  BY <1>1, <1>4, <1>5, <1>6, <1>7 DEF TunnelInv

\* Shutting down does not touch what was sent.
LEMMA AppShutdown == ASSUME TunnelInv, NEW s \in Sides, app_shutdown(s) PROVE TunnelInv'
<1>1. /\ TunnelTypes /\ Flow(s) /\ Flow(other(s)) /\ Finish(s) /\ Finish(other(s))
      /\ \A t \in Sides : t = s \/ t = other(s)
      /\ other(s) \in Sides /\ other(s) # s /\ other(other(s)) = s
  BY TunnelFacts
<1>2. /\ open' = [open EXCEPT ![s] = FALSE]
      /\ UNCHANGED <<request, stage, up, down, taken, hold, sent, ended, got, wire, gone, fault>>
  BY DEF app_shutdown, Set, handlers, copies, relay
<1>3. open'[s] = FALSE /\ open'[other(s)] = open[other(s)]
  BY <1>1, <1>2 DEF TunnelTypes
<1>4. Preamble' /\ NoFault' /\ AfterFault'
  BY <1>2, PumpPhase
<1>5. TunnelTypes'
  BY <1>1, <1>2 DEF TunnelTypes
<1>6. Flow(s)'
  BY <1>1, <1>2, <1>3 DEF Flow
<1>7. Flow(other(s))' /\ Finish(s)' /\ Finish(other(s))'
  BY <1>1, <1>2, <1>3, FlowKept, FinishKept DEF SameFlow, SameFinish
<1>8. QED
  BY <1>1, <1>4, <1>5, <1>6, <1>7 DEF TunnelInv

\* The copy takes the next chunk in hand.
LEMMA CopyRead == ASSUME TunnelInv, NEW s \in Sides, copy_read(s) PROVE TunnelInv'
<1>1. /\ TunnelTypes /\ Flow(s) /\ Flow(other(s)) /\ Finish(s) /\ Finish(other(s))
      /\ \A t \in Sides : t = s \/ t = other(s)
      /\ other(s) \in Sides /\ other(s) # s /\ other(other(s)) = s
      /\ Len(got[other(s)]) \in Nat /\ Chunks(wire[s]) \in Nat
  BY TunnelFacts
<1>2. /\ up[s] = "run" /\ hold[s] = 0 /\ taken[s] < sent[s]
      /\ taken' = [taken EXCEPT ![s] = taken[s] + 1] /\ hold' = [hold EXCEPT ![s] = taken[s] + 1]
      /\ UNCHANGED <<request, stage, up, down, sent, open, ended, got, wire, gone, fault>>
  BY DEF copy_read, Set, handlers, apps, relay
<1>3. /\ sent[s] \in Nat /\ taken[s] \in Nat
      /\ taken'[s] = taken[s] + 1 /\ taken'[other(s)] = taken[other(s)]
      /\ hold'[s] = taken[s] + 1 /\ hold'[other(s)] = hold[other(s)]
  BY <1>1, <1>2 DEF TunnelTypes
<1>4. Preamble' /\ NoFault' /\ AfterFault'
  BY <1>2, PumpPhase
<1>5. TunnelTypes'
  BY <1>1, <1>2, <1>3 DEF TunnelTypes
<1>6. Flow(s)'
  BY <1>1, <1>2, <1>3 DEF Flow
<1>7. Flow(other(s))' /\ Finish(s)' /\ Finish(other(s))'
  BY <1>1, <1>2, <1>3, FlowKept, FinishKept DEF SameFlow, SameFinish
<1>8. QED
  BY <1>1, <1>4, <1>5, <1>6, <1>7 DEF TunnelInv

-----------------------------------------------------------------------------
(* The copy that writes to the relay. *)

\* A step of this copy has to keep what it sends in order; nobody has come to its end yet.
LEMMA SenderStep ==
    ASSUME TunnelInv, NEW s \in Sides, NEW c \in {"run", "ok", "failed"}, up[s] = "run",
           up' = [up EXCEPT ![s] = c], wire' \in [Sides -> Seq(Frames)],
           hold' \in [Sides -> Nat], hold'[other(s)] = hold[other(s)],
           UNCHANGED <<request, stage, down, taken, sent, open, ended, got, gone, fault>>,
           wire'[other(s)] = wire[other(s)],
           \/ wire'[s] = wire[s]
           \/ ~fault /\ (wire'[s] # <<>> => wire'[s][1][1] # "error"),
           up'[s] = c => Flow(s)'
    PROVE  TunnelInv'
<1>1. /\ TunnelTypes /\ Flow(s) /\ Flow(other(s)) /\ Finish(s) /\ Finish(other(s))
      /\ \A t \in Sides : t = s \/ t = other(s)
      /\ other(s) \in Sides /\ other(s) # s /\ other(other(s)) = s
  BY TunnelFacts
<1>2. up'[s] = c /\ up'[other(s)] = up[other(s)]
  BY <1>1 DEF TunnelTypes
<1>3. Preamble' /\ NoFault' /\ AfterFault'
  BY <1>1, <1>2, PumpPhase
<1>4. TunnelTypes'
  <2>1. up' \in [Sides -> CopyStates]
    BY <1>1 DEF TunnelTypes, CopyStates
  <2>2. \A t \in Sides : /\ up'[t] = "idle" <=> stage[t] \notin Pumped
                         /\ stage[t] = "dropped" => Over(up'[t])
    BY <1>1, <1>2 DEF TunnelTypes, Over
  <2>3. QED
    BY <1>1, <2>1, <2>2 DEF TunnelTypes
<1>5. Flow(other(s))'
  BY <1>1, <1>2, FlowKept DEF SameFlow
<1>6. Finish(s)'
  BY <1>1, <1>2 DEF Finish
<1>7. Finish(other(s))'
  BY <1>1, <1>2 DEF Finish, Over
<1>8. QED
  BY <1>1, <1>2, <1>3, <1>4, <1>5, <1>6, <1>7 DEF TunnelInv

\* What it starts from.
LEMMA SenderFacts ==
    ASSUME TunnelInv, NEW s \in Sides, up[s] = "run"
    PROVE  /\ Flow(s) /\ other(s) \in Sides /\ other(s) # s
           /\ wire \in [Sides -> Seq(Frames)] /\ hold \in [Sides -> Nat]
           /\ up = [up EXCEPT ![s] = "run"]
           /\ Closing(wire[s]) = 0
           /\ wire[s] # <<>> => wire[s][1][1] # "error"
           /\ taken[s] \in Nat /\ hold[s] \in Nat
           /\ Len(got[other(s)]) \in Nat /\ Chunks(wire[s]) \in Nat
<1>1. TunnelTypes /\ Flow(s) /\ other(s) \in Sides /\ other(s) # s
      /\ Len(got[other(s)]) \in Nat /\ Chunks(wire[s]) \in Nat
  BY TunnelFacts
<1>2. /\ wire \in [Sides -> Seq(Frames)] /\ hold \in [Sides -> Nat] /\ up \in [Sides -> CopyStates]
      /\ taken[s] \in Nat /\ hold[s] \in Nat
  BY <1>1 DEF TunnelTypes
<1>3. Closing(wire[s]) = 0
  <2>1. Closing(wire[s]) # 1
    BY <1>1 DEF Flow
  <2>2. QED
    BY <1>2, <2>1, StreamParts
<1>4. wire[s] # <<>> => wire[s][1][1] # "error"
  BY DEF TunnelInv, Preamble
<1>5. QED
  BY <1>1, <1>2, <1>3, <1>4

\* The chunk in hand goes to the end of the stream, or the write fails and ends the copy.
LEMMA CopyWrite == ASSUME TunnelInv, NEW s \in Sides, copy_write(s) PROVE TunnelInv'
<1> DEFINE n == Len(got[other(s)])
           w == wire[s]
<1>1. /\ up[s] = "run" /\ hold[s] # 0 /\ hold' = [hold EXCEPT ![s] = 0]
      /\ UNCHANGED <<request, stage, down, taken, sent, open, ended, got, gone, fault>>
  BY DEF copy_write, Set, handlers, apps
<1>2. /\ Flow(s) /\ other(s) \in Sides /\ other(s) # s
      /\ wire \in [Sides -> Seq(Frames)] /\ hold \in [Sides -> Nat]
      /\ up = [up EXCEPT ![s] = "run"]
      /\ Closing(w) = 0 /\ (w # <<>> => w[1][1] # "error")
      /\ taken[s] \in Nat /\ hold[s] \in Nat /\ n \in Nat /\ Chunks(w) \in Nat
  BY <1>1, SenderFacts
<1>3. hold' \in [Sides -> Nat] /\ hold'[s] = 0 /\ hold'[other(s)] = hold[other(s)]
  BY <1>1, <1>2
<1>4. hold[s] = taken[s] /\ n + Chunks(w) + 1 <= taken[s] /\ Stream(w, n)
      /\ (~fault => n + Chunks(w) + 1 = taken[s])
  BY <1>1, <1>2 DEF Flow
<1>5. CASE up' = up /\ Send(s, <<"data", hold[s]>>) /\ ~fault
  <2> DEFINE k == hold[s]
             v == Append(w, <<"data", k>>)
  <2>1. k \in Nat /\ k = n + Chunks(w) + 1
    BY <1>2, <1>4, <1>5
  <2> HIDE DEF k
  <2>2. /\ Stream(v, n) /\ Chunks(v) = Chunks(w) + 1 /\ Closing(v) = 0
        /\ v[1] = IF w = <<>> THEN <<"data", k>> ELSE w[1]
    BY <1>2, <1>4, <2>1, WriteChunk
  <2>3. v[1][1] # "error"
    BY <1>2, <2>1, <2>2, FrameKinds
  <2>4. wire' = [wire EXCEPT ![s] = v]
    BY <1>5 DEF Send, k
  <2> HIDE DEF v
  <2>5. v \in Seq(Frames)
    BY <2>2 DEF Stream
  <2>6. wire' \in [Sides -> Seq(Frames)] /\ wire'[s] = v /\ wire'[other(s)] = wire[other(s)]
    BY <1>2, <2>4, <2>5
  <2>7. Flow(s)'
    <3>1. n + Chunks(v) + 0 = taken[s]
      <4>1. \A c, x, y \in Nat : y = x + c + 1 => x + (c + 1) + 0 = y
        OBVIOUS
      <4>2. taken[s] = n + Chunks(w) + 1
        BY <1>4, <1>5
      <4>3. QED
        BY <1>2, <2>2, <4>1, <4>2
    <3>2. /\ got[other(s)] = Sequence(n) /\ taken[s] <= sent[s]
          /\ hold'[s] \in {0, taken[s]}
      BY <1>2, <1>3 DEF Flow
    <3>3. QED
      BY <1>1, <1>2, <1>3, <1>5, <2>2, <2>6, <3>1, <3>2 DEF Flow
  <2>8. QED
    BY <1>1, <1>2, <1>3, <1>5, <2>3, <2>6, <2>7, SenderStep
<1>6. CASE up' = up /\ Send(s, <<"data", hold[s]>>) /\ fault
  <2>1. wire' = wire
    BY <1>6 DEF Send
  <2>2. Flow(s)'
    BY <1>1, <1>2, <1>3, <1>4, <1>6, <2>1 DEF Flow
  <2>3. QED
    BY <1>1, <1>2, <1>3, <1>6, <2>1, <2>2, SenderStep
<1>7. CASE up' = [up EXCEPT ![s] = "failed"] /\ wire' = wire
  <2>1. ASSUME up'[s] = "failed" PROVE Flow(s)'
    BY <1>1, <1>2, <1>3, <1>4, <1>7, <2>1 DEF Flow
  <2>2. QED
    BY <1>1, <1>2, <1>3, <1>7, <2>1, SenderStep
<1>8. QED
  BY <1>5, <1>6, <1>7 DEF copy_write, Set

\* The close frame goes behind everything that was taken.
LEMMA CopyEof == ASSUME TunnelInv, NEW s \in Sides, copy_eof(s) PROVE TunnelInv'
<1> DEFINE n == Len(got[other(s)])
           w == wire[s]
<1>1. /\ up[s] = "run" /\ hold[s] = 0 /\ taken[s] = sent[s] /\ ~open[s] /\ hold' = hold
      /\ UNCHANGED <<request, stage, down, taken, sent, open, ended, got, gone, fault>>
  BY DEF copy_eof, handlers, apps
<1>2. /\ Flow(s) /\ other(s) \in Sides /\ other(s) # s
      /\ wire \in [Sides -> Seq(Frames)] /\ hold \in [Sides -> Nat]
      /\ Closing(w) = 0 /\ (w # <<>> => w[1][1] # "error")
      /\ taken[s] \in Nat /\ n \in Nat /\ Chunks(w) \in Nat
  BY <1>1, SenderFacts
<1>3. /\ Stream(w, n) /\ n + Chunks(w) <= taken[s]
      /\ (~fault => n + Chunks(w) = taken[s])
  BY <1>1, <1>2 DEF Flow
<1>4. CASE up' = [up EXCEPT ![s] = "ok"] /\ Send(s, <<"close">>) /\ ~fault
  <2> DEFINE v == Append(w, <<"close">>)
  <2>1. /\ Stream(v, n) /\ Chunks(v) = Chunks(w)
        /\ v[1] = IF w = <<>> THEN <<"close">> ELSE w[1]
    BY <1>2, <1>3, WriteClose
  <2>2. v[1][1] # "error"
    BY <1>2, <2>1, FrameKinds
  <2>3. wire' = [wire EXCEPT ![s] = v]
    BY <1>4 DEF Send
  <2> HIDE DEF v
  <2>4. v \in Seq(Frames)
    BY <2>1 DEF Stream
  <2>5. wire' \in [Sides -> Seq(Frames)] /\ wire'[s] = v /\ wire'[other(s)] = wire[other(s)]
    BY <1>2, <2>3, <2>4
  <2>6. ASSUME up'[s] = "ok" PROVE Flow(s)'
    BY <1>1, <1>2, <1>3, <1>4, <2>1, <2>5, <2>6 DEF Flow
  <2>7. QED
    BY <1>1, <1>2, <1>4, <2>2, <2>5, <2>6, SenderStep
<1>5. CASE up' = [up EXCEPT ![s] = "ok"] /\ Send(s, <<"close">>) /\ fault
  <2>1. wire' = wire
    BY <1>5 DEF Send
  <2>2. ASSUME up'[s] = "ok" PROVE Flow(s)'
    BY <1>1, <1>2, <1>3, <1>5, <2>1, <2>2 DEF Flow
  <2>3. QED
    BY <1>1, <1>2, <1>5, <2>1, <2>2, SenderStep
<1>6. CASE up' = [up EXCEPT ![s] = "failed"] /\ wire' = wire
  <2>1. ASSUME up'[s] = "failed" PROVE Flow(s)'
    BY <1>1, <1>2, <1>3, <1>6, <2>1 DEF Flow
  <2>2. QED
    BY <1>1, <1>2, <1>6, <2>1, SenderStep
<1>7. QED
  BY <1>4, <1>5, <1>6 DEF copy_eof, Set

-----------------------------------------------------------------------------
(* The copy that reads from the relay. *)

\* The numbers from 1 and one more.
LEMMA NextNumber ==
    ASSUME NEW n \in Nat
    PROVE  Append(Sequence(n), n + 1) = Sequence(n + 1) /\ Len(Sequence(n)) = n
<1>1. Sequence(n) \in Seq(Nat) /\ Sequence(n + 1) \in Seq(Nat)
      /\ Len(Sequence(n)) = n /\ Len(Sequence(n + 1)) = n + 1
  BY IsASeq, LenProperties DEF Sequence
<1>2. /\ Append(Sequence(n), n + 1) \in Seq(Nat) /\ Len(Append(Sequence(n), n + 1)) = n + 1
      /\ \A i \in 1..n : Append(Sequence(n), n + 1)[i] = Sequence(n)[i]
      /\ Append(Sequence(n), n + 1)[n + 1] = n + 1
  BY <1>1, AppendProperties
<1>3. \A i \in 1..n + 1 : Append(Sequence(n), n + 1)[i] = Sequence(n + 1)[i]
  <2>1. \A i \in 1..n : Sequence(n)[i] = i
    BY DEF Sequence
  <2>2. \A i \in 1..n + 1 : Sequence(n + 1)[i] = i /\ (i \in 1..n \/ i = n + 1)
    BY DEF Sequence
  <2>3. QED
    BY <1>2, <2>1, <2>2
<1>4. QED
  BY <1>1, <1>2, <1>3, SeqEqual

\* What it starts from: a frame at hand is on the stream of the other side, whose pump has
\* begun if the frame is not of the preamble, and there is no fault.
LEMMA ReaderFacts ==
    ASSUME TunnelInv, NEW s \in Sides, down[s] = "run", Frame(s) \in {"data", "close"}
    PROVE  LET o == other(s) IN
           /\ TunnelTypes /\ Flow(s) /\ Flow(o) /\ Finish(s) /\ Finish(o)
           /\ \A t \in Sides : t = s \/ t = o
           /\ o \in Sides /\ o # s /\ other(o) = s
           /\ wire \in [Sides -> Seq(Frames)] /\ got \in [Sides -> Seq(Nat)]
           /\ Stream(wire[o], Len(got[s])) /\ wire[o] # <<>> /\ wire[o][1][1] = Frame(s)
           /\ Head(wire[o]) = wire[o][1] /\ ~fault /\ up[o] # "idle"
           /\ Len(got[s]) \in Nat /\ Chunks(wire[o]) \in Nat /\ taken[o] \in Nat
<1> DEFINE o == other(s)
           w == wire[o]
<1>1. /\ TunnelTypes /\ Flow(s) /\ Flow(o) /\ Finish(s) /\ Finish(o)
      /\ \A t \in Sides : t = s \/ t = o
      /\ o \in Sides /\ o # s /\ other(o) = s
      /\ Len(got[s]) \in Nat /\ Chunks(w) \in Nat
  BY TunnelFacts
<1>2. wire \in [Sides -> Seq(Frames)] /\ got \in [Sides -> Seq(Nat)] /\ taken[o] \in Nat
  BY <1>1 DEF TunnelTypes
<1>3. w # <<>> /\ Head(w)[1] = Frame(s)
  BY DEF Frame, None
<1>4. Head(w) = w[1]
  BY <1>1, <1>2, <1>3, ReadFrame
<1>5. Stream(w, Len(got[s]))
  BY <1>1 DEF Flow
<1>6. ~fault
  BY <1>1, <1>3 DEF TunnelInv, AfterFault
<1>7. up[o] # "idle"
  <2>1. Preamble /\ o \in {"local", "remote"}
    BY <1>1 DEF TunnelInv, Sides
  <2>2. /\ w # <<<<"request">>>> /\ w # <<<<"error">>>> /\ w # <<<<"ok">>>>
    BY <1>3, <1>4, FrameKinds
  <2>3. QED
    BY <1>3, <2>1, <2>2 DEF Preamble
<1>8. QED
  BY <1>1, <1>2, <1>3, <1>4, <1>5, <1>6, <1>7

\* The chunk at the head of the stream is the next one of the application.
LEMMA CopyDown == ASSUME TunnelInv, NEW s \in Sides, copy_down(s) PROVE TunnelInv'
<1> DEFINE o == other(s)
           w == wire[o]
           n == Len(got[s])
           k == w[1][2]
<1>1. /\ down[s] = "run" /\ Frame(s) = "data" /\ wire' = [wire EXCEPT ![o] = Tail(w)]
      /\ got' = [got EXCEPT ![s] = Append(got[s], Head(w)[2])]
      /\ UNCHANGED <<request, stage, up, down, taken, hold, sent, open, ended, gone, fault>>
  BY DEF copy_down, Set, Read, handlers, copies
<1>2. /\ TunnelTypes /\ Flow(s) /\ Flow(o) /\ Finish(s) /\ Finish(o)
      /\ \A t \in Sides : t = s \/ t = o
      /\ o \in Sides /\ o # s /\ other(o) = s
      /\ wire \in [Sides -> Seq(Frames)] /\ got \in [Sides -> Seq(Nat)]
      /\ Stream(w, n) /\ w # <<>> /\ w[1][1] = "data" /\ Head(w) = w[1] /\ ~fault /\ up[o] # "idle"
      /\ n \in Nat /\ Chunks(w) \in Nat /\ taken[o] \in Nat
  BY <1>1, ReaderFacts
<1>3. /\ w[1] = <<"data", n + 1>> /\ Stream(Tail(w), n + 1) /\ Chunks(Tail(w)) = Chunks(w) - 1
      /\ Closing(Tail(w)) = Closing(w) /\ Opening(Tail(w)) = 0
  BY <1>2, ReadStream
<1>4. k = n + 1
  BY <1>2, <1>3, FrameKinds
<1>5. Tail(w) \in Seq(Frames) /\ (Tail(w) # <<>> => Tail(w)[1][1] # "error")
  BY <1>3 DEF Stream, Opening
<1>6. /\ wire' \in [Sides -> Seq(Frames)] /\ wire'[o] = Tail(w) /\ wire'[s] = wire[s]
  BY <1>1, <1>2, <1>5
<1>7. got[s] = Sequence(n)
  BY <1>2 DEF Flow
<1>8. got'[s] = Sequence(n + 1) /\ got'[o] = got[o] /\ Len(got'[s]) = n + 1
      /\ got' \in [Sides -> Seq(Nat)]
  <2>1. got' = [got EXCEPT ![s] = Append(got[s], n + 1)]
    BY <1>1, <1>2, <1>4
  <2>2. Append(got[s], n + 1) \in Seq(Nat)
    BY <1>2
  <2>3. Append(got[s], n + 1) = Sequence(n + 1) /\ Len(Sequence(n + 1)) = n + 1
    <3>1. n + 1 \in Nat
      BY <1>2
    <3>2. Append(Sequence(n), n + 1) = Sequence(n + 1)
      BY <1>2, NextNumber
    <3>3. Len(Sequence(n + 1)) = n + 1
      BY <3>1, NextNumber
    <3>4. QED
      BY <1>7, <3>2, <3>3
  <2>4. QED
    BY <1>2, <2>1, <2>2, <2>3
<1>9. Preamble' /\ NoFault' /\ AfterFault'
  BY <1>1, <1>2, <1>5, <1>6, PumpPhase
<1>10. TunnelTypes'
  BY <1>1, <1>2, <1>6, <1>8 DEF TunnelTypes
<1>11. Flow(o)'
  <2>1. n + 1 + (Chunks(w) - 1) = n + Chunks(w)
    BY <1>2
  <2>2. QED
    BY <1>1, <1>2, <1>3, <1>6, <1>8, <2>1 DEF Flow
<1>12. Flow(s)' /\ Finish(o)'
  BY <1>1, <1>2, <1>6, <1>8, FlowKept, FinishKept DEF SameFlow, SameFinish
<1>13. Finish(s)'
  BY <1>1, <1>2 DEF Finish, Over
<1>14. QED
  BY <1>2, <1>9, <1>10, <1>11, <1>12, <1>13 DEF TunnelInv

\* Behind the close frame there is nothing, and the other side has shut down.
LEMMA CopyDownEof == ASSUME TunnelInv, NEW s \in Sides, copy_down_eof(s) PROVE TunnelInv'
<1> DEFINE o == other(s)
           w == wire[o]
           n == Len(got[s])
<1>1. /\ down[s] = "run" /\ Frame(s) = "close" /\ wire' = [wire EXCEPT ![o] = Tail(w)]
      /\ down' = [down EXCEPT ![s] = "ok"] /\ ended' = [ended EXCEPT ![s] = TRUE]
      /\ UNCHANGED <<request, stage, up, taken, hold, sent, open, got, gone, fault>>
  BY DEF copy_down_eof, Set, Read, handlers
<1>2. /\ TunnelTypes /\ Flow(s) /\ Flow(o) /\ Finish(s) /\ Finish(o)
      /\ \A t \in Sides : t = s \/ t = o
      /\ o \in Sides /\ o # s /\ other(o) = s
      /\ wire \in [Sides -> Seq(Frames)]
      /\ Stream(w, n) /\ w # <<>> /\ w[1][1] = "close" /\ ~fault /\ up[o] # "idle"
      /\ n \in Nat
  BY <1>1, ReaderFacts
<1>3. Tail(w) = <<>> /\ Chunks(w) = 0 /\ Closing(w) = 1
  BY <1>2, ReadClose
<1>4. up[o] = "ok"
  BY <1>2, <1>3 DEF Flow
<1>5. Stream(<<>>, n) /\ Chunks(<<>>) = 0 /\ Closing(<<>>) = 0 /\ <<>> \in Seq(Frames)
  BY <1>2, NoStream
<1>6. wire' \in [Sides -> Seq(Frames)] /\ wire'[o] = <<>> /\ wire'[s] = wire[s]
  BY <1>1, <1>2, <1>3, <1>5
<1>7. /\ down'[s] = "ok" /\ down'[o] = down[o] /\ down' \in [Sides -> CopyStates]
      /\ ended'[s] = TRUE /\ ended'[o] = ended[o] /\ ended' \in [Sides -> BOOLEAN]
  BY <1>1, <1>2 DEF TunnelTypes, CopyStates
<1>8. Preamble' /\ NoFault' /\ AfterFault'
  BY <1>1, <1>2, <1>6, PumpPhase
<1>9. TunnelTypes'
  <2>1. \A t \in Sides : /\ down'[t] = "idle" <=> stage[t] \notin Pumped
                         /\ stage[t] = "dropped" => Over(down'[t])
    BY <1>1, <1>2, <1>7 DEF TunnelTypes, Over
  <2>2. QED
    BY <1>1, <1>2, <1>6, <1>7, <2>1 DEF TunnelTypes
<1>10. Flow(o)'
  BY <1>1, <1>2, <1>3, <1>5, <1>6 DEF Flow
<1>11. Flow(s)' /\ Finish(o)'
  BY <1>1, <1>2, <1>6, <1>7, FlowKept, FinishKept DEF SameFlow, SameFinish
<1>12. Finish(s)'
  BY <1>1, <1>4, <1>6, <1>7 DEF Finish, Over
<1>13. QED
  BY <1>2, <1>8, <1>9, <1>10, <1>11, <1>12 DEF TunnelInv

\* The stream ends without a close frame: the other side has dropped it, so it had come to
\* the end of what this side sends.
LEMMA CopyDownFails == ASSUME TunnelInv, NEW s \in Sides, copy_down_fails(s) PROVE TunnelInv'
<1> DEFINE o == other(s)
<1>1. PICK c \in {"ok", "failed"} :
        /\ down[s] = "run" /\ Frame(s) = None /\ gone \ {s} # {}
        /\ down' = [down EXCEPT ![s] = c]
        /\ ended' = [ended EXCEPT ![s] = TRUE] \/ ended' = ended
        /\ UNCHANGED <<request, stage, up, taken, hold, sent, open, got, wire, gone, fault>>
  BY DEF copy_down_fails, Set, handlers
<1>2. /\ TunnelTypes /\ Flow(s) /\ Flow(o) /\ Finish(s) /\ Finish(o)
      /\ \A t \in Sides : t = s \/ t = o
      /\ o \in Sides /\ o # s /\ other(o) = s
  BY TunnelFacts
<1>3. wire[o] = <<>>
  <2>1. SUFFICES ASSUME wire[o] # <<>> PROVE FALSE
    OBVIOUS
  <2>2. wire[o] \in Seq(Frames) /\ Head(wire[o])[1] = "none"
    BY <1>1, <1>2, <2>1 DEF TunnelTypes, Frame, None
  <2>3. Head(wire[o]) \in Frames
    BY <2>1, <2>2
  <2>4. QED
    BY <2>2, <2>3, FrameKinds
<1>4. o \in gone
  BY <1>1, <1>2 DEF TunnelTypes
<1>5. /\ down'[s] = c /\ down'[o] = down[o] /\ down' \in [Sides -> CopyStates]
      /\ ended'[o] = ended[o] /\ ended' \in [Sides -> BOOLEAN]
  BY <1>1, <1>2 DEF TunnelTypes, CopyStates
<1>6. Preamble' /\ NoFault' /\ AfterFault'
  BY <1>1, PumpPhase
<1>7. TunnelTypes'
  <2>1. \A t \in Sides : /\ down'[t] = "idle" <=> stage[t] \notin Pumped
                         /\ stage[t] = "dropped" => Over(down'[t])
    BY <1>1, <1>2, <1>5 DEF TunnelTypes, Over
  <2>2. QED
    BY <1>1, <1>2, <1>5, <2>1 DEF TunnelTypes
<1>8. Flow(s)' /\ Flow(o)' /\ Finish(o)'
  BY <1>1, <1>2, <1>5, FlowKept, FinishKept DEF SameFlow, SameFinish
<1>9. ASSUME ~fault PROVE Over(up[o]) /\ (up[o] = "ok" \/ up[s] = "ok")
  <2>1. stage[s] \in Pumped /\ NoFault /\ Preamble
    BY <1>1, <1>2 DEF TunnelInv, TunnelTypes
  <2>2. stage[o] \in {"failed", "dropped"}
    BY <1>4, <1>9, <2>1 DEF NoFault
  <2>3. stage[o] # "failed"
    <3>1. (s = "local" /\ o = "remote") \/ (s = "remote" /\ o = "local")
      BY DEF Sides, other
    <3>2. QED
      BY <1>9, <2>1, <3>1 DEF NoFault, Preamble, Pumped
  <2>4. Over(up[o]) /\ Over(down[o])
    BY <1>2, <2>2, <2>3 DEF TunnelTypes
  <2>5. QED
    BY <1>2, <1>9, <2>4 DEF Finish
<1>10. Finish(s)'
  BY <1>1, <1>3, <1>5, <1>9 DEF Finish, Over
<1>11. QED
  BY <1>2, <1>6, <1>7, <1>8, <1>10 DEF TunnelInv

\* Both copies are over, and so is the other side's stream: nothing is lost with the drop.
LEMMA DropKeeps == ASSUME TunnelInv, NEW s \in Sides, drop(s) PROVE TunnelInv'
<1> DEFINE o == other(s)
<1>1. /\ stage[s] = "pumping" /\ up[s] # "run" /\ down[s] # "run"
      /\ stage' = [stage EXCEPT ![s] = "dropped"] /\ ended' = [ended EXCEPT ![s] = TRUE]
      /\ gone' = gone \cup {s}
      /\ UNCHANGED <<request, up, down, taken, hold, sent, open, got, fault>>
  BY DEF drop, Drop, Set, copies
<1>2. /\ TunnelTypes /\ Flow(s) /\ Flow(o) /\ Finish(s) /\ Finish(o)
      /\ \A t \in Sides : t = s \/ t = o
      /\ o \in Sides /\ o # s /\ other(o) = s
  BY TunnelFacts
<1>3. Over(up[s]) /\ Over(down[s])
  BY <1>1, <1>2 DEF TunnelTypes, CopyStates, Over, Pumped
<1>4. wire[o] = <<>>
  BY <1>2, <1>3 DEF Finish, TunnelInv, AfterFault
<1>5. wire' = wire
  BY <1>4 DEF drop, Drop
<1>6. /\ stage'[s] = "dropped" /\ stage'[o] = stage[o] /\ stage' \in [Sides -> Stages]
      /\ ended'[s] = TRUE /\ ended'[o] = ended[o] /\ ended' \in [Sides -> BOOLEAN]
      /\ gone' \in SUBSET Sides
  BY <1>1, <1>2 DEF TunnelTypes, Stages
<1>7. TunnelTypes'
  <2>1. \A t \in Sides : stage'[t] \in Pumped <=> stage[t] \in Pumped
    BY <1>1, <1>2, <1>6 DEF Pumped
  <2>2. \A t \in Sides : stage'[t] = "dropped" => Over(up[t]) /\ Over(down[t])
    BY <1>2, <1>3, <1>6 DEF TunnelTypes
  <2>3. QED
    BY <1>1, <1>2, <1>5, <1>6, <2>1, <2>2 DEF TunnelTypes
<1>8. (s = "local" /\ o = "remote") \/ (s = "remote" /\ o = "local")
  BY DEF Sides, other
<1>9. Preamble'
  BY <1>1, <1>5, <1>6, <1>8 DEF TunnelInv, Preamble, Pumped
<1>10. NoFault'
  BY <1>1, <1>2, <1>6, <1>8 DEF TunnelInv, NoFault, Pumped
<1>11. AfterFault'
  BY <1>1, <1>5 DEF TunnelInv, AfterFault
<1>12. Flow(s)' /\ Flow(o)' /\ Finish(o)'
  BY <1>1, <1>2, <1>5, <1>6, FlowKept, FinishKept DEF SameFlow, SameFinish
<1>13. Finish(s)'
  BY <1>1, <1>2, <1>3, <1>5 DEF Finish
<1>14. QED
  BY <1>2, <1>7, <1>9, <1>10, <1>11, <1>12, <1>13 DEF TunnelInv

\* The connection is lost.
LEMMA RelayCuts == ASSUME TunnelInv, relay_cuts PROVE TunnelInv'
<1>1. /\ fault' = TRUE /\ gone' = Sides /\ wire' = [s \in Sides |-> <<>>]
      /\ UNCHANGED <<request, stage, up, down, taken, hold, sent, open, ended, got>>
      /\ stage["local"] # "new"
  BY DEF relay_cuts, handlers, apps, copies
<1>2. TunnelTypes'
  BY <1>1 DEF TunnelInv, TunnelTypes
<1>3. Preamble'
  BY <1>1 DEF TunnelInv, Preamble, Sides
<1>4. NoFault' /\ AfterFault'
  BY <1>1 DEF NoFault, AfterFault
<1>5. ASSUME NEW s \in Sides PROVE Flow(s)' /\ Finish(s)'
  <2>1. /\ TunnelTypes /\ Flow(s) /\ Finish(s) /\ Len(got[other(s)]) \in Nat /\ Chunks(wire[s]) \in Nat
    BY TunnelFacts
  <2>2. taken[s] \in Nat
    BY <2>1 DEF TunnelTypes
  <2>3. /\ Stream(<<>>, Len(got[other(s)])) /\ Chunks(<<>>) = 0 /\ Closing(<<>>) = 0
        /\ wire'[s] = <<>>
    BY <1>1, <2>1, NoStream
  <2>4. Flow(s)'
    BY <1>1, <2>1, <2>2, <2>3 DEF Flow
  <2>5. QED
    BY <1>1, <2>1, <2>4 DEF Finish
<1>6. QED
  BY <1>2, <1>3, <1>4, <1>5 DEF TunnelInv

-----------------------------------------------------------------------------
(* The handlers, before there is a pump. *)

\* What a stream may hold before there is data.
Greetings == {<<>>, <<<<"request">>>>, <<<<"ok">>>>, <<<<"error">>>>}

\* A stream of a side without a pump has no chunk.
LEMMA IdleStream ==
    ASSUME TunnelInv, NEW s \in Sides, up[s] = "idle"
    PROVE  wire[s] \in Greetings
BY DEF TunnelInv, Preamble, Sides, Greetings

\* None of it is data or a close frame.
LEMMA Greeting ==
    ASSUME NEW w \in Greetings, NEW n \in Nat
    PROVE  Stream(w, n) /\ Chunks(w) = 0 /\ Closing(w) = 0 /\ w \in Seq(Frames)
<1>1. CASE w = <<>>
  BY <1>1, NoStream DEF Stream
<1>2. ASSUME NEW f \in {<<"request">>, <<"ok">>, <<"error">>}, w = <<f>>
      PROVE  Stream(w, n) /\ Chunks(w) = 0 /\ Closing(w) = 0 /\ w \in Seq(Frames)
  BY <1>2, OpenStream DEF Stream
<1>3. QED
  BY <1>1, <1>2 DEF Greetings

\* A side that has not pumped, or begins to, has no chunk on its stream to account for.
LEMMA IdleFlow ==
    ASSUME TunnelInv, NEW s \in Sides, up[s] = "idle", up'[s] \in {"idle", "run"},
           wire'[s] \in Greetings, UNCHANGED <<taken, hold, sent, open, got, fault>>
    PROVE  Flow(s)'
<1>1. Flow(s) /\ Len(got[other(s)]) \in Nat
  BY TunnelFacts
<1>2. wire[s] \in Greetings
  BY IdleStream
<1>3. Chunks(wire[s]) = 0
  BY <1>1, <1>2, Greeting
<1>4. /\ Stream(wire'[s], Len(got[other(s)])) /\ Chunks(wire'[s]) = 0
      /\ Closing(wire'[s]) = 0
  BY <1>1, Greeting
<1>5. /\ hold[s] \in {0, taken[s]} /\ taken[s] <= sent[s]
      /\ got[other(s)] = Sequence(Len(got[other(s)]))
      /\ Len(got[other(s)]) + 0 + (IF hold[s] = 0 THEN 0 ELSE 1) <= taken[s]
      /\ ~fault => Len(got[other(s)]) + 0 + (IF hold[s] = 0 THEN 0 ELSE 1) = taken[s]
  BY <1>1, <1>3 DEF Flow
<1>6. up'[s] # "ok"
  OBVIOUS
<1>7. /\ Len(got'[other(s)]) = Len(got[other(s)])
      /\ got'[other(s)] = Sequence(Len(got'[other(s)]))
      /\ Stream(wire'[s], Len(got'[other(s)]))
  BY <1>4, <1>5
<1>8. /\ hold'[s] \in {0, taken'[s]} /\ taken'[s] <= sent'[s]
  BY <1>5
<1>9. /\ Len(got'[other(s)]) + Chunks(wire'[s]) + (IF hold'[s] = 0 THEN 0 ELSE 1) <= taken'[s]
      /\ ~fault' /\ up'[s] # "failed" =>
            Len(got'[other(s)]) + Chunks(wire'[s]) + (IF hold'[s] = 0 THEN 0 ELSE 1) = taken'[s]
  BY <1>4, <1>5, <1>7
<1>10. /\ Closing(wire'[s]) = 1 => up'[s] = "ok"
       /\ up'[s] = "ok" => ~open'[s] /\ hold'[s] = 0 /\ taken'[s] = sent'[s]
  BY <1>4, <1>6
<1>11. QED
  BY <1>7, <1>8, <1>9, <1>10, Zenon DEF Flow

\* What a handler starts from.
LEMMA HandlerFacts ==
    ASSUME TunnelInv, stage["remote"] \notin Pumped
    PROVE  /\ TunnelTypes /\ Preamble /\ NoFault /\ AfterFault
           /\ "local" \in Sides /\ "remote" \in Sides /\ \A s \in Sides : s = "local" \/ s = "remote"
           /\ \A s \in Sides : /\ stage[s] \notin Pumped /\ up[s] = "idle" /\ down[s] = "idle"
                               /\ wire[s] \in Greetings /\ (ended[s] => stage[s] = "failed")
<1>1. /\ TunnelTypes /\ Preamble /\ NoFault /\ AfterFault
      /\ \A s \in Sides : Finish(s)
  BY DEF TunnelInv
<1>2. "local" \in Sides /\ "remote" \in Sides /\ \A s \in Sides : s = "local" \/ s = "remote"
  BY DEF Sides
<1>3. \A s \in Sides : stage[s] \notin Pumped
  BY <1>1, <1>2 DEF Preamble
<1>4. \A s \in Sides : up[s] = "idle" /\ down[s] = "idle"
  BY <1>1, <1>3 DEF TunnelTypes
<1>5. \A s \in Sides : ended[s] => stage[s] = "failed"
  BY <1>1, <1>4 DEF Finish, Over
<1>6. QED
  BY <1>1, <1>2, <1>3, <1>4, <1>5, IdleStream

\* What it has to keep, when no pump begins.
LEMMA HandlerStep ==
    ASSUME TunnelInv, stage["remote"] \notin Pumped,
           stage' \in [Sides -> Stages \ Pumped], gone' \in SUBSET Sides,
           ended' \in [Sides -> BOOLEAN], wire' \in [Sides -> Greetings],
           UNCHANGED <<request, up, down, taken, hold, sent, open, got, fault>>,
           \A s \in Sides : /\ ended'[s] => ended[s] \/ stage'[s] = "failed"
                            /\ stage[s] = "failed" => stage'[s] = "failed",
           Preamble', NoFault', AfterFault'
    PROVE  TunnelInv'
<1>1. /\ TunnelTypes
      /\ \A s \in Sides : up[s] = "idle" /\ down[s] = "idle" /\ (ended[s] => stage[s] = "failed")
  BY HandlerFacts
<1>2. TunnelTypes'
  <2>1. \A w \in Greetings : w \in Seq(Frames)
    BY Greeting
  <2>2. wire' \in [Sides -> Seq(Frames)]
    BY <2>1
  <2>3. stage' \in [Sides -> Stages] /\ \A s \in Sides : stage'[s] \notin Pumped
    OBVIOUS
  <2>4. QED
    BY <1>1, <2>2, <2>3 DEF TunnelTypes, Pumped
<1>3. ASSUME NEW s \in Sides PROVE Flow(s)' /\ Finish(s)'
  <2>1. Flow(s)'
    BY <1>1, IdleFlow
  <2>2. Finish(s)'
    BY <1>1 DEF Finish, Over
  <2>3. QED
    BY <2>1, <2>2
<1>4. QED
  BY <1>2, <1>3 DEF TunnelInv

\* The listening side opens the stream and writes its request.
LEMMA CreateConnection == ASSUME TunnelInv, create_connection PROVE TunnelInv'
<1>1. stage["local"] = "new" /\ UNCHANGED <<request, up, down, taken, hold, sent, open, got, fault>>
  BY DEF create_connection, copies
<1>2. stage["remote"] = "new"
  BY <1>1 DEF TunnelInv, Preamble
<1>3. /\ TunnelTypes /\ Preamble /\ NoFault /\ AfterFault
      /\ "local" \in Sides /\ "remote" \in Sides /\ \A s \in Sides : s = "local" \/ s = "remote"
      /\ \A s \in Sides : up[s] = "idle" /\ wire[s] \in Greetings
  BY <1>2, HandlerFacts DEF Pumped
<1>4. /\ wire["local"] = <<>> /\ wire["remote"] = <<>> /\ wire \in [Sides -> Greetings]
      /\ ended \in [Sides -> BOOLEAN] /\ gone \in SUBSET Sides /\ stage \in [Sides -> Stages]
  BY <1>1, <1>2, <1>3 DEF Preamble, TunnelTypes
<1>5. CASE /\ stage' = [local |-> "awaiting", remote |-> "reading"]
           /\ Send("local", <<"request">>) /\ UNCHANGED <<ended, gone>>
  <2>1. Append(<<>>, <<"request">>) = <<<<"request">>>>
    BY OpenStream
  <2>2. wire' = IF fault THEN wire ELSE [wire EXCEPT !["local"] = <<<<"request">>>>]
    BY <1>4, <1>5, <2>1 DEF Send
  <2>3. wire' \in [Sides -> Greetings]
    BY <1>3, <1>4, <2>2 DEF Greetings
  <2>4. /\ stage' \in [Sides -> Stages \ Pumped]
        /\ stage'["local"] = "awaiting" /\ stage'["remote"] = "reading"
    BY <1>5 DEF Sides, Stages, Pumped
  <2>5. /\ wire'["local"] = <<>> \/ wire'["local"] = <<<<"request">>>>
        /\ wire'["remote"] = <<>>
    BY <1>3, <1>4, <2>2
  <2>6. Preamble'
    BY <1>1, <1>3, <2>4, <2>5 DEF Preamble, Pumped
  <2>7. NoFault' /\ AfterFault'
    BY <1>1, <1>2, <1>3, <1>4, <1>5, <2>2, <2>4 DEF NoFault, AfterFault, Pumped
  <2>8. QED
    BY <1>1, <1>2, <1>3, <1>4, <1>5, <2>3, <2>4, <2>6, <2>7, HandlerStep DEF Pumped
<1>6. CASE Abandon("local") /\ gone' = gone \cup {"local"} /\ wire' = wire
  <2>1. /\ stage' = [stage EXCEPT !["local"] = "failed"]
        /\ ended' = [ended EXCEPT !["local"] = TRUE]
    BY <1>6 DEF Abandon, Set
  <2>2. /\ stage' \in [Sides -> Stages \ Pumped]
        /\ stage'["local"] = "failed" /\ stage'["remote"] = "new"
        /\ ended' \in [Sides -> BOOLEAN] /\ ended'["remote"] = ended["remote"]
    BY <1>2, <1>3, <1>4, <2>1 DEF Stages, Pumped
  <2>3. Preamble'
    BY <1>1, <1>3, <1>4, <1>6, <2>2 DEF Preamble, Pumped
  <2>4. NoFault' /\ AfterFault'
    BY <1>1, <1>2, <1>3, <1>4, <1>6, <2>2 DEF NoFault, AfterFault, Pumped
  <2>5. QED
    BY <1>1, <1>2, <1>3, <1>4, <1>6, <2>2, <2>3, <2>4, HandlerStep DEF Pumped
<1>7. QED
  BY <1>5, <1>6 DEF create_connection

\* The remote side reads the request and picks a forwarder, or answers with an error.
LEMMA Dispatch == ASSUME TunnelInv, dispatch_connection PROVE TunnelInv'
<1>1. /\ stage["remote"] = "reading" /\ Frame("remote") = "request"
      /\ UNCHANGED <<request, up, down, taken, hold, sent, open, got, ended, fault>>
      /\ \/ /\ wire' = [local |-> Tail(wire["local"]), remote |-> <<<<"error">>>>]
            /\ gone' = gone \cup {"remote"}
            /\ stage' = [stage EXCEPT !["remote"] = "failed"]
         \/ /\ stage' = [stage EXCEPT !["remote"] = "connecting"]
            /\ Read("remote") /\ gone' = gone
  BY DEF dispatch_connection, Set, apps, copies
<1>2. /\ TunnelTypes /\ Preamble /\ NoFault /\ AfterFault
      /\ "local" \in Sides /\ "remote" \in Sides /\ \A s \in Sides : s = "local" \/ s = "remote"
      /\ \A s \in Sides : stage[s] \notin Pumped /\ up[s] = "idle" /\ wire[s] \in Greetings
  BY <1>1, HandlerFacts DEF Pumped
<1>3. /\ wire \in [Sides -> Greetings] /\ ended \in [Sides -> BOOLEAN] /\ gone \in SUBSET Sides
      /\ stage \in [Sides -> Stages]
  BY <1>2 DEF TunnelTypes
<1>4. wire["local"] # <<>> /\ ~fault /\ wire["remote"] = <<>>
  BY <1>1, <1>2 DEF Frame, None, other, AfterFault, Preamble
<1>5. Tail(wire["local"]) = <<>>
  <2>1. wire["local"] = <<<<"request">>>>
    BY <1>1, <1>2, <1>4 DEF Preamble
  <2>2. QED
    BY <2>1, OpenStream
<1>6. wire' \in [Sides -> Greetings] /\ wire'["local"] = <<>>
      /\ \/ stage'["remote"] = "failed" /\ wire'["remote"] = <<<<"error">>>>
         \/ stage'["remote"] = "connecting" /\ wire'["remote"] = <<>>
  BY <1>1, <1>2, <1>3, <1>4, <1>5 DEF Read, other, Greetings, Sides
<1>7. /\ stage' \in [Sides -> Stages \ Pumped] /\ stage'["local"] = stage["local"]
      /\ gone' \in SUBSET Sides /\ gone' \subseteq gone \cup {"remote"}
      /\ "remote" \in gone' => stage'["remote"] = "failed"
  BY <1>1, <1>2, <1>3, <1>4 DEF Stages, Pumped, NoFault
<1>8. Preamble'
  BY <1>1, <1>2, <1>6, <1>7 DEF Preamble, Pumped
<1>9. NoFault' /\ AfterFault'
  BY <1>1, <1>2, <1>4, <1>6, <1>7 DEF NoFault, AfterFault, Pumped
<1>10. QED
  BY <1>1, <1>2, <1>3, <1>6, <1>7, <1>8, <1>9, HandlerStep DEF Pumped

\* The stream ends before the request has come.
LEMMA ReadRequestFails == ASSUME TunnelInv, read_request_fails PROVE TunnelInv'
<1>1. /\ stage["remote"] = "reading" /\ Frame("remote") = None /\ "local" \in gone
      /\ stage' = [stage EXCEPT !["remote"] = "failed"] /\ gone' = gone \cup {"remote"}
      /\ UNCHANGED <<request, up, down, taken, hold, sent, open, got, ended, fault>>
  BY DEF read_request_fails, Drop, Set, apps, copies
<1>2. /\ TunnelTypes /\ Preamble /\ NoFault /\ AfterFault
      /\ "local" \in Sides /\ "remote" \in Sides /\ \A s \in Sides : s = "local" \/ s = "remote"
      /\ \A s \in Sides : stage[s] \notin Pumped /\ up[s] = "idle" /\ wire[s] \in Greetings
  BY <1>1, HandlerFacts DEF Pumped
<1>3. /\ wire \in [Sides -> Greetings] /\ ended \in [Sides -> BOOLEAN] /\ gone \in SUBSET Sides
      /\ stage \in [Sides -> Stages]
  BY <1>2 DEF TunnelTypes
<1>4. fault
  BY <1>1, <1>2 DEF NoFault
<1>5. wire["local"] = <<>> /\ wire["remote"] = <<>>
  BY <1>2, <1>4 DEF AfterFault
<1>6. wire' = wire
  BY <1>5 DEF read_request_fails, Drop, other
<1>7. /\ stage' \in [Sides -> Stages \ Pumped] /\ stage'["local"] = stage["local"]
      /\ stage'["remote"] = "failed" /\ gone' \in SUBSET Sides
  BY <1>1, <1>2, <1>3 DEF Stages, Pumped
<1>8. Preamble'
  BY <1>1, <1>2, <1>5, <1>6, <1>7 DEF Preamble, Pumped
<1>9. NoFault' /\ AfterFault'
  BY <1>1, <1>2, <1>4, <1>6 DEF NoFault, AfterFault
<1>10. QED
  BY <1>1, <1>2, <1>3, <1>6, <1>7, <1>8, <1>9, HandlerStep DEF Pumped

\* The remote side connects to its target and says so: it pumps, serves datagrams or fails.
LEMMA HandleConnection == ASSUME TunnelInv, handle_connection PROVE TunnelInv'
<1>1. /\ stage["remote"] = "connecting"
      /\ UNCHANGED <<request, taken, hold, sent, open, got, ended, fault>>
  BY DEF handle_connection, apps
<1>2. /\ TunnelTypes /\ Preamble /\ NoFault /\ AfterFault
      /\ "local" \in Sides /\ "remote" \in Sides /\ \A s \in Sides : s = "local" \/ s = "remote"
      /\ \A s \in Sides : /\ stage[s] \notin Pumped /\ up[s] = "idle" /\ down[s] = "idle"
                          /\ wire[s] \in Greetings /\ (ended[s] => stage[s] = "failed")
  BY <1>1, HandlerFacts DEF Pumped
<1>3. /\ wire \in [Sides -> Greetings] /\ ended \in [Sides -> BOOLEAN] /\ gone \in SUBSET Sides
      /\ stage \in [Sides -> Stages] /\ up \in [Sides -> CopyStates] /\ down \in [Sides -> CopyStates]
  BY <1>2 DEF TunnelTypes
<1>4. wire["local"] = <<>> /\ wire["remote"] = <<>> /\ stage["local"] # "new"
  BY <1>1, <1>2 DEF Preamble
<1>5. \A s \in gone : ~fault => s # "remote"
  BY <1>1, <1>2 DEF NoFault
<1>6. ASSUME Send("remote", <<"ok">>)
      PROVE  /\ wire' \in [Sides -> Greetings] /\ wire'["local"] = <<>>
             /\ wire'["remote"] = IF fault THEN <<>> ELSE <<<<"ok">>>>
  <2>1. Append(<<>>, <<"ok">>) = <<<<"ok">>>>
    BY OpenStream
  <2>2. wire' = IF fault THEN wire ELSE [wire EXCEPT !["remote"] = <<<<"ok">>>>]
    BY <1>4, <1>6, <2>1 DEF Send
  <2>3. QED
    BY <1>2, <1>3, <1>4, <2>2 DEF Greetings
<1>7. CASE /\ Send("remote", <<"ok">>) /\ gone' = gone /\ request.mode = "stream"
           /\ stage' = [stage EXCEPT !["remote"] = "pumping"] /\ Pump("remote")
  <2>1. /\ stage' \in [Sides -> Stages] /\ stage'["local"] = stage["local"]
        /\ stage'["remote"] = "pumping"
        /\ up' \in [Sides -> CopyStates] /\ up'["local"] = "idle" /\ up'["remote"] = "run"
        /\ down' \in [Sides -> CopyStates] /\ down'["local"] = "idle" /\ down'["remote"] = "run"
    BY <1>2, <1>3, <1>7 DEF Pump, Set, Stages, CopyStates
  <2>2. /\ wire' \in [Sides -> Greetings] /\ wire'["local"] = <<>>
        /\ wire'["remote"] = IF fault THEN <<>> ELSE <<<<"ok">>>>
    BY <1>6, <1>7
  <2>3. wire' \in [Sides -> Seq(Frames)]
    <3>1. \A w \in Greetings : w \in Seq(Frames)
      BY Greeting
    <3>2. QED
      BY <2>2, <3>1
  <2>4. TunnelTypes'
    BY <1>1, <1>2, <1>3, <1>7, <2>1, <2>3 DEF TunnelTypes, Pumped
  <2>5. Preamble'
    BY <1>1, <1>2, <1>4, <1>7, <2>1, <2>2, FrameKinds DEF Preamble, Pumped
  <2>6. NoFault'
    BY <1>1, <1>2, <1>3, <1>5, <1>7, <2>1 DEF NoFault, Pumped
  <2>7. AfterFault'
    BY <1>1, <1>2, <2>2 DEF AfterFault
  <2>8. ASSUME NEW s \in Sides PROVE Flow(s)' /\ Finish(s)'
    <3>1. Flow(s)'
      BY <1>1, <1>2, <2>1, <2>2, IdleFlow
    <3>2. ~ended[s] \/ stage'[s] = "failed"
      BY <1>1, <1>2, <2>1
    <3>3. ~Over(down'[s])
      BY <1>2, <2>1 DEF Over
    <3>4. QED
      BY <1>1, <3>1, <3>2, <3>3 DEF Finish
  <2>9. QED
    BY <2>4, <2>5, <2>6, <2>7, <2>8 DEF TunnelInv
<1>8. CASE /\ Send("remote", <<"ok">>) /\ gone' = gone /\ request.mode # "stream"
           /\ stage' = [stage EXCEPT !["remote"] = "datagram"] /\ UNCHANGED <<up, down>>
  <2>1. /\ stage' \in [Sides -> Stages \ Pumped] /\ stage'["local"] = stage["local"]
        /\ stage'["remote"] = "datagram"
    BY <1>2, <1>3, <1>8 DEF Stages, Pumped
  <2>2. /\ wire' \in [Sides -> Greetings] /\ wire'["local"] = <<>>
        /\ wire'["remote"] = IF fault THEN <<>> ELSE <<<<"ok">>>>
    BY <1>6, <1>8
  <2>3. Preamble'
    BY <1>1, <1>2, <1>4, <1>8, <2>1, <2>2 DEF Preamble, Pumped
  <2>4. NoFault'
    BY <1>1, <1>2, <1>3, <1>5, <1>8, <2>1 DEF NoFault, Pumped
  <2>5. AfterFault'
    BY <1>1, <1>2, <2>2 DEF AfterFault
  <2>6. QED
    BY <1>1, <1>2, <1>3, <1>8, <2>1, <2>2, <2>3, <2>4, <2>5, HandlerStep DEF Pumped
<1>9. CASE /\ stage' = [stage EXCEPT !["remote"] = "failed"] /\ Drop("remote")
           /\ UNCHANGED <<up, down>>
  <2>1. /\ stage' \in [Sides -> Stages \ Pumped] /\ stage'["local"] = stage["local"]
        /\ stage'["remote"] = "failed" /\ gone' = gone \cup {"remote"} /\ wire' = wire
    BY <1>2, <1>3, <1>4, <1>9 DEF Stages, Pumped, Drop, other
  <2>2. Preamble'
    BY <1>1, <1>2, <1>4, <1>9, <2>1 DEF Preamble, Pumped
  <2>3. NoFault' /\ AfterFault'
    BY <1>1, <1>2, <1>3, <2>1 DEF NoFault, AfterFault, Pumped
  <2>4. QED
    BY <1>1, <1>2, <1>3, <1>9, <2>1, <2>2, <2>3, HandlerStep DEF Pumped
<1>10. QED
  BY <1>7, <1>8, <1>9 DEF handle_connection, Set

\* The listening side reads the answer: it pumps or fails.
LEMMA ReadResponse == ASSUME TunnelInv, read_response PROVE TunnelInv'
<1> DEFINE w == wire["remote"]
           n == Len(got["local"])
<1>1. /\ stage["local"] = "awaiting" /\ Frame("local") = "ok" /\ Read("local")
      /\ UNCHANGED <<request, taken, hold, sent, open, got, ended, gone, fault>>
  BY DEF read_response, apps
<1>2. "local" \in Sides /\ "remote" \in Sides /\ \A s \in Sides : s = "local" \/ s = "remote"
  BY DEF Sides
<1>3. /\ TunnelTypes /\ Preamble /\ NoFault /\ AfterFault
      /\ \A s \in Sides : Flow(s) /\ Finish(s)
  BY DEF TunnelInv
<1>4. /\ wire \in [Sides -> Seq(Frames)] /\ ended \in [Sides -> BOOLEAN] /\ gone \in SUBSET Sides
      /\ stage \in [Sides -> Stages] /\ up \in [Sides -> CopyStates] /\ down \in [Sides -> CopyStates]
      /\ up["local"] = "idle" /\ down["local"] = "idle"
  BY <1>1, <1>2, <1>3 DEF TunnelTypes, Pumped
<1>5. w # <<>> /\ Head(w)[1] = "ok" /\ ~fault /\ wire' = [wire EXCEPT !["remote"] = Tail(w)]
  BY <1>1, <1>2, <1>3 DEF Frame, None, other, AfterFault, Read
<1>6. w[1][1] = "ok" /\ Opening(w) = 1 /\ n \in Nat /\ Stream(w, n) /\ Chunks(w) \in Nat
  <2>1. Head(w) = w[1]
    BY <1>2, <1>4, <1>5, ReadFrame
  <2>2. Stream(w, n)
    BY <1>2, <1>3 DEF Flow, other
  <2>3. QED
    BY <1>2, <1>4, <1>5, <2>1, <2>2, StreamParts DEF Opening, Stream
<1>7. /\ Stream(Tail(w), n) /\ Chunks(Tail(w)) = Chunks(w)
      /\ Closing(Tail(w)) = Closing(w) /\ Opening(Tail(w)) = 0
  <2>1. Stream(Tail(w), n + 0) /\ Chunks(Tail(w)) = Chunks(w) - 0
        /\ Closing(Tail(w)) = Closing(w) /\ Opening(Tail(w)) = 0
    BY <1>5, <1>6, ReadStream
  <2>2. QED
    BY <1>6, <2>1
<1>8. /\ wire' \in [Sides -> Seq(Frames)] /\ wire'["remote"] = Tail(w)
      /\ wire'["local"] = wire["local"]
  BY <1>2, <1>4, <1>5, <1>7 DEF Stream
<1>9. stage["remote"] \in Pumped \/ (stage["remote"] = "datagram" /\ w = <<<<"ok">>>>)
  <2>1. SUFFICES ASSUME stage["remote"] \notin Pumped
                 PROVE  stage["remote"] = "datagram" /\ w = <<<<"ok">>>>
    OBVIOUS
  <2>2. up["remote"] = "idle"
    BY <1>2, <1>3, <2>1 DEF TunnelTypes
  <2>3. w # <<<<"error">>>>
    BY <1>6, FrameKinds
  <2>4. QED
    BY <1>3, <1>5, <2>2, <2>3 DEF Preamble
<1>10. CASE request.mode = "stream"
  <2>1. stage["remote"] \in Pumped
    BY <1>3, <1>9, <1>10 DEF Preamble
  <2>2. stage' = [stage EXCEPT !["local"] = "pumping"] /\ Pump("local")
    BY <1>10 DEF read_response, Set
  <2>3. /\ stage' \in [Sides -> Stages] /\ stage'["local"] = "pumping"
        /\ stage'["remote"] = stage["remote"]
        /\ up' \in [Sides -> CopyStates] /\ up'["local"] = "run" /\ up'["remote"] = up["remote"]
        /\ down' \in [Sides -> CopyStates] /\ down'["local"] = "run"
        /\ down'["remote"] = down["remote"]
    BY <1>2, <1>4, <2>2 DEF Pump, Set, Stages, CopyStates
  <2>4. TunnelTypes'
    <3>1. \A s \in Sides : /\ up'[s] = "idle" <=> stage'[s] \notin Pumped
                           /\ down'[s] = "idle" <=> stage'[s] \notin Pumped
                           /\ stage'[s] = "dropped" => Over(up'[s]) /\ Over(down'[s])
      BY <1>2, <1>3, <2>3 DEF TunnelTypes, Pumped
    <3>2. QED
      BY <1>1, <1>3, <1>8, <2>3, <3>1 DEF TunnelTypes
  <2>5. wire["local"] = <<>> /\ up["remote"] # "idle"
    BY <1>2, <1>3, <1>4, <2>1 DEF Preamble, TunnelTypes, Pumped
  <2>6. Preamble'
    <3>1. wire'["remote"] # <<>> => wire'["remote"][1][1] # "error"
      BY <1>7, <1>8 DEF Opening
    <3>2. QED
      BY <1>1, <1>2, <1>3, <1>8, <2>1, <2>3, <2>5, <3>1 DEF Preamble, Pumped
  <2>7. NoFault' /\ AfterFault'
    BY <1>1, <1>2, <1>3, <1>4, <1>5, <2>1, <2>3 DEF NoFault, AfterFault, Pumped
  <2>8. Flow("local")'
    BY <1>1, <1>2, <1>4, <1>8, <2>3, <2>5, IdleFlow DEF Greetings
  <2>9. Flow("remote")'
    BY <1>1, <1>2, <1>3, <1>7, <1>8, <2>3 DEF Flow, other
  <2>10. Finish("local")' /\ Finish("remote")'
    <3>1. ~ended["local"]
      BY <1>1, <1>2, <1>3, <1>4 DEF Finish, Over
    <3>2. ~Over(down["remote"])
      BY <1>2, <1>3, <1>4, <1>5 DEF Finish, Over, other
    <3>3. QED
      BY <1>1, <1>2, <1>3, <2>3, <3>1, <3>2 DEF Finish, Over, other
  <2>11. QED
    BY <1>2, <2>4, <2>6, <2>7, <2>8, <2>9, <2>10 DEF TunnelInv
<1>11. CASE request.mode # "stream"
  <2>1. stage["remote"] = "datagram" /\ w = <<<<"ok">>>>
    BY <1>3, <1>9, <1>11 DEF Preamble
  <2>2. /\ \A s \in Sides : stage[s] \notin Pumped /\ up[s] = "idle" /\ wire[s] \in Greetings
    BY <2>1, HandlerFacts DEF Pumped
  <2>3. stage' = [stage EXCEPT !["local"] = "datagram"] /\ UNCHANGED <<up, down>>
    BY <1>11 DEF read_response, Set
  <2>4. /\ stage' \in [Sides -> Stages \ Pumped] /\ stage'["local"] = "datagram"
        /\ stage'["remote"] = "datagram"
    BY <1>2, <1>4, <2>1, <2>2, <2>3 DEF Stages, Pumped
  <2>5. Tail(w) = <<>>
    BY <2>1, OpenStream
  <2>6. wire["local"] = <<>> /\ wire' \in [Sides -> Greetings]
    BY <1>2, <1>3, <1>4, <1>5, <2>1, <2>2, <2>5 DEF Preamble, Greetings
  <2>7. Preamble'
    BY <1>1, <1>2, <1>3, <1>8, <2>1, <2>2, <2>3, <2>4, <2>5, <2>6 DEF Preamble, Pumped
  <2>8. NoFault' /\ AfterFault'
    BY <1>1, <1>2, <1>3, <1>4, <1>5, <2>1, <2>4 DEF NoFault, AfterFault, Pumped
  <2>9. QED
    BY <1>1, <1>2, <1>4, <2>1, <2>3, <2>4, <2>6, <2>7, <2>8, HandlerStep DEF Pumped
<1>12. QED
  BY <1>10, <1>11

\* The listening side is rejected, or the stream ends before an answer.
LEMMA ReadResponseFails == ASSUME TunnelInv, read_response_fails PROVE TunnelInv'
<1>1. /\ stage["local"] = "awaiting"
      /\ stage' = [stage EXCEPT !["local"] = "failed"] /\ ended' = [ended EXCEPT !["local"] = TRUE]
      /\ gone' = gone \cup {"local"}
      /\ \/ Frame("local") = "error"
         \/ Frame("local") = None /\ "remote" \in gone
      /\ UNCHANGED <<request, up, down, taken, hold, sent, open, got, fault>>
  BY DEF read_response_fails, Abandon, Drop, Set, copies
<1>2. "local" \in Sides /\ "remote" \in Sides /\ \A s \in Sides : s = "local" \/ s = "remote"
  BY DEF Sides
<1>3. /\ TunnelTypes /\ Preamble /\ NoFault /\ AfterFault
      /\ \A s \in Sides : Flow(s) /\ Finish(s)
  BY DEF TunnelInv
<1>4. /\ wire \in [Sides -> Seq(Frames)] /\ ended \in [Sides -> BOOLEAN] /\ gone \in SUBSET Sides
      /\ stage \in [Sides -> Stages] /\ up["local"] = "idle" /\ down["local"] = "idle"
  BY <1>1, <1>2, <1>3 DEF TunnelTypes, Pumped
<1>5. /\ stage' \in [Sides -> Stages] /\ stage'["local"] = "failed"
      /\ stage'["remote"] = stage["remote"] /\ gone' \in SUBSET Sides
      /\ ended' \in [Sides -> BOOLEAN] /\ ended'["remote"] = ended["remote"]
  BY <1>1, <1>2, <1>4 DEF Stages
<1>6. CASE wire["remote"] # <<>>
  <2>1. /\ Head(wire["remote"])[1] = Frame("local") /\ Head(wire["remote"]) = wire["remote"][1]
        /\ wire["remote"][1] \in Frames
    BY <1>2, <1>4, <1>6, ReadFrame, StreamParts DEF Frame, other
  <2>2. wire["remote"][1][1] = "error"
    BY <1>1, <2>1, FrameKinds DEF None
  <2>3. up["remote"] = "idle" /\ wire["remote"] = <<<<"error">>>> /\ stage["remote"] = "failed"
    <3>1. up["remote"] = "idle"
      BY <1>2, <1>3, <1>6, <2>2 DEF Preamble
    <3>2. wire["remote"] # <<<<"ok">>>>
      BY <2>2, FrameKinds
    <3>3. QED
      BY <1>3, <1>6, <3>1, <3>2 DEF Preamble
  <2>4. wire["local"] = <<>>
    BY <1>3, <1>4, <2>3 DEF Preamble
  <2>5. wire' = wire
    <3>1. wire' = wire \/ wire' = [wire EXCEPT !["local"] = <<>>]
      BY DEF read_response_fails, Drop
    <3>2. QED
      BY <1>2, <1>4, <2>4, <3>1
  <2>6. \A s \in Sides : stage[s] \notin Pumped /\ wire[s] \in Greetings
    BY <2>3, HandlerFacts DEF Pumped
  <2>7. stage' \in [Sides -> Stages \ Pumped] /\ wire' \in [Sides -> Greetings]
    BY <1>2, <1>4, <1>5, <2>5, <2>6 DEF Pumped
  <2>8. Preamble'
    BY <1>1, <1>2, <1>3, <1>5, <2>3, <2>4, <2>5 DEF Preamble, Pumped
  <2>9. NoFault' /\ AfterFault'
    BY <1>1, <1>2, <1>3, <1>5, <2>3, <2>5 DEF NoFault, AfterFault, Pumped
  <2>10. QED
    BY <1>1, <1>2, <1>5, <2>3, <2>7, <2>8, <2>9, HandlerStep DEF Pumped
<1>7. CASE wire["remote"] = <<>>
  <2>1. wire' = wire /\ "remote" \in gone
    BY <1>1, <1>7 DEF read_response_fails, Drop, Frame, other, None
  <2>2. ~fault => stage["remote"] = "failed"
    <3>1. SUFFICES ASSUME ~fault, stage["remote"] = "dropped" PROVE FALSE
      BY <1>3, <2>1 DEF NoFault
    <3>2. Over(down["remote"])
      BY <1>2, <1>3, <3>1 DEF TunnelTypes
    <3>3. Over(up["local"])
      BY <1>2, <1>3, <3>1, <3>2 DEF Finish, other
    <3>4. QED
      BY <1>4, <3>3 DEF Over
  <2>3. TunnelTypes'
    <3>1. \A s \in Sides : /\ stage'[s] \in Pumped <=> stage[s] \in Pumped
                           /\ stage'[s] = "dropped" => stage[s] = "dropped"
      BY <1>1, <1>2, <1>5 DEF Pumped
    <3>2. QED
      BY <1>1, <1>3, <1>5, <2>1, <3>1 DEF TunnelTypes
  <2>4. Preamble'
    BY <1>1, <1>2, <1>3, <1>5, <1>7, <2>1 DEF Preamble, Pumped
  <2>5. NoFault' /\ AfterFault'
    BY <1>1, <1>2, <1>3, <1>5, <2>1, <2>2 DEF NoFault, AfterFault, Pumped
  <2>6. Flow("local")' /\ Flow("remote")' /\ Finish("remote")'
    BY <1>1, <1>2, <1>3, <1>5, <2>1, FlowKept, FinishKept DEF SameFlow, SameFinish
  <2>7. Finish("local")'
    BY <1>1, <1>2, <1>3, <1>4, <1>5 DEF Finish, Over
  <2>8. QED
    BY <1>2, <2>3, <2>4, <2>5, <2>6, <2>7 DEF TunnelInv
<1>8. QED
  BY <1>6, <1>7

-----------------------------------------------------------------------------
\* Nothing has begun.
LEMMA TunnelInit == ASSUME Init PROVE TunnelInv
<1>1. /\ stage = [s \in Sides |-> "new"] /\ up = [s \in Sides |-> "idle"]
      /\ down = [s \in Sides |-> "idle"] /\ sent = [s \in Sides |-> 0]
      /\ taken = [s \in Sides |-> 0] /\ hold = [s \in Sides |-> 0]
      /\ open = [s \in Sides |-> TRUE] /\ ended = [s \in Sides |-> FALSE]
      /\ got = [s \in Sides |-> <<>>] /\ wire = [s \in Sides |-> <<>>]
      /\ gone = {} /\ fault = FALSE
  BY DEF Init
<1>2. "local" \in Sides /\ "remote" \in Sides
  BY DEF Sides
<1>3. TunnelTypes
  <2>1. /\ stage \in [Sides -> Stages] /\ up \in [Sides -> CopyStates]
        /\ down \in [Sides -> CopyStates]
        /\ got \in [Sides -> Seq(Nat)] /\ wire \in [Sides -> Seq(Frames)]
    BY <1>1 DEF Stages, CopyStates
  <2>2. \A s \in Sides : stage[s] = "new" /\ up[s] = "idle" /\ down[s] = "idle"
    BY <1>1
  <2>3. QED
    BY <1>1, <2>1, <2>2 DEF TunnelTypes, Pumped
<1>4. Preamble /\ NoFault /\ AfterFault
  BY <1>1, <1>2 DEF Preamble, NoFault, AfterFault, Pumped
<1>5. ASSUME NEW s \in Sides PROVE Flow(s) /\ Finish(s)
  <2>1. other(s) \in Sides
    BY OtherSide
  <2>2. Len(<<>>) = 0 /\ Sequence(0) = <<>>
    BY DEF Sequence
  <2>3. Stream(<<>>, 0) /\ Chunks(<<>>) = 0 /\ Closing(<<>>) = 0
    BY NoStream
  <2>4. Flow(s)
    BY <1>1, <2>1, <2>2, <2>3 DEF Flow
  <2>5. Finish(s)
    BY <1>1 DEF Finish, Over
  <2>6. QED
    BY <2>4, <2>5
<1>6. QED
  BY <1>3, <1>4, <1>5 DEF TunnelInv

\* Every step keeps the invariant.
LEMMA TunnelNext == ASSUME TunnelInv, [Next]_vars PROVE TunnelInv'
<1>1. CASE Handlers
  BY <1>1, CreateConnection, Dispatch, ReadRequestFails, HandleConnection, ReadResponse,
     ReadResponseFails DEF Handlers
<1>2. ASSUME NEW s \in Sides, app_send(s) \/ app_shutdown(s) \/ drop(s) PROVE TunnelInv'
  BY <1>2, AppSend, AppShutdown, DropKeeps
<1>3. ASSUME NEW s \in Sides, Copies(s) PROVE TunnelInv'
  BY <1>3, CopyRead, CopyWrite, CopyEof, CopyDown, CopyDownEof, CopyDownFails DEF Copies
<1>4. CASE relay_cuts
  BY <1>4, RelayCuts
<1>5. CASE UNCHANGED vars
  BY <1>5, TunnelRests DEF vars, handlers, apps, copies, relay
<1>6. QED
  BY <1>1, <1>2, <1>3, <1>4, <1>5 DEF Next

\* The inductive invariant of a tunnel.
THEOREM TunnelInductive == Spec => []TunnelInv
<1>1. Init => TunnelInv
  BY TunnelInit
<1>2. TunnelInv /\ [Next]_vars => TunnelInv'
  BY TunnelNext
<1>3. QED
  BY <1>1, <1>2, PTL DEF Spec

\* The data of a connection arrives in order, and all of it before an EOF that the reader
\* did not bring about itself (stream_pump.rs, stream.rs, preamble.rs).
THEOREM TunnelDelivers == Spec => []DeliveredInFull
<1>1. ASSUME TunnelInv, NEW s \in Sides
      PROVE  /\ got[s] = Sequence(Len(got[s])) /\ Len(got[s]) <= sent[other(s)]
             /\ stage["remote"] \in {"pumping", "dropped"} /\ ended[s] /\ open[s] /\ ~fault
                   => Len(got[s]) = sent[other(s)] /\ ~open[other(s)]
  <2> DEFINE o == other(s)
  <2>1. /\ TunnelTypes /\ Flow(s) /\ Flow(o) /\ Finish(s)
        /\ o \in Sides /\ other(o) = s /\ Len(got[s]) \in Nat /\ Chunks(wire[o]) \in Nat
    BY <1>1, TunnelFacts
  <2>2. sent[o] \in Nat /\ taken[o] \in Nat
    BY <2>1 DEF TunnelTypes
  <2>3. got[s] = Sequence(Len(got[s])) /\ Len(got[s]) <= sent[o]
    BY <2>1, <2>2 DEF Flow
  <2>4. ASSUME stage["remote"] \in {"pumping", "dropped"}, ended[s], open[s], ~fault
        PROVE  Len(got[s]) = sent[o] /\ ~open[o]
    <3>1. stage[s] # "failed"
      BY <1>1, <2>4 DEF TunnelInv, NoFault, Pumped, Sides
    <3>2. Over(down[s])
      BY <2>1, <2>4, <3>1 DEF Finish
    <3>3. wire[o] = <<>> /\ (up[o] = "ok" \/ up[s] = "ok")
      BY <2>1, <2>4, <3>2 DEF Finish
    <3>4. up[o] = "ok"
      BY <2>1, <2>4, <3>3 DEF Flow
    <3>5. Chunks(wire[o]) = 0
      BY <2>1, <3>3, NoStream
    <3>6. ~open[o] /\ hold[o] = 0 /\ taken[o] = sent[o]
      BY <2>1, <3>4 DEF Flow
    <3>7. Len(got[s]) + 0 + 0 = taken[o]
      BY <2>1, <2>4, <3>4, <3>5, <3>6 DEF Flow
    <3>8. QED
      BY <2>1, <2>2, <3>6, <3>7
  <2>5. QED
    BY <2>3, <2>4
<1>2. TunnelInv => DeliveredInFull
  BY <1>1 DEF DeliveredInFull
<1>3. QED
  BY <1>2, TunnelInductive, PTL
=============================================================================
