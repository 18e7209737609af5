---------------------------- MODULE SessionProofs ----------------------------
(***************************************************************************)
(* Proofs about Session: an event has one user at most and keeps its       *)
(* session, the send queue reaches WSASend in order and complete, nothing  *)
(* queued is stranded and a connected session keeps a receive under way.   *)
(*                                                                         *)
(* The invariant, SessionsOK, says of each session what its connect, its   *)
(* receive side, its send side and its disconnect are doing, in terms of   *)
(* the frames of the call stacks that work on the session.  A step takes   *)
(* one frame away and puts others in its place (Became), or adds calls, so *)
(* each step is a lemma about the side it belongs to, and the other sides  *)
(* stay as they are (RecvStep, SendStep, EndStep, OtherStep).              *)
(*                                                                         *)
(* The lemmas about steps are stated for call stacks over any set of calls *)
(* that includes those of Session.                                         *)
(***************************************************************************)
EXTENDS Session, SequenceTheorems, FiniteSetTheorems, TLAPS

(* A frame is a step of a call stack with its depth, counted from the bottom
   of the stack, so that it stays the same frame when calls come and go above. *)
Frame(t, d, a) ==
    [thread |-> t, depth |-> d, at |-> a.at, session |-> a.session, arg |-> a.arg]

FramesIn(t, q) == {Frame(t, Len(q) + 1 - i, q[i]) : i \in 1 .. Len(q)}

FramesOf(td) == UNION {FramesIn(t, td[t]) : t \in Threads}

Frames == FramesOf(todo)

(* The frames that work on s. *)
On(F, s) == {f \in F : f.session = s}
Mine(s) == On(Frames, s)

Some(s, steps) == \E f \in Mine(s) : f.at \in steps

One(s, steps) == \A f, g \in Mine(s) : f.at \in steps /\ g.at \in steps => f = g

Users(s, k) == {f \in Mine(s) : f.at \in UsesEvent[k]}

(* The event of kind k has one user at most, and its owner while it runs. *)
UsedOnce(s, k) ==
    /\ One(s, UsesEvent[k])
    /\ op[s][k] # "idle" => ~Some(s, UsesEvent[k]) /\ k \in owner[s]

Ends(s) == s \notin connected \/ Some(s, {"disconnect"})

(* Before it is connected, a session has nothing but its connect. *)
Young(s) == s \in fresh \/ op[s]["connect"] # "idle" \/ Some(s, {"processConnect"})

Begins(s) ==
    /\ s \in fresh => op[s]["connect"] = "idle"
    /\ s \in fresh \/ op[s]["connect"] # "idle" => Mine(s) = {}
    /\ \A f, g \in Mine(s) : f.at = "processConnect" => f = g
    /\ op[s]["connect"] # "idle" => "connect" \in owner[s]
    /\ Young(s) => /\ s \notin connected /\ s \notin known /\ s \notin registered
                   /\ sendQueue[s] = <<>>
                   /\ \A k \in Kinds : k # "connect" => op[s][k] = "idle"

(* The receive side: RegisterRecv passes the event on to WSARecv, which gives
   it to Windows, and ProcessRecv back to RegisterRecv. *)
RecvSide(s) ==
    /\ UsedOnce(s, "recv")
    /\ Some(s, {"wsaRecv"}) => "recv" \in owner[s]
    /\ Some(s, {"undoRecv"}) => Ends(s) \/ <<s, "recv">> \in refused
    /\ \/ op[s]["recv"] # "idle" \/ Some(s, UsesEvent["recv"])
       \/ Ends(s) \/ <<s, "recv">> \in refused

SendInUse(s) == op[s]["send"] # "idle" \/ Some(s, UsesEvent["send"])

(* _sendEvent holds buffers from Collect until the send has been processed
   or undone, and nothing is sent without any. *)
Filled(s) ==
    /\ op[s]["send"] # "idle" \/ Some(s, {"wsaSend"}) => sendBuffers[s] # <<>>
    /\ Some(s, {"registerSend", "collect"}) => sendQueue[s] # <<>>
    /\ op[s]["send"] = "idle" /\ ~Some(s, {"wsaSend", "undoSend", "processSend"})
          => sendBuffers[s] = <<>>

Ordered(s) ==
    accepted[s] = handed[s] \o (IF Some(s, {"wsaSend"}) THEN sendBuffers[s] ELSE <<>>)
                            \o sendQueue[s]

(* _sendRegistered is set while the event is in use, and stays set only when
   the session ends. *)
Registered(s) ==
    /\ SendInUse(s) => s \in registered
    /\ s \in registered => SendInUse(s) \/ Ends(s)

Unstranded(s) ==
    /\ sendQueue[s] # <<>> => SendInUse(s) \/ Ends(s) \/ <<s, "send">> \in refused
    /\ Some(s, {"undoSend", "unregister"}) => Ends(s) \/ <<s, "send">> \in refused

SendSide(s) ==
    /\ UsedOnce(s, "send")
    /\ Some(s, {"collect", "wsaSend"}) => "send" \in owner[s]
    /\ Filled(s) /\ Ordered(s) /\ Registered(s) /\ Unstranded(s)

(* Only the call of Disconnect that finds _connected true uses the event. *)
EndSide(s) ==
    /\ UsedOnce(s, "disconnect")
    /\ op[s]["disconnect"] # "idle" \/ Some(s, UsesEvent["disconnect"]) => s \notin connected

SessionOK(s) == Begins(s) /\ RecvSide(s) /\ SendSide(s) /\ EndSide(s)

SessionsOK == \A s \in Sessions : SessionOK(s)

------------------------------------------------------------------------------
(* Frames *)

(* The frames of the steps put on top of m others. *)
Pushed(t, m, steps) == {Frame(t, m + Len(steps) + 1 - j, steps[j]) : j \in 1 .. Len(steps)}

LEMMA FramesOfAppended ==
    ASSUME NEW C, NEW D, NEW p \in Seq(C), NEW q \in Seq(D), NEW t
    PROVE  FramesIn(t, p \o q) = Pushed(t, Len(q), p) \cup FramesIn(t, q)
<1>1. Len(p) \in Nat /\ Len(q) \in Nat
  OBVIOUS
<1>2. /\ Len(p \o q) = Len(p) + Len(q)
      /\ \A i \in 1 .. Len(p) : (p \o q)[i] = p[i]
      /\ \A i \in 1 .. Len(q) : (p \o q)[Len(p) + i] = q[i]
  OBVIOUS
<1> DEFINE n == Len(p)  m == Len(q)  r == p \o q
           P == {Frame(t, m + n + 1 - j, p[j]) : j \in 1 .. n}
<1>3. FramesIn(t, q) = {Frame(t, m + 1 - i, q[i]) : i \in 1 .. m}
  BY DEF FramesIn
<1>4. FramesIn(t, r) = {Frame(t, n + m + 1 - i, r[i]) : i \in 1 .. n + m}
  BY <1>2 DEF FramesIn
<1>5. \A i \in 1 .. n : r[i] = p[i]
  BY <1>2
<1>6. \A i \in 1 .. m : r[n + i] = q[i]
  BY <1>2
<1>7. n \in Nat /\ m \in Nat
  BY <1>1
<1> HIDE DEF n, m, r
<1>8. ASSUME NEW i \in 1 .. n + m PROVE Frame(t, n + m + 1 - i, r[i]) \in P \cup FramesIn(t, q)
  <2>1. CASE i \in 1 .. n
    <3>1. n + m + 1 - i = m + n + 1 - i /\ r[i] = p[i]
      BY <1>5, <1>7, <2>1
    <3> QED
      BY <2>1, <3>1
  <2>2. CASE i \notin 1 .. n
    <3>1. i - n \in 1 .. m /\ n + (i - n) = i /\ n + m + 1 - i = m + 1 - (i - n)
      BY <1>7, <2>2
    <3>2. r[i] = q[i - n]
      BY <1>6, <3>1
    <3> QED
      BY <1>3, <3>1, <3>2
  <2> QED
    BY <2>1, <2>2
<1>9. ASSUME NEW j \in 1 .. n PROVE Frame(t, m + n + 1 - j, p[j]) \in FramesIn(t, r)
  <2>1. j \in 1 .. n + m /\ r[j] = p[j] /\ m + n + 1 - j = n + m + 1 - j
    BY <1>5, <1>7
  <2> QED
    BY <1>4, <2>1
<1>10. ASSUME NEW i \in 1 .. m PROVE Frame(t, m + 1 - i, q[i]) \in FramesIn(t, r)
  <2>1. n + i \in 1 .. n + m /\ r[n + i] = q[i] /\ n + m + 1 - (n + i) = m + 1 - i
    BY <1>6, <1>7
  <2> QED
    BY <1>4, <2>1
<1>11. FramesIn(t, r) = P \cup FramesIn(t, q)
  BY <1>3, <1>4, <1>8, <1>9, <1>10
<1> QED
  BY <1>11 DEF r, n, m, Pushed

LEMMA TopFrame ==
    ASSUME NEW C, NEW q \in Seq(C), q # <<>>, NEW t
    PROVE  /\ Frame(t, Len(q), q[1]) \in FramesIn(t, q)
           /\ FramesIn(t, Tail(q)) = FramesIn(t, q) \ {Frame(t, Len(q), q[1])}
<1>1. Len(q) \in Nat /\ Len(q) >= 1
  OBVIOUS
<1>2. /\ Len(Tail(q)) = Len(q) - 1
      /\ \A i \in 1 .. Len(q) - 1 : Tail(q)[i] = q[i + 1]
  BY <1>1
<1> DEFINE n == Len(q)  r == Tail(q)
<1>3. FramesIn(t, r) = {Frame(t, n - 1 + 1 - i, r[i]) : i \in 1 .. n - 1}
  BY <1>2 DEF FramesIn
<1>4. FramesIn(t, q) = {Frame(t, n + 1 - i, q[i]) : i \in 1 .. n}
  BY DEF FramesIn
<1>5. n \in Nat /\ n >= 1 /\ \A i \in 1 .. n - 1 : r[i] = q[i + 1]
  BY <1>1, <1>2
<1> HIDE DEF n, r
<1>6. Frame(t, n, q[1]) \in FramesIn(t, q)
  <2>1. 1 \in 1 .. n /\ n + 1 - 1 = n
    BY <1>5
  <2> QED
    BY <1>4, <2>1
<1>7. ASSUME NEW i \in 1 .. n - 1
      PROVE  Frame(t, n - 1 + 1 - i, r[i]) \in FramesIn(t, q) \ {Frame(t, n, q[1])}
  <2>1. i + 1 \in 1 .. n /\ n - 1 + 1 - i = n + 1 - (i + 1) /\ n - 1 + 1 - i # n
    BY <1>5
  <2>2. Frame(t, n - 1 + 1 - i, r[i]) \in FramesIn(t, q)
    BY <1>4, <1>5, <2>1
  <2>3. Frame(t, n - 1 + 1 - i, r[i]).depth # Frame(t, n, q[1]).depth
    BY <2>1 DEF Frame
  <2> QED
    BY <2>2, <2>3
<1>8. ASSUME NEW i \in 1 .. n, Frame(t, n + 1 - i, q[i]) # Frame(t, n, q[1])
      PROVE  Frame(t, n + 1 - i, q[i]) \in FramesIn(t, r)
  <2>1. i # 1
    BY <1>5, <1>8
  <2>2. i - 1 \in 1 .. n - 1 /\ n - 1 + 1 - (i - 1) = n + 1 - i /\ r[i - 1] = q[i]
    BY <1>5, <2>1
  <2> QED
    BY <1>3, <2>2
<1>9. FramesIn(t, r) = FramesIn(t, q) \ {Frame(t, n, q[1])}
  BY <1>3, <1>4, <1>7, <1>8
<1> QED
  BY <1>6, <1>9 DEF n, r

LEMMA FramesOfOther ==
    ASSUME NEW td, NEW t \in Threads, NEW c,
           DOMAIN c = Threads, \A u \in Threads : u # t => c[u] = td[u]
    PROVE  FramesOf(c) = (FramesOf(td) \ FramesIn(t, td[t])) \cup FramesIn(t, c[t])
<1>1. \A u, r : \A f \in FramesIn(u, r) : f.thread = u
  BY DEF FramesIn, Frame
<1>2. \A u \in Threads : u # t => FramesIn(u, c[u]) = FramesIn(u, td[u])
  OBVIOUS
<1>3. \A u \in Threads : u # t => FramesIn(u, td[u]) \cap FramesIn(t, td[t]) = {}
  BY <1>1
<1>4. FramesOf(c) \subseteq (FramesOf(td) \ FramesIn(t, td[t])) \cup FramesIn(t, c[t])
  BY <1>2, <1>3 DEF FramesOf
<1>5. (FramesOf(td) \ FramesIn(t, td[t])) \cup FramesIn(t, c[t]) \subseteq FramesOf(c)
  BY <1>2, <1>3 DEF FramesOf
<1> QED
  BY <1>4, <1>5

Top(t) == Frame(t, Len(todo[t]), todo[t][1])

LEMMA CallFrames ==
    ASSUME NEW C, NEW D, todo \in [Threads -> Seq(C)], NEW t \in Threads, NEW steps \in Seq(D),
           todo' = [todo EXCEPT ![t] = steps \o @]
    PROVE  FramesOf(todo') = Frames \cup Pushed(t, Len(todo[t]), steps)
<1>1. PICK c : c = todo'
  OBVIOUS
<1>2. /\ DOMAIN c = Threads /\ \A u \in Threads : u # t => c[u] = todo[u]
      /\ c[t] = steps \o todo[t]
  BY <1>1
<1>3. FramesOf(c) = (FramesOf(todo) \ FramesIn(t, todo[t])) \cup FramesIn(t, c[t])
  BY <1>2, FramesOfOther
<1>4. FramesIn(t, c[t]) = Pushed(t, Len(todo[t]), steps) \cup FramesIn(t, todo[t])
  BY <1>2, FramesOfAppended
<1>5. FramesIn(t, todo[t]) \subseteq Frames
  BY DEF Frames, FramesOf
<1> QED
  BY <1>1, <1>3, <1>4, <1>5 DEF Frames

LEMMA ThenFrames ==
    ASSUME NEW C, NEW D, todo \in [Threads -> Seq(C)], NEW t \in Threads, todo[t] # <<>>,
           NEW steps \in Seq(D), Then(t, steps)
    PROVE  /\ Top(t) \in Frames
           /\ FramesOf(todo') = (Frames \ {Top(t)}) \cup Pushed(t, Len(todo[t]) - 1, steps)
<1> DEFINE q == Tail(todo[t])
<1>1. PICK c : c = todo'
  OBVIOUS
<1>2. /\ DOMAIN c = Threads /\ \A u \in Threads : u # t => c[u] = todo[u]
      /\ c[t] = steps \o q
  BY <1>1 DEF Then
<1>3. FramesOf(c) = (FramesOf(todo) \ FramesIn(t, todo[t])) \cup FramesIn(t, c[t])
  BY <1>2, FramesOfOther
<1>4. todo[t] \in Seq(C) /\ q \in Seq(C) /\ Len(q) = Len(todo[t]) - 1
  OBVIOUS
<1>5. /\ Top(t) \in FramesIn(t, todo[t])
      /\ FramesIn(t, q) = FramesIn(t, todo[t]) \ {Top(t)}
  BY <1>4, TopFrame DEF Top
<1>6. FramesIn(t, todo[t]) \subseteq Frames
  BY DEF Frames, FramesOf
<1> HIDE DEF q
<1>7. FramesIn(t, c[t]) = Pushed(t, Len(todo[t]) - 1, steps) \cup FramesIn(t, q)
  <2>1. FramesIn(t, steps \o q) = Pushed(t, Len(q), steps) \cup FramesIn(t, q)
    BY <1>4, FramesOfAppended
  <2> QED
    BY <1>2, <1>4, <2>1
<1> QED
  BY <1>1, <1>3, <1>5, <1>6, <1>7 DEF Frames

LEMMA Pushed0 == \A t, m : Pushed(t, m, <<>>) = {}
<1>1. Len(<<>>) = 0 /\ 1 .. 0 = {}
  OBVIOUS
<1> QED
  BY <1>1 DEF Pushed

LEMMA Pushed1 ==
    ASSUME NEW t, NEW m \in Int, NEW a
    PROVE  Pushed(t, m, <<a>>) = {Frame(t, m + 1, a)}
<1>1. Len(<<a>>) = 1 /\ 1 .. 1 = {1} /\ m + 1 + 1 - 1 = m + 1 /\ <<a>>[1] = a
  OBVIOUS
<1>2. Pushed(t, m, <<a>>) = {Frame(t, m + 1 + 1 - j, <<a>>[j]) : j \in {1}}
  BY <1>1 DEF Pushed
<1> QED
  BY <1>1, <1>2

LEMMA Pushed2 ==
    ASSUME NEW t, NEW m \in Int, NEW a, NEW b
    PROVE  Pushed(t, m, <<a, b>>) = {Frame(t, m + 2, a), Frame(t, m + 1, b)}
<1>1. /\ Len(<<a, b>>) = 2 /\ 1 .. 2 = {1, 2} /\ <<a, b>>[1] = a /\ <<a, b>>[2] = b
      /\ m + 2 + 1 - 1 = m + 2 /\ m + 2 + 1 - 2 = m + 1
  OBVIOUS
<1>2. Pushed(t, m, <<a, b>>) = {Frame(t, m + 2 + 1 - j, <<a, b>>[j]) : j \in {1, 2}}
  BY <1>1 DEF Pushed
<1> QED
  BY <1>1, <1>2

LEMMA Pushed3 ==
    ASSUME NEW t, NEW m \in Int, NEW a, NEW b, NEW c
    PROVE  Pushed(t, m, <<a, b, c>>)
             = {Frame(t, m + 3, a), Frame(t, m + 2, b), Frame(t, m + 1, c)}
<1>1. /\ Len(<<a, b, c>>) = 3 /\ 1 .. 3 = {1, 2, 3}
      /\ <<a, b, c>>[1] = a /\ <<a, b, c>>[2] = b /\ <<a, b, c>>[3] = c
      /\ m + 3 + 1 - 1 = m + 3 /\ m + 3 + 1 - 2 = m + 2 /\ m + 3 + 1 - 3 = m + 1
  OBVIOUS
<1>2. Pushed(t, m, <<a, b, c>>)
         = {Frame(t, m + 3 + 1 - j, <<a, b, c>>[j]) : j \in {1, 2, 3}}
  BY <1>1 DEF Pushed
<1> QED
  BY <1>1, <1>2

LEMMA TopIs ==
    ASSUME NEW C, todo \in [Threads -> Seq(C)], NEW t \in Threads, NEW s, NEW l, At(t, s, l)
    PROVE  /\ todo[t] # <<>> /\ Len(todo[t]) \in Nat /\ Len(todo[t]) >= 1
           /\ Len(todo[t]) - 1 \in Int /\ Len(todo[t]) - 1 + 1 = Len(todo[t])
           /\ Len(todo[t]) - 1 + 2 = Len(todo[t]) + 1 /\ Len(todo[t]) - 1 + 3 = Len(todo[t]) + 2
           /\ Top(t).session = s /\ Top(t).at = l /\ Top(t).depth = Len(todo[t])
BY DEF At, Top, Frame

(* The step l of a thread on s has given way to the steps K. *)
Became(s, l, K) ==
    /\ \E f \in Mine(s) : \E N :
          /\ f.at = l /\ Mine(s)' = (Mine(s) \ {f}) \cup N
          /\ \A n \in N : n.at \in K
          /\ \A k \in K : \E n \in N : n.at = k
          /\ \A n, m \in N : n.at = m.at => n = m
    /\ \A r : r # s => Mine(r)' = Mine(r)

(* n is the frame of the call a. *)
IsFrame(n, a) == n.session = a.session /\ n.at = a.at

LEMMA FrameIs ==
    ASSUME NEW t, NEW d, NEW a
    PROVE  /\ IsFrame(Frame(t, d, a), a)
           /\ Frame(t, d, a).session = a.session
<1>1. Frame(t, d, a).session = a.session
  BY DEF Frame
<1>2. Frame(t, d, a).at = a.at
  BY DEF Frame
<1> QED
  BY <1>1, <1>2 DEF IsFrame

LEMMA FramesBecome ==
    ASSUME NEW s, NEW l, NEW f \in Frames, f.session = s, f.at = l,
           NEW N, FramesOf(todo') = (Frames \ {f}) \cup N, \A n \in N : n.session = s,
           NEW K, \A n \in N : n.at \in K, \A k \in K : \E n \in N : n.at = k,
           \A n, m \in N : n.at = m.at => n = m
    PROVE  Became(s, l, K)
BY DEF Became, Mine, On, Frames

LEMMA FramesJoin ==
    ASSUME NEW s, NEW N, FramesOf(todo') = Frames \cup N, \A n \in N : n.session = s
    PROVE  /\ Mine(s)' = Mine(s) \cup N
           /\ \A r : r # s => Mine(r)' = Mine(r)
BY DEF Mine, On, Frames

LEMMA StepIs ==
    ASSUME NEW l, NEW s, NEW x
    PROVE  /\ Step(l, s).at = l /\ Step(l, s).session = s
           /\ With(l, s, x).at = l /\ With(l, s, x).session = s
BY DEF Step, With

LEMMA Returns ==
    ASSUME NEW C, todo \in [Threads -> Seq(C)], NEW t \in Threads, NEW s, NEW l, At(t, s, l),
           Return(t)
    PROVE  Became(s, l, {})
<1>1. Then(t, <<>>) /\ <<>> \in Seq(C)
  BY DEF Return
<1>2. /\ Top(t) \in Frames
      /\ FramesOf(todo') = (Frames \ {Top(t)}) \cup Pushed(t, Len(todo[t]) - 1, <<>>)
  BY <1>1, ThenFrames DEF At
<1>3. Top(t).session = s /\ Top(t).at = l
  BY TopIs
<1>4. PICK N : N = {}
  OBVIOUS
<1>5. FramesOf(todo') = (Frames \ {Top(t)}) \cup N
  BY <1>2, <1>4, Pushed0
<1>6. Became(s, l, N)
  BY <1>2, <1>3, <1>4, <1>5, FramesBecome
<1> QED
  BY <1>4, <1>6

LEMMA Goes1 ==
    ASSUME NEW C, todo \in [Threads -> Seq(C)], NEW t \in Threads, NEW s, NEW l, At(t, s, l),
           NEW k, NEW a, a.at = k, a.session = s, Then(t, <<a>>)
    PROVE  Became(s, l, {k})
<1> DEFINE n == Frame(t, Len(todo[t]), a)
<1>1. <<a>> \in Seq({a})
  OBVIOUS
<1>2. /\ Top(t) \in Frames
      /\ FramesOf(todo') = (Frames \ {Top(t)}) \cup Pushed(t, Len(todo[t]) - 1, <<a>>)
  BY <1>1, ThenFrames DEF At
<1>3. Pushed(t, Len(todo[t]) - 1, <<a>>) = {n}
  BY TopIs, Pushed1
<1>4. n.at = k /\ n.session = s
  BY FrameIs DEF IsFrame
<1>5. Top(t).session = s /\ Top(t).at = l
  BY TopIs
<1> DEFINE N == {n}  K == {k}
<1> HIDE DEF n
<1>6. \A x \in N : x.session = s /\ x.at \in K
  BY <1>4
<1>7. /\ \A x \in K : \E y \in N : y.at = x
      /\ \A x, y \in N : x.at = y.at => x = y
  BY <1>4
<1>8. FramesOf(todo') = (Frames \ {Top(t)}) \cup N
  BY <1>2, <1>3
<1> HIDE DEF N, K
<1>9. Top(t) \in Mine(s) /\ Mine(s)' = (Mine(s) \ {Top(t)}) \cup N
  BY <1>2, <1>5, <1>6, <1>8 DEF Mine, On, Frames
<1>10. \A r : r # s => Mine(r)' = Mine(r)
  BY <1>2, <1>5, <1>6, <1>8 DEF Mine, On, Frames
<1>11. Became(s, l, K)
  BY <1>5, <1>6, <1>7, <1>9, <1>10 DEF Became
<1> QED
  BY <1>11 DEF K

LEMMA Goes2 ==
    ASSUME NEW C, todo \in [Threads -> Seq(C)], NEW t \in Threads, NEW s, NEW l, At(t, s, l),
           NEW k, NEW a, a.at = k, a.session = s, NEW j, NEW b, b.at = j, b.session = s,
           k # j, Then(t, <<a, b>>)
    PROVE  Became(s, l, {k, j})
<1> DEFINE n == Frame(t, Len(todo[t]) + 1, a)
           m == Frame(t, Len(todo[t]), b)
<1>1. <<a, b>> \in Seq({a, b})
  OBVIOUS
<1>2. /\ Top(t) \in Frames
      /\ FramesOf(todo') = (Frames \ {Top(t)}) \cup Pushed(t, Len(todo[t]) - 1, <<a, b>>)
  BY <1>1, ThenFrames DEF At
<1>3. Pushed(t, Len(todo[t]) - 1, <<a, b>>) = {n, m}
  BY TopIs, Pushed2
<1>4. n.at = k /\ m.at = j /\ n.session = s /\ m.session = s
  BY FrameIs DEF IsFrame
<1>5. Top(t).session = s /\ Top(t).at = l
  BY TopIs
<1> DEFINE N == {n, m}  K == {k, j}
<1> HIDE DEF n, m
<1>6. \A x \in N : x.session = s /\ x.at \in K
  BY <1>4
<1>7. /\ \A x \in K : \E y \in N : y.at = x
      /\ \A x, y \in N : x.at = y.at => x = y
  BY <1>4
<1>8. FramesOf(todo') = (Frames \ {Top(t)}) \cup N
  BY <1>2, <1>3
<1> HIDE DEF N, K
<1>9. Top(t) \in Mine(s) /\ Mine(s)' = (Mine(s) \ {Top(t)}) \cup N
  BY <1>2, <1>5, <1>6, <1>8 DEF Mine, On, Frames
<1>10. \A r : r # s => Mine(r)' = Mine(r)
  BY <1>2, <1>5, <1>6, <1>8 DEF Mine, On, Frames
<1>11. Became(s, l, K)
  BY <1>5, <1>6, <1>7, <1>9, <1>10 DEF Became
<1> QED
  BY <1>11 DEF K

LEMMA Goes3 ==
    ASSUME NEW C, todo \in [Threads -> Seq(C)], NEW t \in Threads, NEW s, NEW l, At(t, s, l),
           NEW k, NEW a, a.at = k, a.session = s, NEW j, NEW b, b.at = j, b.session = s,
           NEW i, NEW c, c.at = i, c.session = s, k # j, k # i, j # i, Then(t, <<a, b, c>>)
    PROVE  Became(s, l, {k, j, i})
<1> DEFINE n == Frame(t, Len(todo[t]) + 2, a)
           m == Frame(t, Len(todo[t]) + 1, b)
           o == Frame(t, Len(todo[t]), c)
<1>1. <<a, b, c>> \in Seq({a, b, c})
  OBVIOUS
<1>2. /\ Top(t) \in Frames
      /\ FramesOf(todo') = (Frames \ {Top(t)}) \cup Pushed(t, Len(todo[t]) - 1, <<a, b, c>>)
  BY <1>1, ThenFrames DEF At
<1>3. Pushed(t, Len(todo[t]) - 1, <<a, b, c>>) = {n, m, o}
  BY TopIs, Pushed3
<1>4. /\ n.at = k /\ m.at = j /\ o.at = i
      /\ n.session = s /\ m.session = s /\ o.session = s
  BY FrameIs DEF IsFrame
<1>5. Top(t).session = s /\ Top(t).at = l
  BY TopIs
<1> DEFINE N == {n, m, o}  K == {k, j, i}
<1> HIDE DEF n, m, o
<1>6. \A x \in N : x.session = s /\ x.at \in K
  BY <1>4
<1>7. /\ \A x \in K : \E y \in N : y.at = x
      /\ \A x, y \in N : x.at = y.at => x = y
  BY <1>4
<1>8. FramesOf(todo') = (Frames \ {Top(t)}) \cup N
  BY <1>2, <1>3
<1> HIDE DEF N, K
<1>9. Top(t) \in Mine(s) /\ Mine(s)' = (Mine(s) \ {Top(t)}) \cup N
  BY <1>2, <1>5, <1>6, <1>8 DEF Mine, On, Frames
<1>10. \A r : r # s => Mine(r)' = Mine(r)
  BY <1>2, <1>5, <1>6, <1>8 DEF Mine, On, Frames
<1>11. Became(s, l, K)
  BY <1>5, <1>6, <1>7, <1>9, <1>10 DEF Became
<1> QED
  BY <1>11 DEF K

(* A call made by user code or by a worker that dequeued an event. *)
Joined(s, k) ==
    /\ \E n : n.at = k /\ Mine(s)' = Mine(s) \cup {n}
    /\ \A r : r # s => Mine(r)' = Mine(r)

LEMMA Joins ==
    ASSUME NEW C, todo \in [Threads -> Seq(C)], NEW t \in Threads, NEW s,
           NEW k, NEW a, a.at = k, a.session = s,
           todo' = [todo EXCEPT ![t] = <<a>> \o @]
    PROVE  Joined(s, k)
<1> DEFINE n == Frame(t, Len(todo[t]) + 1, a)
<1>1. <<a>> \in Seq({a})
  OBVIOUS
<1>2. FramesOf(todo') = Frames \cup Pushed(t, Len(todo[t]), <<a>>)
  BY <1>1, CallFrames
<1>3. Len(todo[t]) \in Int
  OBVIOUS
<1>4. Pushed(t, Len(todo[t]), <<a>>) = {n}
  BY <1>3, Pushed1
<1>5. n.at = k /\ n.session = s
  BY FrameIs DEF IsFrame
<1> HIDE DEF n
<1>6. FramesOf(todo') = Frames \cup {n}
  BY <1>2, <1>4
<1> QED
  BY <1>5, <1>6, FramesJoin DEF Joined
------------------------------------------------------------------------------
(* What a step does to the sets of frames that the invariant is about. *)

LEMMA Wider == \A s, A, B : A \subseteq B /\ Some(s, A) => Some(s, B)
BY DEF Some

LEMMA WasThere ==
    ASSUME NEW s, NEW l, NEW K, Became(s, l, K), NEW A, l \in A
    PROVE  Some(s, A)
BY DEF Became, Some

(* The frame that takes the step is the only one that uses the event. *)
LEMMA SoleUser ==
    ASSUME NEW s, NEW l, NEW K, Became(s, l, K), NEW A, l \in A, One(s, A),
           NEW B, B \subseteq A, l \notin B
    PROVE  ~Some(s, B)
BY DEF Became, Some, One

LEMMA Goes == 
    ASSUME NEW s, NEW l, NEW K, Became(s, l, K), NEW A
    PROVE  /\ (\E k \in K : k \in A) => Some(s, A)'
           /\ l \notin A /\ Some(s, A) => Some(s, A)'
           /\ (\A k \in K : k \notin A) /\ Some(s, A)' => Some(s, A)
BY DEF Became, Some

LEMMA UserLeaves ==
    ASSUME NEW s, NEW l, NEW K, Became(s, l, K), NEW A, One(s, A),
           \A k \in K : k \notin A
    PROVE  /\ One(s, A)'
           /\ l \in A => ~Some(s, A)'
BY DEF Became, Some, One

LEMMA UserGoesOn ==
    ASSUME NEW s, NEW l, NEW K, Became(s, l, K), NEW A, One(s, A), l \in A \/ ~Some(s, A),
           \A j, k \in K : j \in A /\ k \in A => j = k
    PROVE  One(s, A)'
BY DEF Became, Some, One

LEMMA BeginsStays ==
    ASSUME NEW s \in Sessions, Begins(s), NEW l, NEW K, Became(s, l, K), l # "processConnect",
           "processConnect" \notin K,
           s \in fresh' => s \in fresh, op'[s]["connect"] = op[s]["connect"]
    PROVE  /\ Begins(s)'
           /\ op[s]["connect"] = "idle"
<1>1. Mine(s) # {} /\ ~Some(s, {"processConnect"})
  BY DEF Became, Begins, Some
<1>2. ~Some(s, {"processConnect"})'
  BY <1>1, Goes
<1>3. ~Young(s)'
  BY <1>1, <1>2 DEF Begins, Young
<1>4. (\A f, g \in Mine(s) : f.at = "processConnect" => f = g)'
  BY <1>2 DEF Some
<1> QED
  BY <1>1, <1>3, <1>4 DEF Begins, Young
------------------------------------------------------------------------------
(* Sessions *)

SessionState(C) ==
    /\ SessionTypes
    /\ accepted \in [Sessions -> Seq(Buffers)] /\ handed \in [Sessions -> Seq(Buffers)]
    /\ todo \in [Threads -> Seq(C)]

LEMMA Uses ==
    /\ UsesEvent["recv"] = {"processConnect", "registerRecv", "wsaRecv", "undoRecv",
                            "processRecv", "afterRecv"}
    /\ UsesEvent["send"] = {"registerSend", "collect", "wsaSend", "undoSend", "unregister",
                            "processSend", "resume"}
    /\ UsesEvent["disconnect"] = {"registerDisconnect", "processDisconnect", "releaseSession"}
BY DEF UsesEvent

(* What a step on s leaves alone of the other sessions. *)
OnlyFor(s) ==
    \A r \in Sessions \ {s} :
        /\ Mine(r)' = Mine(r)
        /\ r \in connected' <=> r \in connected
        /\ r \in registered' <=> r \in registered
        /\ r \in known' <=> r \in known
        /\ r \in fresh' => r \in fresh
        /\ sendQueue'[r] = sendQueue[r] /\ sendBuffers'[r] = sendBuffers[r]
        /\ owner'[r] = owner[r] /\ op'[r] = op[r]
        /\ accepted'[r] = accepted[r] /\ handed'[r] = handed[r]
        /\ refused \subseteq refused'

LEMMA UsersStay ==
    ASSUME NEW s, NEW k, Users(s, k)' = Users(s, k), NEW A, A \subseteq UsesEvent[k]
    PROVE  /\ Some(s, A)' <=> Some(s, A)
           /\ One(s, A)' <=> One(s, A)
BY DEF Users, Some, One

LEMMA RecvSideStays ==
    ASSUME NEW s \in Sessions, RecvSide(s), Users(s, "recv")' = Users(s, "recv"),
           op'[s]["recv"] = "idle" <=> op[s]["recv"] = "idle",
           "recv" \in owner[s] => "recv" \in owner'[s],
           Ends(s) => Ends(s)', refused \subseteq refused'
    PROVE  RecvSide(s)'
<1>1. \A A : A \subseteq UsesEvent["recv"] => (Some(s, A)' <=> Some(s, A))
  BY UsersStay
<1>2. One(s, UsesEvent["recv"])' <=> One(s, UsesEvent["recv"])
  BY UsersStay
<1>3. {"wsaRecv"} \subseteq UsesEvent["recv"] /\ {"undoRecv"} \subseteq UsesEvent["recv"]
  BY Uses
<1> QED
  BY <1>1, <1>2, <1>3 DEF RecvSide, UsedOnce

LEMMA EndSideStays ==
    ASSUME NEW s \in Sessions, EndSide(s), Users(s, "disconnect")' = Users(s, "disconnect"),
           op'[s]["disconnect"] = "idle" <=> op[s]["disconnect"] = "idle",
           "disconnect" \in owner[s] => "disconnect" \in owner'[s],
           s \in connected' => s \in connected
    PROVE  EndSide(s)'
<1>1. Some(s, UsesEvent["disconnect"])' <=> Some(s, UsesEvent["disconnect"])
  BY UsersStay
<1>2. One(s, UsesEvent["disconnect"])' <=> One(s, UsesEvent["disconnect"])
  BY UsersStay
<1> QED
  BY <1>1, <1>2 DEF EndSide, UsedOnce

LEMMA SendSideStays ==
    ASSUME NEW s \in Sessions, SendSide(s), Users(s, "send")' = Users(s, "send"),
           op'[s]["send"] = "idle" <=> op[s]["send"] = "idle",
           "send" \in owner[s] => "send" \in owner'[s],
           s \in registered' <=> s \in registered,
           sendQueue'[s] = sendQueue[s], sendBuffers'[s] = sendBuffers[s],
           accepted'[s] = accepted[s], handed'[s] = handed[s],
           Ends(s) => Ends(s)', refused \subseteq refused'
    PROVE  SendSide(s)'
<1>1. \A A : A \subseteq UsesEvent["send"] => (Some(s, A)' <=> Some(s, A))
  BY UsersStay
<1>2. One(s, UsesEvent["send"])' <=> One(s, UsesEvent["send"])
  BY UsersStay
<1>3. /\ {"collect", "wsaSend"} \subseteq UsesEvent["send"]
      /\ {"registerSend", "collect"} \subseteq UsesEvent["send"]
      /\ {"wsaSend", "undoSend", "processSend"} \subseteq UsesEvent["send"]
      /\ {"undoSend", "unregister"} \subseteq UsesEvent["send"]
      /\ {"wsaSend"} \subseteq UsesEvent["send"]
  BY Uses
<1>4. UsedOnce(s, "send")' /\ (Some(s, {"collect", "wsaSend"}) => "send" \in owner[s])'
  BY <1>1, <1>2, <1>3 DEF SendSide, UsedOnce
<1>5. Filled(s)'
  BY <1>1, <1>3 DEF SendSide, Filled
<1>6. Ordered(s)'
  BY <1>1, <1>3 DEF SendSide, Ordered
<1>7. Registered(s)' /\ Unstranded(s)'
  BY <1>1, <1>3 DEF SendSide, Registered, Unstranded, SendInUse
<1> QED
  BY <1>4, <1>5, <1>6, <1>7 DEF SendSide

LEMMA Others ==
    ASSUME SessionsOK, NEW s, OnlyFor(s), s \in Sessions => SessionOK(s)'
    PROVE  SessionsOK'
<1> SUFFICES ASSUME NEW r \in Sessions, r # s PROVE SessionOK(r)'
  BY DEF SessionsOK
<1>1. SessionOK(r)
  BY DEF SessionsOK
<1>2. \A steps : Some(r, steps)' <=> Some(r, steps)
  BY DEF Some, OnlyFor
<1>3. \A k : Users(r, k)' = Users(r, k)
  BY DEF Users, OnlyFor
<1>4. Ends(r)' <=> Ends(r)
  BY <1>2 DEF Ends, OnlyFor
<1>5. Begins(r)'
  BY <1>1, <1>2 DEF SessionOK, Begins, Young, OnlyFor
<1>6. RecvSide(r)'
  BY <1>1, <1>3, <1>4, RecvSideStays DEF SessionOK, OnlyFor
<1>7. SendSide(r)'
  BY <1>1, <1>3, <1>4, SendSideStays DEF SessionOK, OnlyFor
<1>8. EndSide(r)'
  BY <1>1, <1>3, EndSideStays DEF SessionOK, OnlyFor
<1> QED
  BY <1>5, <1>6, <1>7, <1>8 DEF SessionOK

(* The types of what steps change at a session. *)
LEMMA Typed ==
    ASSUME NEW C, SessionState(C)
    PROVE  /\ sendQueue \in [Sessions -> Seq(Buffers)] /\ sendBuffers \in [Sessions -> Seq(Buffers)]
           /\ accepted \in [Sessions -> Seq(Buffers)] /\ handed \in [Sessions -> Seq(Buffers)]
           /\ owner \in [Sessions -> SUBSET Kinds]
           /\ op \in [Sessions -> [Kinds -> {"idle", "pending", "ok", "zero"}]]
           /\ todo \in [Threads -> Seq(C)]
BY DEF SessionState, SessionTypes

(* The step of a handler on s that stays out of an event leaves its users. *)
LEMMA Aside ==
    ASSUME NEW s, NEW l, NEW K, Became(s, l, K), NEW k, l \notin UsesEvent[k],
           \A j \in K : j \notin UsesEvent[k]
    PROVE  Users(s, k)' = Users(s, k)
BY DEF Became, Users

LEMMA EndsStays ==
    ASSUME NEW s, NEW l, NEW K, Became(s, l, K), s \in connected' => s \in connected,
           l # "disconnect" \/ s \notin connected'
    PROVE  Ends(s) => Ends(s)'
BY Goes DEF Ends

(* A step on s that changes the event of kind k only. *)
OwnEvent(s, k) ==
    /\ \A r \in Sessions \ {s} : op'[r] = op[r] /\ owner'[r] = owner[r]
    /\ \A j \in Kinds \ {k} : op'[s][j] = op[s][j] /\ (j \in owner[s] => j \in owner'[s])

LEMMA Idle == ASSUME op' = op, owner' = owner, NEW s \in Sessions, NEW k PROVE OwnEvent(s, k)
BY DEF OwnEvent

LEMMA RecvStep ==
    ASSUME SessionsOK, NEW s \in Sessions, NEW l, NEW K, Became(s, l, K),
           l \in UsesEvent["recv"], l # "processConnect",
           K \subseteq UsesEvent["recv"] \cup {"disconnect"} \cup Callbacks,
           "processConnect" \notin K,
           UNCHANGED <<connected, SendVars, UserVars>>, refused \subseteq refused',
           OwnEvent(s, "recv"), RecvSide(s)'
    PROVE  SessionsOK'
<1>1. SessionOK(s)
  BY DEF SessionsOK
<1>2. OnlyFor(s)
  BY DEF OnlyFor, Became, OwnEvent, SendVars, UserVars
<1>3. Ends(s) => Ends(s)'
  BY EndsStays, Uses DEF UserVars
<1>4. Users(s, "send")' = Users(s, "send") /\ Users(s, "disconnect")' = Users(s, "disconnect")
  BY Aside, Uses DEF Callbacks
<1>5. Begins(s)'
  BY <1>1, BeginsStays DEF SessionOK, OwnEvent, UserVars, Kinds
<1>6. SendSide(s)'
  BY <1>1, <1>3, <1>4, SendSideStays DEF SessionOK, OwnEvent, SendVars, Kinds
<1>7. EndSide(s)'
  BY <1>1, <1>4, EndSideStays DEF SessionOK, OwnEvent, Kinds
<1> QED
  BY <1>2, <1>5, <1>6, <1>7, Others DEF SessionOK

LEMMA SendStep ==
    ASSUME SessionsOK, NEW s \in Sessions, NEW l, NEW K, Became(s, l, K),
           l \in UsesEvent["send"] \cup {"push"},
           K \subseteq UsesEvent["send"] \cup {"disconnect", "unlock"} \cup Callbacks,
           UNCHANGED <<connected, UserVars>>, refused \subseteq refused',
           \A r \in Sessions \ {s} :
              /\ r \in registered' <=> r \in registered
              /\ sendQueue'[r] = sendQueue[r] /\ sendBuffers'[r] = sendBuffers[r]
              /\ accepted'[r] = accepted[r] /\ handed'[r] = handed[r],
           OwnEvent(s, "send"), SendSide(s)'
    PROVE  SessionsOK'
<1>1. SessionOK(s)
  BY DEF SessionsOK
<1>2. OnlyFor(s)
  BY DEF OnlyFor, Became, OwnEvent, UserVars
<1>3. Ends(s) => Ends(s)'
  BY EndsStays, Uses DEF UserVars
<1>4. Users(s, "recv")' = Users(s, "recv") /\ Users(s, "disconnect")' = Users(s, "disconnect")
  BY Aside, Uses DEF Callbacks
<1>5. Begins(s)'
  BY <1>1, BeginsStays, Uses DEF SessionOK, OwnEvent, UserVars, Kinds, Callbacks
<1>6. RecvSide(s)'
  BY <1>1, <1>3, <1>4, RecvSideStays DEF SessionOK, OwnEvent, Kinds
<1>7. EndSide(s)'
  BY <1>1, <1>4, EndSideStays DEF SessionOK, OwnEvent, Kinds
<1> QED
  BY <1>2, <1>5, <1>6, <1>7, Others DEF SessionOK

LEMMA EndStep ==
    ASSUME SessionsOK, NEW s \in Sessions, NEW l, NEW K, Became(s, l, K),
           l \in UsesEvent["disconnect"] \cup {"disconnect"},
           K \subseteq UsesEvent["disconnect"] \cup Callbacks,
           connected' = connected \/ connected' = connected \ {s},
           l = "disconnect" => s \notin connected',
           UNCHANGED <<SendVars, UserVars>>, refused \subseteq refused',
           OwnEvent(s, "disconnect"), EndSide(s)'
    PROVE  SessionsOK'
<1>1. SessionOK(s)
  BY DEF SessionsOK
<1>2. OnlyFor(s)
  BY DEF OnlyFor, Became, OwnEvent, SendVars, UserVars
<1>3. Ends(s) => Ends(s)'
  BY EndsStays
<1>4. Users(s, "recv")' = Users(s, "recv") /\ Users(s, "send")' = Users(s, "send")
  BY Aside, Uses DEF Callbacks
<1>5. Begins(s)'
  BY <1>1, BeginsStays, Uses DEF SessionOK, OwnEvent, UserVars, Kinds, Callbacks
<1>6. RecvSide(s)'
  BY <1>1, <1>3, <1>4, RecvSideStays DEF SessionOK, OwnEvent, Kinds
<1>7. SendSide(s)'
  BY <1>1, <1>3, <1>4, SendSideStays DEF SessionOK, OwnEvent, SendVars, Kinds
<1> QED
  BY <1>2, <1>5, <1>6, <1>7, Others DEF SessionOK

(* A step that uses no event: a callback returns, Unlock, Send's check. *)
LEMMA OtherStep ==
    ASSUME SessionsOK, NEW s, NEW l, NEW K, Became(s, l, K),
           \A k \in {"recv", "send", "disconnect"} : \A j \in K \cup {l} : j \notin UsesEvent[k],
           l # "disconnect",
           UNCHANGED <<connected, registered, sendQueue, sendBuffers, accepted, handed, fresh,
                       op, owner, refused>>,
           known \subseteq known' /\ known' \subseteq known \cup {s}
    PROVE  SessionsOK'
<1>1. OnlyFor(s)
  BY DEF OnlyFor, Became
<1> SUFFICES ASSUME s \in Sessions PROVE SessionOK(s)'
  BY <1>1, Others
<1>2. SessionOK(s)
  BY DEF SessionsOK
<1>3. Ends(s) => Ends(s)'
  BY EndsStays
<1>4. \A k \in {"recv", "send", "disconnect"} : Users(s, k)' = Users(s, k)
  BY Aside
<1>5. l # "processConnect" /\ "processConnect" \notin K
  BY Uses
<1>6. Begins(s)'
  BY <1>2, <1>5, BeginsStays DEF SessionOK
<1>7. RecvSide(s)' /\ SendSide(s)' /\ EndSide(s)'
  BY <1>2, <1>3, <1>4, RecvSideStays, SendSideStays, EndSideStays DEF SessionOK
<1> QED
  BY <1>6, <1>7 DEF SessionOK
------------------------------------------------------------------------------
(* The only user of an event gives way to K. *)
LEMMA UseBecomes ==
    ASSUME NEW s, NEW k, UsedOnce(s, k), NEW l, NEW K, Became(s, l, K), l \in UsesEvent[k],
           \A i, j \in K : i \in UsesEvent[k] /\ j \in UsesEvent[k] => i = j,
           op'[s][k] # "idle" => k \in owner'[s] /\ \A i \in K : i \notin UsesEvent[k]
    PROVE  /\ UsedOnce(s, k)' /\ op[s][k] = "idle"
           /\ \A A \in SUBSET UsesEvent[k] : /\ Some(s, A) <=> l \in A
                                             /\ Some(s, A)' <=> \E i \in K : i \in A
<1>1. op[s][k] = "idle" /\ One(s, UsesEvent[k])
  BY WasThere DEF UsedOnce
<1>2. One(s, UsesEvent[k])'
  BY <1>1, UserGoesOn
<1>3. ASSUME NEW A \in SUBSET UsesEvent[k]
      PROVE  Some(s, A) <=> l \in A
  BY <1>1, WasThere, SoleUser
<1>4. ASSUME NEW A \in SUBSET UsesEvent[k]
      PROVE  Some(s, A)' <=> \E i \in K : i \in A
  BY <1>1 DEF Became, Some, One
<1>5. op'[s][k] # "idle" => ~Some(s, UsesEvent[k])'
  BY <1>4
<1> QED
  BY <1>1, <1>2, <1>3, <1>4, <1>5 DEF UsedOnce

(* The user of the receive event leaves it to Windows or to nobody. *)
LEMMA RecvLeaves ==
    ASSUME NEW s, RecvSide(s), NEW l, NEW K, Became(s, l, K), l \in UsesEvent["recv"],
           K \cap UsesEvent["recv"] = {},
           \/ op'[s]["recv"] # "idle" /\ "recv" \in owner'[s]
           \/ op'[s]["recv"] = "idle" /\ (Ends(s)' \/ <<s, "recv">> \in refused')
    PROVE  RecvSide(s)'
<1>1. UsedOnce(s, "recv") /\ \A i \in K : i \notin UsesEvent["recv"]
  BY DEF RecvSide
<1>2. UsedOnce(s, "recv")' /\ \A A \in SUBSET UsesEvent["recv"] : ~Some(s, A)'
  BY <1>1, UseBecomes
<1>3. {"wsaRecv"} \subseteq UsesEvent["recv"] /\ {"undoRecv"} \subseteq UsesEvent["recv"]
  BY Uses
<1> QED
  BY <1>2, <1>3 DEF RecvSide

(* It goes on to j. *)
LEMMA RecvGoesOn ==
    ASSUME NEW s, RecvSide(s), NEW l, NEW K, Became(s, l, K), l \in UsesEvent["recv"],
           NEW j, K \cap UsesEvent["recv"] = {j},
           op'[s]["recv"] = op[s]["recv"],
           j = "wsaRecv" => "recv" \in owner'[s],
           j = "undoRecv" => Ends(s)' \/ <<s, "recv">> \in refused'
    PROVE  RecvSide(s)'
<1>1. UsedOnce(s, "recv") /\ j \in K /\ j \in UsesEvent["recv"]
  BY DEF RecvSide
<1>2. \A i \in K : i \in UsesEvent["recv"] => i = j
  OBVIOUS
<1>3. op[s]["recv"] = "idle"
  BY <1>1, WasThere DEF UsedOnce
<1>4. /\ UsedOnce(s, "recv")'
      /\ \A A \in SUBSET UsesEvent["recv"] : Some(s, A)' <=> \E i \in K : i \in A
  BY <1>1, <1>2, <1>3, UseBecomes
<1>5. {"wsaRecv"} \subseteq UsesEvent["recv"] /\ {"undoRecv"} \subseteq UsesEvent["recv"]
  BY Uses
<1>6. \A A \in SUBSET UsesEvent["recv"] : Some(s, A)' <=> j \in A
  BY <1>1, <1>2, <1>4
<1>7. /\ Some(s, {"wsaRecv"})' <=> j = "wsaRecv"
      /\ Some(s, {"undoRecv"})' <=> j = "undoRecv"
      /\ Some(s, UsesEvent["recv"])'
  BY <1>1, <1>5, <1>6
<1> QED
  BY <1>4, <1>7 DEF RecvSide
------------------------------------------------------------------------------
(* The steps of the receive side *)

LEMMA RegisterRecvKeeps ==
    ASSUME NEW C, SessionState(C), SessionsOK, NEW t \in Threads, NEW s \in Sessions,
           RegisterRecv(t, s)
    PROVE  SessionsOK'
<1>1. /\ RecvSide(s) /\ At(t, s, "registerRecv")
      /\ todo \in [Threads -> Seq(C)] /\ owner \in [Sessions -> SUBSET Kinds]
      /\ UNCHANGED <<connected, op, refused, SendVars, UserVars>>
  BY Typed DEF SessionsOK, SessionOK, RegisterRecv
<1>2. CASE s \in connected
  <2>1. owner' = [owner EXCEPT ![s] = @ \cup {"recv"}] /\ Then(t, <<Step("wsaRecv", s)>>)
    BY <1>2 DEF RegisterRecv, Register
  <2>2. Became(s, "registerRecv", {"wsaRecv"})
    BY <1>1, <2>1, Goes1, StepIs, Zenon
  <2>3. OwnEvent(s, "recv") /\ "recv" \in owner'[s]
    BY <1>1, <2>1 DEF OwnEvent
  <2>4. {"wsaRecv"} \cap UsesEvent["recv"] = {"wsaRecv"} /\ "registerRecv" \in UsesEvent["recv"]
    BY Uses
  <2>5. RecvSide(s)'
    BY <1>1, <2>2, <2>3, <2>4, RecvGoesOn
  <2> QED
    BY <1>1, <2>2, <2>3, <2>5, RecvStep, Uses
<1>3. CASE s \notin connected
  <2>1. Return(t) /\ UNCHANGED owner
    BY <1>3 DEF RegisterRecv, Register
  <2>2. Became(s, "registerRecv", {})
    BY <1>1, <2>1, Returns
  <2>3. OwnEvent(s, "recv") /\ Ends(s)'
    BY <1>1, <1>3, <2>1, Idle DEF Ends
  <2>4. op'[s]["recv"] = "idle"
    BY <1>1, <2>2, Uses, WasThere DEF RecvSide, UsedOnce
  <2>5. RecvSide(s)'
    BY <1>1, <2>2, <2>3, <2>4, RecvLeaves, Uses
  <2> QED
    BY <1>1, <2>2, <2>3, <2>5, RecvStep, Uses
<1> QED
  BY <1>2, <1>3

LEMMA WSARecvKeeps ==
    ASSUME NEW C, SessionState(C), SessionsOK, NEW t \in Threads, NEW s \in Sessions, WSARecv(t, s)
    PROVE  SessionsOK'
<1>1. /\ RecvSide(s) /\ At(t, s, "wsaRecv") /\ UNCHANGED <<connected, owner, SendVars, UserVars>>
      /\ todo \in [Threads -> Seq(C)]
      /\ op \in [Sessions -> [Kinds -> {"idle", "pending", "ok", "zero"}]]
  BY Typed DEF SessionsOK, SessionOK, WSARecv
<1>2. CASE op' = [op EXCEPT ![s]["recv"] = "pending"] /\ Return(t) /\ UNCHANGED refused
  <2>1. Became(s, "wsaRecv", {})
    BY <1>1, <1>2, Returns
  <2>2. op'[s]["recv"] = "pending" /\ OwnEvent(s, "recv")
    BY <1>1, <1>2 DEF OwnEvent, Kinds
  <2>3. "recv" \in owner'[s]
    BY <1>1, <2>1, WasThere DEF RecvSide
  <2>4. RecvSide(s)'
    BY <1>1, <2>1, <2>2, <2>3, RecvLeaves, Uses
  <2> QED
    BY <1>1, <1>2, <2>1, <2>2, <2>4, RecvStep, Uses
<1>3. CASE Then(t, <<Step("disconnect", s), Step("undoRecv", s)>>) /\ UNCHANGED <<op, refused>>
  <2>1. Became(s, "wsaRecv", {"disconnect", "undoRecv"})
    <3>1. /\ Step("disconnect", s).at = "disconnect" /\ Step("disconnect", s).session = s
          /\ Step("undoRecv", s).at = "undoRecv" /\ Step("undoRecv", s).session = s
          /\ "disconnect" # "undoRecv"
      BY StepIs
    <3> QED
      BY <1>1, <1>3, <3>1, Goes2, Zenon
  <2>2. Some(s, {"disconnect"})' /\ OwnEvent(s, "recv")
    <3>1. Some(s, {"disconnect"})'
      BY <2>1, Goes
    <3> QED
      BY <1>1, <1>3, <3>1, Idle
  <2>3. {"disconnect", "undoRecv"} \cap UsesEvent["recv"] = {"undoRecv"}
    BY Uses
  <2>4. RecvSide(s)'
    BY <1>1, <1>3, <2>1, <2>2, <2>3, RecvGoesOn, Uses DEF Ends
  <2> QED
    BY <1>1, <1>3, <2>1, <2>2, <2>4, RecvStep, Uses
<1>4. CASE /\ Then(t, <<Step("undoRecv", s)>>)
           /\ refused' = refused \cup {<<s, "recv">>} /\ UNCHANGED op
  <2>1. Became(s, "wsaRecv", {"undoRecv"})
    BY <1>1, <1>4, Goes1, StepIs, Zenon
  <2>2. {"undoRecv"} \cap UsesEvent["recv"] = {"undoRecv"} /\ OwnEvent(s, "recv")
    BY <1>1, <1>4, Uses, Idle
  <2>3. RecvSide(s)'
    BY <1>1, <1>4, <2>1, <2>2, RecvGoesOn, Uses
  <2> QED
    BY <1>1, <1>4, <2>1, <2>2, <2>3, RecvStep, Uses
<1> QED
  BY <1>2, <1>3, <1>4 DEF WSARecv, Issue

LEMMA UndoRecvKeeps ==
    ASSUME NEW C, SessionState(C), SessionsOK, NEW t \in Threads, NEW s \in Sessions, UndoRecv(t, s)
    PROVE  SessionsOK'
<1>1. /\ RecvSide(s) /\ At(t, s, "undoRecv") /\ Return(t)
      /\ owner' = [owner EXCEPT ![s] = @ \ {"recv"}]
      /\ todo \in [Threads -> Seq(C)] /\ owner \in [Sessions -> SUBSET Kinds]
      /\ UNCHANGED <<connected, op, refused, SendVars, UserVars>>
  BY Typed DEF SessionsOK, SessionOK, UndoRecv, Release
<1>2. Became(s, "undoRecv", {}) /\ OwnEvent(s, "recv")
  BY <1>1, Returns DEF OwnEvent
<1>3. op'[s]["recv"] = "idle"
  BY <1>1, <1>2, Uses, WasThere DEF RecvSide, UsedOnce
<1>4. Ends(s)' \/ <<s, "recv">> \in refused'
  BY <1>1, <1>2, WasThere, EndsStays DEF RecvSide
<1>5. RecvSide(s)'
  BY <1>2, <1>1, <1>3, <1>4, RecvLeaves, Uses
<1> QED
  BY <1>1, <1>2, <1>5, RecvStep, Uses

LEMMA ProcessRecvKeeps ==
    ASSUME NEW C, SessionState(C), SessionsOK, NEW t \in Threads, NEW s \in Sessions,
           ProcessRecv(t, s)
    PROVE  SessionsOK'
<1>1. /\ RecvSide(s) /\ At(t, s, "processRecv")
      /\ owner' = [owner EXCEPT ![s] = @ \ {"recv"}]
      /\ todo \in [Threads -> Seq(C)] /\ owner \in [Sessions -> SUBSET Kinds]
      /\ UNCHANGED <<connected, op, refused, SendVars, UserVars>>
  BY Typed DEF SessionsOK, SessionOK, ProcessRecv, Release
<1>2. OwnEvent(s, "recv")
  BY <1>1 DEF OwnEvent
<1>3. CASE Then(t, <<Step("disconnect", s)>>)
  <2>1. Became(s, "processRecv", {"disconnect"})
    BY <1>1, <1>3, Goes1, StepIs, Zenon
  <2>2. Ends(s)'
    BY <2>1, Goes DEF Ends
  <2>3. op'[s]["recv"] = "idle"
    BY <1>1, <2>1, Uses, WasThere DEF RecvSide, UsedOnce
  <2>4. RecvSide(s)'
    BY <1>1, <2>1, <2>2, <2>3, RecvLeaves, Uses
  <2> QED
    BY <1>1, <1>2, <2>1, <2>4, RecvStep, Uses
<1>4. CASE Then(t, <<Step("onRecv", s), Step("afterRecv", s)>>)
  <2>1. Became(s, "processRecv", {"onRecv", "afterRecv"})
    <3>1. /\ Step("onRecv", s).at = "onRecv" /\ Step("onRecv", s).session = s
          /\ Step("afterRecv", s).at = "afterRecv" /\ Step("afterRecv", s).session = s
          /\ "onRecv" # "afterRecv"
      BY StepIs
    <3> QED
      BY <1>1, <1>4, <3>1, Goes2, Zenon
  <2>2. {"onRecv", "afterRecv"} \cap UsesEvent["recv"] = {"afterRecv"}
    BY Uses
  <2>3. RecvSide(s)'
    BY <1>1, <2>1, <2>2, RecvGoesOn, Uses
  <2> QED
    BY <1>1, <1>2, <2>1, <2>3, RecvStep, Uses DEF Callbacks
<1> QED
  BY <1>3, <1>4 DEF ProcessRecv

LEMMA AfterRecvKeeps ==
    ASSUME NEW C, SessionState(C), SessionsOK, NEW t \in Threads, NEW s \in Sessions,
           AfterRecv(t, s)
    PROVE  SessionsOK'
<1>1. /\ RecvSide(s) /\ At(t, s, "afterRecv") /\ todo \in [Threads -> Seq(C)]
      /\ UNCHANGED <<connected, owner, op, refused, SendVars, UserVars>>
  BY Typed DEF SessionsOK, SessionOK, AfterRecv
<1>2. OwnEvent(s, "recv")
  BY <1>1, Idle
<1>3. CASE Then(t, <<Step("disconnect", s)>>)
  <2>1. Became(s, "afterRecv", {"disconnect"})
    BY <1>1, <1>3, Goes1, StepIs, Zenon
  <2>2. op'[s]["recv"] = "idle" /\ Ends(s)'
    BY <1>1, <2>1, Uses, WasThere, Goes DEF RecvSide, UsedOnce, Ends
  <2>3. RecvSide(s)'
    BY <1>1, <2>1, <2>2, RecvLeaves, Uses
  <2> QED
    BY <1>1, <1>2, <2>1, <2>3, RecvStep, Uses
<1>4. CASE Then(t, <<Step("registerRecv", s)>>)
  <2>1. Became(s, "afterRecv", {"registerRecv"})
    BY <1>1, <1>4, Goes1, StepIs, Zenon
  <2>2. {"registerRecv"} \cap UsesEvent["recv"] = {"registerRecv"}
    BY Uses
  <2>3. RecvSide(s)'
    BY <1>1, <2>1, <2>2, RecvGoesOn, Uses
  <2> QED
    BY <1>1, <1>2, <2>1, <2>3, RecvStep, Uses
<1> QED
  BY <1>3, <1>4 DEF AfterRecv
------------------------------------------------------------------------------
(* The steps of the send side *)

(* The only step on s that uses the send event is j, if j uses it; otherwise none does. *)
SendAt(s, j) ==
    /\ Some(s, UsesEvent["send"]) <=> j \in UsesEvent["send"]
    /\ Some(s, {"wsaSend"}) <=> j = "wsaSend"
    /\ Some(s, {"collect", "wsaSend"}) <=> j \in {"collect", "wsaSend"}
    /\ Some(s, {"registerSend", "collect"}) <=> j \in {"registerSend", "collect"}
    /\ Some(s, {"undoSend", "unregister"}) <=> j \in {"undoSend", "unregister"}
    /\ Some(s, {"wsaSend", "undoSend", "processSend"})
          <=> j \in {"wsaSend", "undoSend", "processSend"}

LEMMA SendAtAll ==
    ASSUME NEW s, NEW j, \A A \in SUBSET UsesEvent["send"] : Some(s, A) <=> j \in A
    PROVE  SendAt(s, j)
<1>1. /\ {"wsaSend"} \subseteq UsesEvent["send"]
      /\ {"collect", "wsaSend"} \subseteq UsesEvent["send"]
      /\ {"registerSend", "collect"} \subseteq UsesEvent["send"]
      /\ {"undoSend", "unregister"} \subseteq UsesEvent["send"]
      /\ {"wsaSend", "undoSend", "processSend"} \subseteq UsesEvent["send"]
  BY Uses
<1> QED
  BY <1>1 DEF SendAt

LEMMA SendAtAllNext ==
    ASSUME NEW s, NEW j, \A A \in SUBSET UsesEvent["send"] : Some(s, A)' <=> j \in A
    PROVE  SendAt(s, j)'
<1>1. /\ {"wsaSend"} \subseteq UsesEvent["send"]
      /\ {"collect", "wsaSend"} \subseteq UsesEvent["send"]
      /\ {"registerSend", "collect"} \subseteq UsesEvent["send"]
      /\ {"undoSend", "unregister"} \subseteq UsesEvent["send"]
      /\ {"wsaSend", "undoSend", "processSend"} \subseteq UsesEvent["send"]
  BY Uses
<1> QED
  BY <1>1 DEF SendAt

(* The user of the send event takes its step. *)
LEMMA SendUses ==
    ASSUME NEW s, SendSide(s), NEW l, NEW K, Became(s, l, K), l \in UsesEvent["send"]
    PROVE  SendAt(s, l) /\ op[s]["send"] = "idle" /\ s \in registered
<1>1. UsedOnce(s, "send") /\ Some(s, UsesEvent["send"]) /\ One(s, UsesEvent["send"])
  BY WasThere DEF SendSide, UsedOnce
<1>2. op[s]["send"] = "idle" /\ s \in registered
  BY <1>1 DEF UsedOnce, SendSide, Registered, SendInUse
<1>3. \A A \in SUBSET UsesEvent["send"] : Some(s, A) <=> l \in A
  BY <1>1, WasThere, SoleUser
<1> QED
  BY <1>2, <1>3, SendAtAll

LEMMA SendLeaves ==
    ASSUME NEW s, SendSide(s), NEW l, NEW K, Became(s, l, K), l \in UsesEvent["send"],
           K \cap UsesEvent["send"] = {},
           op'[s]["send"] # "idle" => "send" \in owner'[s]
    PROVE  UsedOnce(s, "send")' /\ SendAt(s, "nothing")'
<1>1. UsedOnce(s, "send") /\ \A i \in K : i \notin UsesEvent["send"]
  BY DEF SendSide
<1>2. UsedOnce(s, "send")' /\ \A A \in SUBSET UsesEvent["send"] : ~Some(s, A)'
  BY <1>1, UseBecomes
<1>3. \A A \in SUBSET UsesEvent["send"] : "nothing" \notin A
  BY Uses
<1> QED
  BY <1>2, <1>3, SendAtAllNext

LEMMA SendGoesOn ==
    ASSUME NEW s, SendSide(s), NEW l, NEW K, Became(s, l, K), l \in UsesEvent["send"],
           NEW j, K \cap UsesEvent["send"] = {j},
           op'[s]["send"] = op[s]["send"]
    PROVE  UsedOnce(s, "send")' /\ SendAt(s, j)' /\ op'[s]["send"] = "idle"
<1>1. UsedOnce(s, "send") /\ j \in K /\ j \in UsesEvent["send"]
  BY DEF SendSide
<1>2. \A i \in K : i \in UsesEvent["send"] => i = j
  OBVIOUS
<1>3. op[s]["send"] = "idle"
  BY <1>1, WasThere DEF UsedOnce
<1>4. /\ UsedOnce(s, "send")'
      /\ \A A \in SUBSET UsesEvent["send"] : Some(s, A)' <=> \E i \in K : i \in A
  BY <1>1, <1>2, <1>3, UseBecomes
<1>5. \A A \in SUBSET UsesEvent["send"] : Some(s, A)' <=> j \in A
  BY <1>1, <1>2, <1>4
<1> QED
  BY <1>3, <1>4, <1>5, SendAtAllNext

LEMMA RegisterSendKeeps ==
    ASSUME NEW C, SessionState(C), SessionsOK, NEW t \in Threads, NEW s \in Sessions,
           RegisterSend(t, s)
    PROVE  SessionsOK'
<1>1. /\ SendSide(s) /\ At(t, s, "registerSend")
      /\ todo \in [Threads -> Seq(C)] /\ owner \in [Sessions -> SUBSET Kinds]
      /\ UNCHANGED <<connected, op, refused, SendVars, UserVars>>
      /\ "registerSend" \in UsesEvent["send"]
  BY Typed, Uses DEF SessionsOK, SessionOK, RegisterSend
<1>2. CASE s \in connected
  <2>1. owner' = [owner EXCEPT ![s] = @ \cup {"send"}] /\ Then(t, <<Step("collect", s)>>)
    BY <1>2 DEF RegisterSend, Register
  <2>2. Became(s, "registerSend", {"collect"})
    BY <1>1, <2>1, Goes1, StepIs, Zenon
  <2>3. OwnEvent(s, "send") /\ "send" \in owner'[s]
    BY <1>1, <2>1 DEF OwnEvent
  <2>4. {"collect"} \cap UsesEvent["send"] = {"collect"}
    BY Uses
  <2>5. SendAt(s, "registerSend") /\ op[s]["send"] = "idle" /\ s \in registered
    BY <1>1, <2>2, SendUses
  <2>6. UsedOnce(s, "send")' /\ SendAt(s, "collect")'
    BY <1>1, <2>2, <2>4, SendGoesOn
  <2>7. SendSide(s)'
    BY <1>1, <2>3, <2>5, <2>6, Uses
       DEF SendSide, SendVars, SendAt, Filled, Ordered, Registered, Unstranded, SendInUse
  <2> QED
    BY <1>1, <2>2, <2>3, <2>7, SendStep, Uses DEF SendVars
<1>3. CASE s \notin connected
  <2>1. Return(t) /\ UNCHANGED owner
    BY <1>3 DEF RegisterSend, Register
  <2>2. Became(s, "registerSend", {})
    BY <1>1, <2>1, Returns
  <2>3. OwnEvent(s, "send") /\ Ends(s)'
    BY <1>1, <1>3, <2>1, Idle DEF Ends
  <2>4. SendAt(s, "registerSend") /\ op[s]["send"] = "idle" /\ s \in registered
    BY <1>1, <2>2, SendUses
  <2>5. UsedOnce(s, "send")' /\ SendAt(s, "nothing")'
    BY <1>1, <2>2, <2>4, SendLeaves
  <2>6. SendSide(s)'
    BY <1>1, <2>3, <2>4, <2>5, Uses
       DEF SendSide, SendVars, SendAt, Filled, Ordered, Registered, Unstranded, SendInUse
  <2> QED
    BY <1>1, <2>2, <2>3, <2>6, SendStep, Uses DEF SendVars
<1> QED
  BY <1>2, <1>3


LEMMA CollectKeeps ==
    ASSUME NEW C, SessionState(C), SessionsOK, NEW t \in Threads, NEW s \in Sessions, Collect(t, s)
    PROVE  SessionsOK'
<1>1. /\ SendSide(s) /\ At(t, s, "collect") /\ Then(t, <<Step("wsaSend", s)>>)
      /\ todo \in [Threads -> Seq(C)]
      /\ sendQueue \in [Sessions -> Seq(Buffers)] /\ sendBuffers \in [Sessions -> Seq(Buffers)]
      /\ handed \in [Sessions -> Seq(Buffers)]
      /\ sendBuffers' = [sendBuffers EXCEPT ![s] = @ \o sendQueue[s]]
      /\ sendQueue' = [sendQueue EXCEPT ![s] = <<>>]
      /\ UNCHANGED <<connected, registered, accepted, handed, owner, op, refused, UserVars>>
      /\ "collect" \in UsesEvent["send"] /\ "wsaSend" \in UsesEvent["send"]
  BY Typed, Uses DEF SessionsOK, SessionOK, Collect
<1>2. Became(s, "collect", {"wsaSend"})
  BY <1>1, Goes1, StepIs, Zenon
<1>3. {"wsaSend"} \cap UsesEvent["send"] = {"wsaSend"} /\ OwnEvent(s, "send")
  BY <1>1, Idle
<1>4. SendAt(s, "collect") /\ op[s]["send"] = "idle" /\ s \in registered
  BY <1>1, <1>2, SendUses
<1>5. UsedOnce(s, "send")' /\ SendAt(s, "wsaSend")' /\ op'[s]["send"] = "idle"
  BY <1>1, <1>2, <1>3, SendGoesOn
<1>6. /\ sendBuffers[s] = <<>> /\ sendQueue[s] # <<>> /\ "send" \in owner'[s]
      /\ accepted[s] = handed[s] \o <<>> \o sendQueue[s]
  BY <1>1, <1>4 DEF SendSide, SendAt, Filled, Ordered
<1>7. sendBuffers'[s] = sendQueue[s] /\ sendQueue'[s] = <<>>
  <2>1. /\ sendBuffers'[s] = <<>> \o sendQueue[s] /\ sendQueue'[s] = <<>>
        /\ sendQueue[s] \in Seq(Buffers)
    BY <1>1, <1>6
  <2> QED
    BY <2>1
<1>8. Ordered(s)'
  <2>1. accepted[s] = handed[s] \o sendQueue[s] \o <<>>
    <3>1. handed[s] \in Seq(Buffers) /\ sendQueue[s] \in Seq(Buffers)
      BY <1>1
    <3>2. \A a, b \in Seq(Buffers) : a \o <<>> \o b = a \o b \o <<>>
      OBVIOUS
    <3> QED
      BY <1>6, <3>1, <3>2, Zenon
  <2>2. Some(s, {"wsaSend"})'
    BY <1>5 DEF SendAt
  <2> QED
    BY <1>1, <1>7, <2>1, <2>2 DEF Ordered
<1>9. Filled(s)'
  BY <1>5, <1>6, <1>7 DEF SendAt, Filled
<1>10. Registered(s)' /\ Unstranded(s)'
  BY <1>1, <1>4, <1>5, <1>7 DEF SendAt, Registered, Unstranded, SendInUse
<1>11. SendSide(s)'
  BY <1>5, <1>6, <1>8, <1>9, <1>10 DEF SendSide
<1> QED
  BY <1>1, <1>2, <1>3, <1>11, SendStep

LEMMA WSASendKeeps ==
    ASSUME NEW C, SessionState(C), SessionsOK, NEW t \in Threads, NEW s \in Sessions, WSASend(t, s)
    PROVE  SessionsOK'
<1>1. /\ SendSide(s) /\ At(t, s, "wsaSend") /\ todo \in [Threads -> Seq(C)]
      /\ sendQueue \in [Sessions -> Seq(Buffers)] /\ sendBuffers \in [Sessions -> Seq(Buffers)]
      /\ handed \in [Sessions -> Seq(Buffers)]
      /\ op \in [Sessions -> [Kinds -> {"idle", "pending", "ok", "zero"}]]
      /\ handed' = [handed EXCEPT ![s] = @ \o sendBuffers[s]]
      /\ UNCHANGED <<connected, registered, sendQueue, sendBuffers, accepted, owner, UserVars>>
      /\ "wsaSend" \in UsesEvent["send"]
  BY Typed, Uses DEF SessionsOK, SessionOK, WSASend
<1>2. ASSUME ~Some(s, {"wsaSend"})', Some(s, {"wsaSend"}) PROVE Ordered(s)'
  <2>1. accepted[s] = handed[s] \o sendBuffers[s] \o sendQueue[s]
    BY <1>1, <1>2 DEF SendSide, Ordered
  <2>2. handed'[s] = handed[s] \o sendBuffers[s]
    BY <1>1
  <2>3. handed[s] \o sendBuffers[s] \in Seq(Buffers) /\ sendQueue[s] \in Seq(Buffers)
    BY <1>1
  <2>4. \A a, b \in Seq(Buffers) : a \o b = a \o <<>> \o b
    OBVIOUS
  <2>5. accepted[s] = handed'[s] \o <<>> \o sendQueue[s]
    BY <2>1, <2>2, <2>3, <2>4, Zenon
  <2> QED
    BY <1>1, <1>2, <2>5 DEF Ordered
<1>3. CASE op' = [op EXCEPT ![s]["send"] = "pending"] /\ Return(t) /\ UNCHANGED refused
  <2>1. Became(s, "wsaSend", {})
    BY <1>1, <1>3, Returns
  <2>2. op'[s]["send"] = "pending" /\ OwnEvent(s, "send")
    BY <1>1, <1>3 DEF OwnEvent, Kinds
  <2>3. SendAt(s, "wsaSend") /\ op[s]["send"] = "idle" /\ s \in registered
    BY <1>1, <2>1, SendUses
  <2>4. "send" \in owner'[s] /\ sendBuffers[s] # <<>>
    BY <1>1, <2>3 DEF SendAt, SendSide, Filled
  <2>5. UsedOnce(s, "send")' /\ SendAt(s, "nothing")'
    BY <1>1, <2>1, <2>4, SendLeaves
  <2>6. Ordered(s)'
    BY <1>2, <2>3, <2>5 DEF SendAt
  <2>7. SendSide(s)'
    BY <1>1, <1>3, <2>2, <2>3, <2>4, <2>5, <2>6, Uses
       DEF SendSide, SendAt, Filled, Registered, Unstranded, SendInUse
  <2> QED
    BY <1>1, <1>3, <2>1, <2>2, <2>7, SendStep, Uses
<1>4. ASSUME NEW K, Became(s, "wsaSend", K), K \cap UsesEvent["send"] = {"undoSend"},
             K \subseteq {"undoSend", "disconnect"},
             UNCHANGED op, refused \subseteq refused', Ends(s)' \/ <<s, "send">> \in refused'
      PROVE  SessionsOK'
  <2>1. SendAt(s, "wsaSend") /\ op[s]["send"] = "idle" /\ s \in registered
    BY <1>1, <1>4, SendUses
  <2>2. UsedOnce(s, "send")' /\ SendAt(s, "undoSend")' /\ op'[s]["send"] = "idle"
    BY <1>1, <1>4, SendGoesOn
  <2>3. Ordered(s)'
    BY <1>2, <2>1, <2>2 DEF SendAt
  <2>4. SendSide(s)'
    BY <1>1, <1>4, <2>1, <2>2, <2>3, Uses
       DEF SendSide, SendAt, Filled, Registered, Unstranded, SendInUse
  <2> QED
    BY <1>1, <1>4, <2>4, SendStep, Idle, Uses
<1>5. CASE Then(t, <<Step("disconnect", s), Step("undoSend", s)>>) /\ UNCHANGED <<op, refused>>
  <2>1. Became(s, "wsaSend", {"disconnect", "undoSend"})
    <3>1. /\ Step("disconnect", s).at = "disconnect" /\ Step("disconnect", s).session = s
          /\ Step("undoSend", s).at = "undoSend" /\ Step("undoSend", s).session = s
          /\ "disconnect" # "undoSend"
      BY StepIs
    <3> QED
      BY <1>1, <1>5, <3>1, Goes2, Zenon
  <2>2. Some(s, {"disconnect"})'
    BY <2>1, Goes
  <2>3. {"disconnect", "undoSend"} \cap UsesEvent["send"] = {"undoSend"}
    BY Uses
  <2> QED
    BY <1>4, <1>5, <2>1, <2>2, <2>3 DEF Ends
<1>6. CASE /\ Then(t, <<Step("undoSend", s)>>)
           /\ refused' = refused \cup {<<s, "send">>} /\ UNCHANGED op
  <2>1. Became(s, "wsaSend", {"undoSend"})
    BY <1>1, <1>6, Goes1, StepIs, Zenon
  <2>2. {"undoSend"} \cap UsesEvent["send"] = {"undoSend"}
    BY Uses
  <2> QED
    BY <1>4, <1>6, <2>1, <2>2
<1> QED
  BY <1>3, <1>5, <1>6 DEF WSASend, Issue

LEMMA UndoSendKeeps ==
    ASSUME NEW C, SessionState(C), SessionsOK, NEW t \in Threads, NEW s \in Sessions, UndoSend(t, s)
    PROVE  SessionsOK'
<1>1. /\ SendSide(s) /\ At(t, s, "undoSend") /\ Then(t, <<Step("unregister", s)>>)
      /\ todo \in [Threads -> Seq(C)] /\ owner \in [Sessions -> SUBSET Kinds]
      /\ sendBuffers \in [Sessions -> Seq(Buffers)]
      /\ owner' = [owner EXCEPT ![s] = @ \ {"send"}]
      /\ sendBuffers' = [sendBuffers EXCEPT ![s] = <<>>]
      /\ UNCHANGED <<connected, registered, sendQueue, accepted, handed, op, refused, UserVars>>
      /\ "undoSend" \in UsesEvent["send"]
  BY Typed, Uses DEF SessionsOK, SessionOK, UndoSend, ClearBuffers, Release
<1>2. Became(s, "undoSend", {"unregister"})
  BY <1>1, Goes1, StepIs, Zenon
<1>3. {"unregister"} \cap UsesEvent["send"] = {"unregister"} /\ OwnEvent(s, "send")
  BY <1>1, Uses DEF OwnEvent
<1>4. SendAt(s, "undoSend") /\ op[s]["send"] = "idle" /\ s \in registered
  BY <1>1, <1>2, SendUses
<1>5. UsedOnce(s, "send")' /\ SendAt(s, "unregister")' /\ op'[s]["send"] = "idle"
  BY <1>1, <1>2, <1>3, SendGoesOn
<1>6. Ends(s) => Ends(s)'
  BY <1>1, <1>2, EndsStays
<1>7. SendSide(s)'
  BY <1>1, <1>4, <1>5, <1>6, Uses
     DEF SendSide, SendAt, Filled, Ordered, Registered, Unstranded, SendInUse
<1> QED
  BY <1>1, <1>2, <1>3, <1>7, SendStep, Uses

LEMMA UnregisterKeeps ==
    ASSUME NEW C, SessionState(C), SessionsOK, NEW t \in Threads, NEW s \in Sessions,
           Unregister(t, s)
    PROVE  SessionsOK'
<1>1. /\ SendSide(s) /\ At(t, s, "unregister") /\ Return(t)
      /\ todo \in [Threads -> Seq(C)]
      /\ registered' = registered \ {s}
      /\ UNCHANGED <<connected, sendQueue, sendBuffers, accepted, handed, owner, op, refused,
                     UserVars>>
      /\ "unregister" \in UsesEvent["send"]
  BY Typed, Uses DEF SessionsOK, SessionOK, Unregister
<1>2. Became(s, "unregister", {}) /\ OwnEvent(s, "send")
  BY <1>1, Returns, Idle
<1>3. SendAt(s, "unregister") /\ op[s]["send"] = "idle" /\ s \in registered
  BY <1>1, <1>2, SendUses
<1>4. UsedOnce(s, "send")' /\ SendAt(s, "nothing")'
  BY <1>1, <1>2, <1>3, SendLeaves
<1>5. Ends(s) => Ends(s)'
  BY <1>1, <1>2, EndsStays
<1>6. SendSide(s)'
  BY <1>1, <1>3, <1>4, <1>5, Uses
     DEF SendSide, SendAt, Filled, Ordered, Registered, Unstranded, SendInUse
<1> QED
  BY <1>1, <1>2, <1>6, SendStep, Uses


LEMMA ProcessSendKeeps ==
    ASSUME NEW C, SessionState(C), SessionsOK, NEW t \in Threads, NEW s \in Sessions,
           ProcessSend(t, s)
    PROVE  SessionsOK'
<1>1. /\ SendSide(s) /\ At(t, s, "processSend")
      /\ todo \in [Threads -> Seq(C)] /\ owner \in [Sessions -> SUBSET Kinds]
      /\ sendBuffers \in [Sessions -> Seq(Buffers)]
      /\ owner' = [owner EXCEPT ![s] = @ \ {"send"}]
      /\ sendBuffers' = [sendBuffers EXCEPT ![s] = <<>>]
      /\ UNCHANGED <<connected, registered, sendQueue, accepted, handed, op, refused, UserVars>>
      /\ "processSend" \in UsesEvent["send"]
  BY Typed, Uses DEF SessionsOK, SessionOK, ProcessSend, ClearBuffers, Release
<1>2. OwnEvent(s, "send")
  BY <1>1 DEF OwnEvent
<1>3. CASE Then(t, <<Step("disconnect", s)>>)
  <2>1. Became(s, "processSend", {"disconnect"})
    BY <1>1, <1>3, Goes1, StepIs, Zenon
  <2>2. SendAt(s, "processSend") /\ op[s]["send"] = "idle" /\ s \in registered
    BY <1>1, <2>1, SendUses
  <2>3. Some(s, {"disconnect"})' /\ {"disconnect"} \cap UsesEvent["send"] = {}
    BY <2>1, Goes, Uses
  <2>4. UsedOnce(s, "send")' /\ SendAt(s, "nothing")'
    BY <1>1, <2>1, <2>2, <2>3, SendLeaves
  <2>5. SendSide(s)'
    BY <1>1, <2>2, <2>3, <2>4, Uses
       DEF SendSide, SendAt, Filled, Ordered, Registered, Unstranded, SendInUse, Ends
  <2> QED
    BY <1>1, <1>2, <2>1, <2>5, SendStep, Uses
<1>4. CASE Then(t, <<Step("onSend", s), Step("resume", s)>>)
  <2>1. Became(s, "processSend", {"onSend", "resume"})
    <3>1. /\ Step("onSend", s).at = "onSend" /\ Step("onSend", s).session = s
          /\ Step("resume", s).at = "resume" /\ Step("resume", s).session = s
          /\ "onSend" # "resume"
      BY StepIs
    <3> QED
      BY <1>1, <1>4, <3>1, Goes2, Zenon
  <2>2. SendAt(s, "processSend") /\ op[s]["send"] = "idle" /\ s \in registered
    BY <1>1, <2>1, SendUses
  <2>3. {"onSend", "resume"} \cap UsesEvent["send"] = {"resume"}
    BY Uses
  <2>4. UsedOnce(s, "send")' /\ SendAt(s, "resume")' /\ op'[s]["send"] = "idle"
    BY <1>1, <2>1, <2>3, SendGoesOn
  <2>5. SendSide(s)'
    BY <1>1, <2>2, <2>4, Uses
       DEF SendSide, SendAt, Filled, Ordered, Registered, Unstranded, SendInUse
  <2> QED
    BY <1>1, <1>2, <2>1, <2>5, SendStep, Uses DEF Callbacks
<1> QED
  BY <1>3, <1>4 DEF ProcessSend

LEMMA ResumeKeeps ==
    ASSUME NEW C, SessionState(C), SessionsOK, NEW t \in Threads, NEW s \in Sessions, Resume(t, s)
    PROVE  SessionsOK'
<1>1. /\ SendSide(s) /\ At(t, s, "resume") /\ todo \in [Threads -> Seq(C)]
      /\ UNCHANGED <<connected, sendQueue, sendBuffers, accepted, handed, owner, op, refused,
                     UserVars>>
      /\ "resume" \in UsesEvent["send"]
  BY Typed, Uses DEF SessionsOK, SessionOK, Resume
<1>2. OwnEvent(s, "send")
  BY <1>1, Idle
<1>3. CASE sendQueue[s] = <<>>
  <2>1. registered' = registered \ {s} /\ Return(t)
    BY <1>3 DEF Resume
  <2>2. Became(s, "resume", {})
    BY <1>1, <2>1, Returns
  <2>3. SendAt(s, "resume") /\ op[s]["send"] = "idle"
    BY <1>1, <2>2, SendUses
  <2>4. UsedOnce(s, "send")' /\ SendAt(s, "nothing")'
    BY <1>1, <2>2, <2>3, SendLeaves
  <2>5. SendSide(s)'
    BY <1>1, <1>3, <2>1, <2>3, <2>4, Uses
       DEF SendSide, SendAt, Filled, Ordered, Registered, Unstranded, SendInUse
  <2> QED
    BY <1>1, <1>2, <2>1, <2>2, <2>5, SendStep, Uses
<1>4. CASE sendQueue[s] # <<>>
  <2>1. Then(t, <<Step("registerSend", s), Step("unlock", s)>>) /\ UNCHANGED registered
    BY <1>4 DEF Resume
  <2>2. Became(s, "resume", {"registerSend", "unlock"})
    <3>1. /\ Step("registerSend", s).at = "registerSend" /\ Step("registerSend", s).session = s
          /\ Step("unlock", s).at = "unlock" /\ Step("unlock", s).session = s
          /\ "registerSend" # "unlock"
      BY StepIs
    <3> QED
      BY <1>1, <2>1, <3>1, Goes2, Zenon
  <2>3. SendAt(s, "resume") /\ op[s]["send"] = "idle" /\ s \in registered
    BY <1>1, <2>2, SendUses
  <2>4. {"registerSend", "unlock"} \cap UsesEvent["send"] = {"registerSend"}
    BY Uses
  <2>5. UsedOnce(s, "send")' /\ SendAt(s, "registerSend")' /\ op'[s]["send"] = "idle"
    BY <1>1, <2>2, <2>4, SendGoesOn
  <2>6. SendSide(s)'
    BY <1>1, <1>4, <2>1, <2>3, <2>5, Uses
       DEF SendSide, SendAt, Filled, Ordered, Registered, Unstranded, SendInUse
  <2> QED
    BY <1>1, <1>2, <2>1, <2>2, <2>6, SendStep, Uses
<1> QED
  BY <1>3, <1>4

LEMMA Appended ==
    ASSUME NEW S, NEW b \in S, NEW a \in Seq(S), NEW d \in Seq(S)
    PROVE  Append(d, b) # <<>> /\ Append(a \o d, b) = a \o Append(d, b)
<1>1. Append(d, b) # <<>>
  BY AppendProperties
<1>2. Append(a \o d, b) = a \o Append(d, b)
  OBVIOUS
<1> QED
  BY <1>1, <1>2

LEMMA PushKeeps ==
    ASSUME NEW C, SessionState(C), SessionsOK, NEW t \in Threads, NEW s \in Sessions, Push(t, s),
           Arg(t) \in Buffers
    PROVE  SessionsOK'
<1>1. /\ SendSide(s) /\ At(t, s, "push") /\ todo \in [Threads -> Seq(C)]
      /\ sendQueue \in [Sessions -> Seq(Buffers)] /\ sendBuffers \in [Sessions -> Seq(Buffers)]
      /\ handed \in [Sessions -> Seq(Buffers)] /\ accepted \in [Sessions -> Seq(Buffers)]
      /\ sendQueue' = [sendQueue EXCEPT ![s] = Append(@, Arg(t))]
      /\ accepted' = [accepted EXCEPT ![s] = Append(@, Arg(t))]
      /\ registered' = registered \cup {s}
      /\ UNCHANGED <<connected, sendBuffers, handed, owner, op, refused, UserVars>>
      /\ "push" \notin UsesEvent["send"]
  BY Typed, Uses DEF SessionsOK, SessionOK, Push
<1>2. OwnEvent(s, "send")
  BY <1>1, Idle
<1>3. sendQueue'[s] # <<>> /\ s \in registered'
  <2>1. sendQueue[s] \in Seq(Buffers) /\ sendQueue'[s] = Append(sendQueue[s], Arg(t))
    BY <1>1
  <2> QED
    BY <1>1, <2>1, Appended
<1>4. ASSUME Some(s, {"wsaSend"})' <=> Some(s, {"wsaSend"}) PROVE Ordered(s)'
  <2> DEFINE h == handed[s]  q == sendQueue[s]
             e == IF Some(s, {"wsaSend"}) THEN sendBuffers[s] ELSE <<>>
  <2>1. accepted[s] = h \o e \o q
    BY <1>1 DEF SendSide, Ordered
  <2>2. h \in Seq(Buffers) /\ q \in Seq(Buffers) /\ e \in Seq(Buffers)
    BY <1>1
  <2>3. h \o e \in Seq(Buffers) /\ Arg(t) \in Buffers
    BY <2>2
  <2>4. accepted'[s] = Append(h \o e \o q, Arg(t)) /\ sendQueue'[s] = Append(q, Arg(t))
    BY <1>1, <2>1
  <2> HIDE DEF h, q, e
  <2>5. Append((h \o e) \o q, Arg(t)) = (h \o e) \o Append(q, Arg(t))
    BY <2>2, <2>3, Appended
  <2>6. accepted'[s] = h \o e \o sendQueue'[s]
    BY <2>4, <2>5
  <2> QED
    BY <1>1, <1>4, <2>6 DEF Ordered, h, q, e
<1>5. CASE s \in registered
  <2>1. Return(t)
    BY <1>5 DEF Push, Return
  <2>2. Became(s, "push", {})
    BY <1>1, <2>1, Returns
  <2>3. Users(s, "send")' = Users(s, "send")
    BY <1>1, <2>2, Aside
  <2>4. \A A : A \subseteq UsesEvent["send"] => (Some(s, A)' <=> Some(s, A))
    BY <2>3, UsersStay
  <2>5. One(s, UsesEvent["send"])' <=> One(s, UsesEvent["send"])
    BY <2>3, UsersStay
  <2>6. Ends(s) => Ends(s)'
    BY <1>1, <2>2, EndsStays
  <2>7. /\ {"collect", "wsaSend"} \subseteq UsesEvent["send"]
        /\ {"registerSend", "collect"} \subseteq UsesEvent["send"]
        /\ {"wsaSend", "undoSend", "processSend"} \subseteq UsesEvent["send"]
        /\ {"undoSend", "unregister"} \subseteq UsesEvent["send"]
        /\ {"wsaSend"} \subseteq UsesEvent["send"]
    BY Uses
  <2>8. Ordered(s)'
    BY <1>4, <2>4, <2>7
  <2>9. SendSide(s)'
    BY <1>1, <1>3, <1>5, <2>4, <2>5, <2>6, <2>7, <2>8
       DEF SendSide, UsedOnce, Filled, Registered, Unstranded, SendInUse
  <2> QED
    BY <1>1, <1>2, <2>2, <2>9, SendStep
<1>6. CASE s \notin registered
  <2>1. Then(t, <<Step("registerSend", s)>>)
    BY <1>6 DEF Push
  <2>2. Became(s, "push", {"registerSend"})
    BY <1>1, <2>1, Goes1, StepIs, Zenon
  <2>3. op[s]["send"] = "idle" /\ ~Some(s, UsesEvent["send"]) /\ One(s, UsesEvent["send"])
    BY <1>1, <1>6 DEF SendSide, Registered, SendInUse, UsedOnce
  <2>4. One(s, UsesEvent["send"])'
    BY <2>2, <2>3, UserGoesOn
  <2>5. \A A \in SUBSET UsesEvent["send"] : ~Some(s, A)
    BY <2>3, Wider
  <2>6. \A A \in SUBSET UsesEvent["send"] : Some(s, A)' <=> "registerSend" \in A
    BY <2>2, <2>5, Goes
  <2>7. SendAt(s, "registerSend")'
    BY <2>6, SendAtAllNext
  <2>8. SendAt(s, "nothing")
    BY <2>5, SendAtAll, Uses
  <2>9. SendSide(s)'
    BY <1>1, <1>3, <1>4, <2>3, <2>4, <2>7, <2>8, Uses
       DEF SendSide, UsedOnce, SendAt, Filled, Registered, Unstranded, SendInUse
  <2> QED
    BY <1>1, <1>2, <2>2, <2>9, SendStep, Uses
<1> QED
  BY <1>5, <1>6

------------------------------------------------------------------------------
(* The steps of a disconnect *)

(* The user of the disconnect event leaves it. *)
LEMMA EndLeaves ==
    ASSUME NEW s, EndSide(s), NEW l, NEW K, Became(s, l, K), l \in UsesEvent["disconnect"],
           K \cap UsesEvent["disconnect"] = {}, connected' = connected,
           op'[s]["disconnect"] # "idle" => "disconnect" \in owner'[s]
    PROVE  EndSide(s)'
<1>1. UsedOnce(s, "disconnect") /\ \A i \in K : i \notin UsesEvent["disconnect"]
  BY DEF EndSide
<1>2. UsedOnce(s, "disconnect")'
  BY <1>1, UseBecomes
<1>3. s \notin connected'
  BY WasThere DEF EndSide
<1> QED
  BY <1>2, <1>3 DEF EndSide

LEMMA DisconnectKeeps ==
    ASSUME NEW C, SessionState(C), SessionsOK, NEW t \in Threads, NEW s \in Sessions,
           Disconnect(t, s)
    PROVE  SessionsOK'
<1>1. /\ EndSide(s) /\ At(t, s, "disconnect") /\ todo \in [Threads -> Seq(C)]
      /\ connected' = connected \ {s}
      /\ UNCHANGED <<owner, op, refused, SendVars, UserVars>>
      /\ "disconnect" \notin UsesEvent["disconnect"]
  BY Typed, Uses DEF SessionsOK, SessionOK, Disconnect
<1>2. OwnEvent(s, "disconnect")
  BY <1>1, Idle
<1>3. CASE s \in connected
  <2>1. Then(t, <<Step("registerDisconnect", s)>>)
    BY <1>3 DEF Disconnect
  <2>2. Became(s, "disconnect", {"registerDisconnect"})
    BY <1>1, <2>1, Goes1, StepIs, Zenon
  <2>3. /\ op[s]["disconnect"] = "idle" /\ ~Some(s, UsesEvent["disconnect"])
        /\ One(s, UsesEvent["disconnect"])
    BY <1>1, <1>3 DEF EndSide, UsedOnce
  <2>4. One(s, UsesEvent["disconnect"])'
    BY <2>2, <2>3, UserGoesOn
  <2>5. EndSide(s)'
    BY <1>1, <2>3, <2>4 DEF EndSide, UsedOnce
  <2> QED
    BY <1>1, <1>2, <2>2, <2>5, EndStep, Uses
<1>4. CASE s \notin connected
  <2>1. Return(t)
    BY <1>4 DEF Disconnect, Return
  <2>2. Became(s, "disconnect", {})
    BY <1>1, <2>1, Returns
  <2>3. Users(s, "disconnect")' = Users(s, "disconnect")
    BY <1>1, <2>2, Aside
  <2>4. EndSide(s)'
    BY <1>1, <2>3, EndSideStays
  <2> QED
    BY <1>1, <1>2, <2>2, <2>4, EndStep, Uses
<1> QED
  BY <1>3, <1>4

LEMMA RegisterDisconnectKeeps ==
    ASSUME NEW C, SessionState(C), SessionsOK, NEW t \in Threads, NEW s \in Sessions,
           RegisterDisconnect(t, s)
    PROVE  SessionsOK'
<1>1. /\ EndSide(s) /\ At(t, s, "registerDisconnect") /\ Return(t)
      /\ todo \in [Threads -> Seq(C)] /\ owner \in [Sessions -> SUBSET Kinds]
      /\ op \in [Sessions -> [Kinds -> {"idle", "pending", "ok", "zero"}]]
      /\ UNCHANGED <<connected, SendVars, UserVars>> /\ refused \subseteq refused'
      /\ "registerDisconnect" \in UsesEvent["disconnect"]
  BY Typed, Uses DEF SessionsOK, SessionOK, RegisterDisconnect
<1>2. Became(s, "registerDisconnect", {})
  BY <1>1, Returns
<1>3. op[s]["disconnect"] = "idle"
  BY <1>1, <1>2, WasThere DEF EndSide, UsedOnce
<1>4. OwnEvent(s, "disconnect") /\ (op'[s]["disconnect"] # "idle" => "disconnect" \in owner'[s])
  <2>1. CASE /\ owner' = [owner EXCEPT ![s] = @ \cup {"disconnect"}]
             /\ op' = [op EXCEPT ![s]["disconnect"] = "pending"]
    BY <1>1, <2>1 DEF OwnEvent, Kinds
  <2>2. CASE UNCHANGED <<owner, op>>
    BY <1>3, <2>2, Idle
  <2> QED
    BY <2>1, <2>2 DEF RegisterDisconnect
<1>5. EndSide(s)'
  BY <1>1, <1>2, <1>4, EndLeaves
<1> QED
  BY <1>1, <1>2, <1>4, <1>5, EndStep, Uses

LEMMA ProcessDisconnectKeeps ==
    ASSUME NEW C, SessionState(C), SessionsOK, NEW t \in Threads, NEW s \in Sessions,
           ProcessDisconnect(t, s)
    PROVE  SessionsOK'
<1>1. /\ EndSide(s) /\ At(t, s, "processDisconnect")
      /\ Then(t, <<Step("onDisconnected", s), Step("releaseSession", s)>>)
      /\ owner' = [owner EXCEPT ![s] = @ \ {"disconnect"}]
      /\ todo \in [Threads -> Seq(C)] /\ owner \in [Sessions -> SUBSET Kinds]
      /\ UNCHANGED <<connected, op, refused, SendVars, UserVars>>
      /\ "processDisconnect" \in UsesEvent["disconnect"]
  BY Typed, Uses DEF SessionsOK, SessionOK, ProcessDisconnect, Release
<1>2. Became(s, "processDisconnect", {"onDisconnected", "releaseSession"})
  <2>1. /\ Step("onDisconnected", s).at = "onDisconnected"
        /\ Step("onDisconnected", s).session = s
        /\ Step("releaseSession", s).at = "releaseSession"
        /\ Step("releaseSession", s).session = s
        /\ "onDisconnected" # "releaseSession"
    BY StepIs
  <2> QED
    BY <1>1, <2>1, Goes2, Zenon
<1>3. OwnEvent(s, "disconnect")
  BY <1>1 DEF OwnEvent
<1>4. UsedOnce(s, "disconnect")'
  <2>1. \A i, j \in {"onDisconnected", "releaseSession"} :
           i \in UsesEvent["disconnect"] /\ j \in UsesEvent["disconnect"] => i = j
    BY Uses
  <2>2. UsedOnce(s, "disconnect") /\ op'[s]["disconnect"] = "idle"
    BY <1>1, <1>2, WasThere DEF EndSide, UsedOnce
  <2> QED
    BY <1>1, <1>2, <2>1, <2>2, UseBecomes
<1>5. EndSide(s)'
  BY <1>1, <1>2, <1>4, WasThere DEF EndSide
<1> QED
  BY <1>1, <1>2, <1>3, <1>5, EndStep, Uses DEF Callbacks

LEMMA ReleaseSessionKeeps ==
    ASSUME NEW C, SessionState(C), SessionsOK, NEW t \in Threads, NEW s \in Sessions,
           ReleaseSession(t, s)
    PROVE  SessionsOK'
<1>1. /\ EndSide(s) /\ At(t, s, "releaseSession") /\ Return(t) /\ todo \in [Threads -> Seq(C)]
      /\ UNCHANGED <<connected, owner, op, refused, SendVars, UserVars>>
      /\ "releaseSession" \in UsesEvent["disconnect"]
  BY Typed, Uses DEF SessionsOK, SessionOK, ReleaseSession
<1>2. Became(s, "releaseSession", {}) /\ OwnEvent(s, "disconnect")
  BY <1>1, Returns, Idle
<1>3. op'[s]["disconnect"] = "idle"
  BY <1>1, <1>2, WasThere DEF EndSide, UsedOnce
<1>4. EndSide(s)'
  BY <1>1, <1>2, <1>3, EndLeaves
<1> QED
  BY <1>1, <1>2, <1>4, EndStep, Uses

------------------------------------------------------------------------------
(* The steps that use no event *)

LEMMA AddSessionKeeps ==
    ASSUME NEW C, SessionState(C), SessionsOK, NEW t \in Threads, NEW s \in Sessions,
           AddSession(t, s)
    PROVE  SessionsOK'
<1>1. /\ At(t, s, "addSession") /\ Return(t) /\ todo \in [Threads -> Seq(C)]
      /\ known' = known \cup {s}
      /\ UNCHANGED <<connected, owner, op, fresh, unsent, refused, SendVars>>
  BY Typed DEF AddSession
<1>2. Became(s, "addSession", {})
  BY <1>1, Returns
<1> QED
  BY <1>1, <1>2, OtherStep, Uses DEF SendVars

LEMMA SendKeeps ==
    ASSUME NEW C, SessionState(C), SessionsOK, NEW t \in Threads, NEW s \in Sessions, Send(t, s)
    PROVE  SessionsOK'
<1>1. /\ At(t, s, "send") /\ todo \in [Threads -> Seq(C)]
      /\ UNCHANGED <<connected, owner, op, refused, SendVars, UserVars>>
  BY Typed DEF Send
<1>2. CASE Return(t)
  <2>1. Became(s, "send", {})
    BY <1>1, <1>2, Returns
  <2> QED
    BY <1>1, <2>1, OtherStep, Uses DEF SendVars, UserVars
<1>3. CASE Then(t, <<With("push", s, Arg(t))>>)
  <2>1. Became(s, "send", {"push"})
    <3>1. With("push", s, Arg(t)).at = "push" /\ With("push", s, Arg(t)).session = s
      BY StepIs
    <3> QED
      BY <1>1, <1>3, <3>1, Goes1, Zenon
  <2> QED
    BY <1>1, <2>1, OtherStep, Uses DEF SendVars, UserVars
<1> QED
  BY <1>2, <1>3 DEF Send, Return

LEMMA UnlockKeeps ==
    ASSUME NEW C, SessionState(C), SessionsOK, NEW t \in Threads, NEW s \in Sessions, Unlock(t, s)
    PROVE  SessionsOK'
<1>1. /\ At(t, s, "unlock") /\ Return(t) /\ todo \in [Threads -> Seq(C)]
      /\ UNCHANGED <<connected, registered, sendQueue, sendBuffers, accepted, handed, owner, op,
                     refused, UserVars>>
  BY Typed DEF Unlock
<1>2. Became(s, "unlock", {})
  BY <1>1, Returns
<1> QED
  BY <1>1, <1>2, OtherStep, Uses DEF UserVars

LEMMA CallbackReturnsKeeps ==
    ASSUME NEW C, SessionState(C), SessionsOK, NEW t \in Threads, CallbackReturns(t)
    PROVE  SessionsOK'
<1> DEFINE s == todo[t][1].session  l == todo[t][1].at
<1>1. /\ At(t, s, l) /\ l \in Callbacks /\ Return(t) /\ todo \in [Threads -> Seq(C)]
      /\ UNCHANGED <<connected, owner, op, refused, SendVars, UserVars>>
  BY Typed DEF CallbackReturns, At
<1> HIDE DEF s, l
<1>2. Became(s, l, {})
  BY <1>1, Returns
<1>3. \A k \in {"recv", "send", "disconnect"} : \A j \in {} \cup {l} : j \notin UsesEvent[k]
  BY <1>1, Uses DEF Callbacks
<1> QED
  BY <1>1, <1>2, <1>3, OtherStep DEF SendVars, UserVars, Callbacks

------------------------------------------------------------------------------
(* The steps that start a call or an operation, and the connect *)

LEMMA SameFrames ==
    ASSUME UNCHANGED todo, NEW r
    PROVE  Mine(r)' = Mine(r)
BY DEF Mine, On, Frames

LEMMA SameSides ==
    ASSUME NEW s \in Sessions, SessionOK(s), Mine(s)' = Mine(s),
           \A k \in Kinds : /\ op'[s][k] = "idle" <=> op[s][k] = "idle"
                            /\ k \in owner[s] => k \in owner'[s],
           UNCHANGED <<connected, refused, SendVars>>
    PROVE  RecvSide(s)' /\ SendSide(s)' /\ EndSide(s)'
<1>1. \A k : Users(s, k)' = Users(s, k)
  BY DEF Users
<1>2. Ends(s)' <=> Ends(s)
  BY DEF Ends, Some
<1>3. RecvSide(s)'
  BY <1>1, <1>2, RecvSideStays DEF SessionOK, Kinds
<1>4. SendSide(s)'
  BY <1>1, <1>2, SendSideStays DEF SessionOK, Kinds, SendVars
<1>5. EndSide(s)'
  BY <1>1, EndSideStays DEF SessionOK, Kinds
<1> QED
  BY <1>3, <1>4, <1>5

LEMMA ConnectKeeps ==
    ASSUME NEW C, SessionState(C), SessionsOK, NEW t \in Threads, NEW s \in Sessions, Connect(t, s)
    PROVE  SessionsOK'
<1>1. /\ SessionOK(s) /\ s \in fresh
      /\ owner \in [Sessions -> SUBSET Kinds]
      /\ op \in [Sessions -> [Kinds -> {"idle", "pending", "ok", "zero"}]]
      /\ UNCHANGED <<connected, todo, known, unsent, refused, SendVars>>
  BY Typed DEF SessionsOK, Connect
<1>2. \A r : Mine(r)' = Mine(r)
  BY <1>1, SameFrames
<1>3. CASE /\ fresh' = fresh \ {s}
           /\ owner' = [owner EXCEPT ![s] = @ \cup {"connect"}]
           /\ op' = [op EXCEPT ![s]["connect"] = "pending"]
  <2>1. OnlyFor(s)
    BY <1>1, <1>2, <1>3 DEF OnlyFor, SendVars
  <2>2. /\ op'[s]["connect"] = "pending" /\ "connect" \in owner'[s]
        /\ \A k \in Kinds \ {"connect"} :
              op'[s][k] = op[s][k] /\ (k \in owner[s] => k \in owner'[s])
    BY <1>1, <1>3 DEF Kinds
  <2>3. Begins(s)'
    BY <1>1, <1>2, <1>3, <2>2 DEF SessionOK, Begins, Young, SendVars, Kinds
  <2>4. \A k : Users(s, k)' = Users(s, k)
    BY <1>2 DEF Users
  <2>5. Ends(s)' <=> Ends(s)
    BY <1>1, <1>2 DEF Ends, Some
  <2>6. RecvSide(s)'
    BY <1>1, <2>2, <2>4, <2>5, RecvSideStays DEF SessionOK, Kinds
  <2>7. SendSide(s)'
    BY <1>1, <2>2, <2>4, <2>5, SendSideStays DEF SessionOK, Kinds, SendVars
  <2>8. EndSide(s)'
    BY <1>1, <2>2, <2>4, EndSideStays DEF SessionOK, Kinds
  <2> QED
    BY <2>1, <2>3, <2>6, <2>7, <2>8, Others DEF SessionOK
<1>4. CASE fresh' = {} /\ UNCHANGED <<owner, op>>
  <2> SUFFICES ASSUME NEW r \in Sessions PROVE SessionOK(r)'
    BY DEF SessionsOK
  <2>1. SessionOK(r)
    BY DEF SessionsOK
  <2>2. \A A : Some(r, A)' <=> Some(r, A)
    BY <1>2 DEF Some
  <2>3. Begins(r)'
    BY <1>1, <1>2, <1>4, <2>1, <2>2 DEF SessionOK, Begins, Young, SendVars
  <2> QED
    BY <1>1, <1>2, <1>4, <2>1, <2>3, SameSides DEF SessionOK
<1> QED
  BY <1>3, <1>4 DEF Connect

LEMMA CompleteKeeps ==
    ASSUME NEW C, SessionState(C), SessionsOK, NEW s \in Sessions, NEW k \in Kinds, Complete(s, k)
    PROVE  SessionsOK'
<1>1. /\ SessionOK(s) /\ op[s][k] = "pending"
      /\ op \in [Sessions -> [Kinds -> {"idle", "pending", "ok", "zero"}]]
      /\ \E x \in {"ok", "zero"} : op' = [op EXCEPT ![s][k] = x]
      /\ UNCHANGED <<connected, owner, todo, refused, SendVars, UserVars>>
  BY Typed DEF SessionsOK, Complete
<1>2. \A r : Mine(r)' = Mine(r)
  BY <1>1, SameFrames
<1>3. \A j \in Kinds : op'[s][j] = "idle" <=> op[s][j] = "idle"
  BY <1>1
<1>4. OnlyFor(s)
  BY <1>1, <1>2 DEF OnlyFor, SendVars, UserVars
<1>5. \A A : Some(s, A)' <=> Some(s, A)
  BY <1>2 DEF Some
<1>6. Young(s)' <=> Young(s)
  BY <1>1, <1>3, <1>5 DEF Young, UserVars, Kinds
<1>7. Begins(s)'
  BY <1>1, <1>2, <1>3, <1>6 DEF SessionOK, Begins, SendVars, UserVars, Kinds
<1>8. RecvSide(s)' /\ SendSide(s)' /\ EndSide(s)'
  BY <1>1, <1>2, <1>3, SameSides
<1> QED
  BY <1>4, <1>7, <1>8, Others DEF SessionOK

(* User code calls Send or Disconnect of sessions that it can reach. *)
LEMMA UserCallsKeep ==
    ASSUME SessionsOK, NEW S, S \subseteq known, NEW l \in {"send", "disconnect"},
           \A r \in Sessions :
              Mine(r) \subseteq Mine(r)' /\ \A f \in Mine(r)' \ Mine(r) : r \in S /\ f.at = l,
           UNCHANGED <<connected, owner, op, fresh, known, refused, SendVars>>
    PROVE  SessionsOK'
<1> SUFFICES ASSUME NEW s \in Sessions PROVE SessionOK(s)'
  BY DEF SessionsOK
<1>1. SessionOK(s)
  BY DEF SessionsOK
<1>2. \A k \in {"recv", "send", "disconnect"} : l \notin UsesEvent[k]
  BY Uses
<1>3. \A k \in {"recv", "send", "disconnect"} : Users(s, k)' = Users(s, k)
  BY <1>2 DEF Users
<1>4. Ends(s) => Ends(s)'
  BY DEF Ends, Some
<1>5. Young(s)' <=> Young(s)
  BY DEF Young, Some
<1>6. Begins(s)'
  <2>1. CASE Young(s)
    <3>1. Mine(s)' = Mine(s)
      BY <1>1, <2>1 DEF SessionOK, Begins
    <3> QED
      BY <1>1, <1>5, <3>1 DEF SessionOK, Begins, SendVars
  <2>2. CASE ~Young(s)
    BY <1>1, <1>5, <2>2 DEF SessionOK, Begins, Young, Some
  <2> QED
    BY <2>1, <2>2
<1>7. RecvSide(s)' /\ SendSide(s)' /\ EndSide(s)'
  BY <1>1, <1>3, <1>4, RecvSideStays, SendSideStays, EndSideStays DEF SessionOK, SendVars
<1> QED
  BY <1>6, <1>7 DEF SessionOK

LEMMA CallSendKeeps ==
    ASSUME NEW C, SessionState(C), SessionsOK, NEW t \in Threads, NEW s \in Sessions,
           NEW b \in Buffers, CallSend(t, s, b)
    PROVE  SessionsOK'
<1>1. /\ s \in known /\ todo \in [Threads -> Seq(C)]
      /\ todo' = [todo EXCEPT ![t] = <<With("send", s, b)>> \o @]
      /\ UNCHANGED <<connected, owner, op, fresh, known, refused, SendVars>>
  BY Typed DEF CallSend, Call
<1>2. With("send", s, b).at = "send" /\ With("send", s, b).session = s
  BY StepIs
<1>3. Joined(s, "send")
  BY <1>1, <1>2, Joins, Zenon
<1> DEFINE S == {s}
<1>4. \A r \in Sessions :
         Mine(r) \subseteq Mine(r)' /\ \A f \in Mine(r)' \ Mine(r) : r \in S /\ f.at = "send"
  BY <1>3 DEF Joined
<1>5. S \subseteq known /\ "send" \in {"send", "disconnect"}
  BY <1>1
<1> HIDE DEF S
<1> QED
  BY <1>1, <1>4, <1>5, UserCallsKeep

LEMMA CallDisconnectKeeps ==
    ASSUME NEW C, SessionState(C), SessionsOK, NEW t \in Threads, NEW s \in Sessions,
           CallDisconnect(t, s)
    PROVE  SessionsOK'
<1>1. /\ s \in known /\ todo \in [Threads -> Seq(C)]
      /\ todo' = [todo EXCEPT ![t] = <<Step("disconnect", s)>> \o @]
      /\ UNCHANGED <<connected, owner, op, fresh, known, refused, SendVars>>
  BY Typed DEF CallDisconnect, Call, UserVars
<1>2. Step("disconnect", s).at = "disconnect" /\ Step("disconnect", s).session = s
  BY StepIs
<1>3. Joined(s, "disconnect")
  BY <1>1, <1>2, Joins, Zenon
<1> DEFINE S == {s}
<1>4. \A r \in Sessions :
         Mine(r) \subseteq Mine(r)' /\ \A f \in Mine(r)' \ Mine(r) : r \in S /\ f.at = "disconnect"
  BY <1>3 DEF Joined
<1>5. S \subseteq known /\ "disconnect" \in {"send", "disconnect"}
  BY <1>1
<1> HIDE DEF S
<1> QED
  BY <1>1, <1>4, <1>5, UserCallsKeep

(* A worker's call becomes the user of an event that was Windows'. *)
LEMMA UseJoins ==
    ASSUME NEW s, NEW k, One(s, UsesEvent[k]), ~Some(s, UsesEvent[k]),
           NEW l, Joined(s, l), l \in UsesEvent[k], op'[s][k] = "idle"
    PROVE  /\ UsedOnce(s, k)'
           /\ \A A \in SUBSET UsesEvent[k] : Some(s, A)' <=> l \in A
<1>1. PICK n : n.at = l /\ Mine(s)' = Mine(s) \cup {n}
  BY DEF Joined
<1>2. \A f \in Mine(s)' : f.at \in UsesEvent[k] => f = n
  BY <1>1 DEF Some
<1>3. One(s, UsesEvent[k])'
  BY <1>2 DEF One
<1>4. ASSUME NEW A \in SUBSET UsesEvent[k] PROVE Some(s, A)' <=> l \in A
  BY <1>1, <1>2 DEF Some
<1> QED
  BY <1>3, <1>4 DEF UsedOnce

LEMMA DispatchKeeps ==
    ASSUME NEW C, SessionState(C), SessionsOK, NEW t \in Threads, NEW s \in Sessions,
           NEW k \in Kinds, Dispatch(t, s, k)
    PROVE  SessionsOK'
<1> DEFINE l == Processing[k]
<1>1. /\ SessionOK(s) /\ op[s][k] # "idle" /\ todo[t] = <<>>
      /\ op' = [op EXCEPT ![s][k] = "idle"]
      /\ todo' = [todo EXCEPT ![t] = <<With(l, s, op[s][k])>>]
      /\ todo \in [Threads -> Seq(C)]
      /\ op \in [Sessions -> [Kinds -> {"idle", "pending", "ok", "zero"}]]
      /\ UNCHANGED <<connected, owner, refused, SendVars, UserVars>>
  BY Typed DEF SessionsOK, Dispatch
<1>2. /\ op'[s][k] = "idle" /\ \A j \in Kinds \ {k} : op'[s][j] = op[s][j]
      /\ \A r \in Sessions \ {s} : op'[r] = op[r]
  BY <1>1
<1>3. Joined(s, l)
  <2> DEFINE a == With(l, s, op[s][k])
  <2>1. a.at = l /\ a.session = s
    BY StepIs
  <2> HIDE DEF a
  <2>2. <<a>> \o <<>> = <<a>>
    OBVIOUS
  <2>3. todo' = [todo EXCEPT ![t] = <<a>> \o @]
    BY <1>1, <2>2 DEF a
  <2> QED
    BY <1>1, <2>1, <2>3, Joins, Zenon
<1>4. OnlyFor(s)
  BY <1>1, <1>2, <1>3 DEF OnlyFor, Joined, SendVars, UserVars
<1>5. Ends(s) => Ends(s)'
  BY <1>1, <1>3 DEF Ends, Some, Joined
<1>6. ASSUME NEW j, l \notin UsesEvent[j] PROVE Users(s, j)' = Users(s, j)
  BY <1>3, <1>6 DEF Users, Joined
<1>7. ASSUME k # "connect", l # "processConnect" PROVE Begins(s)'
  <2>1. op[s]["connect"] = "idle" /\ op'[s]["connect"] = "idle" /\ ~Young(s)
    BY <1>1, <1>2, <1>7 DEF SessionOK, Begins, Young, Kinds
  <2>2. ~Some(s, {"processConnect"})'
    BY <1>3, <1>7, <2>1 DEF Some, Joined, Young
  <2>3. ~Young(s)'
    BY <1>1, <2>1, <2>2 DEF Young, UserVars
  <2> QED
    BY <1>1, <2>1, <2>2, <2>3 DEF Begins, Young, Some, UserVars
<1>8. ASSUME k # "recv", l \notin UsesEvent["recv"] PROVE RecvSide(s)'
  BY <1>1, <1>2, <1>5, <1>6, <1>8, RecvSideStays DEF SessionOK, Kinds
<1>9. ASSUME k # "send", l \notin UsesEvent["send"] PROVE SendSide(s)'
  BY <1>1, <1>2, <1>5, <1>6, <1>9, SendSideStays DEF SessionOK, Kinds, SendVars
<1>10. ASSUME k # "disconnect", l \notin UsesEvent["disconnect"] PROVE EndSide(s)'
  BY <1>1, <1>2, <1>6, <1>10, EndSideStays DEF SessionOK, Kinds
<1>11. CASE k = "connect"
  <2>1. l = "processConnect" /\ l \in UsesEvent["recv"]
        /\ l \notin UsesEvent["send"] /\ l \notin UsesEvent["disconnect"]
    BY <1>11, Uses DEF Processing
  <2>2. /\ Mine(s) = {} /\ s \notin fresh
        /\ s \notin connected /\ s \notin known /\ s \notin registered /\ sendQueue[s] = <<>>
        /\ \A j \in Kinds : j # "connect" => op[s][j] = "idle"
    BY <1>1, <1>11 DEF SessionOK, Begins, Young
  <2>3. PICK n : n.at = l /\ Mine(s)' = {n}
    BY <1>3, <2>2 DEF Joined
  <2>4. Begins(s)'
    BY <1>1, <1>2, <1>11, <2>2, <2>3 DEF Begins, SendVars, UserVars, Kinds
  <2>5. RecvSide(s)'
    <3>1. op'[s]["recv"] = "idle"
      BY <1>2, <1>11, <2>2 DEF Kinds
    <3>2. One(s, UsesEvent["recv"])'
      BY <2>3 DEF One
    <3>3. Some(s, UsesEvent["recv"])' /\ ~Some(s, {"wsaRecv"})' /\ ~Some(s, {"undoRecv"})'
      BY <2>1, <2>3 DEF Some
    <3> QED
      BY <3>1, <3>2, <3>3 DEF RecvSide, UsedOnce
  <2>6. SendSide(s)' /\ EndSide(s)'
    BY <1>9, <1>10, <1>11, <2>1
  <2> QED
    BY <1>4, <2>4, <2>5, <2>6, Others DEF SessionOK
<1>12. CASE k = "recv"
  <2>1. l = "processRecv" /\ l \in UsesEvent["recv"]
        /\ l \notin UsesEvent["send"] /\ l \notin UsesEvent["disconnect"]
    BY <1>12, Uses DEF Processing
  <2>2. One(s, UsesEvent["recv"]) /\ ~Some(s, UsesEvent["recv"]) /\ op'[s]["recv"] = "idle"
    BY <1>1, <1>2, <1>12 DEF SessionOK, RecvSide, UsedOnce
  <2>3. /\ UsedOnce(s, "recv")'
        /\ \A A \in SUBSET UsesEvent["recv"] : Some(s, A)' <=> l \in A
    BY <1>3, <2>1, <2>2, UseJoins
  <2>4. RecvSide(s)'
    <3>1. {"wsaRecv"} \subseteq UsesEvent["recv"] /\ {"undoRecv"} \subseteq UsesEvent["recv"]
      BY Uses
    <3>2. Some(s, UsesEvent["recv"])' /\ ~Some(s, {"wsaRecv"})' /\ ~Some(s, {"undoRecv"})'
      BY <2>1, <2>3, <3>1
    <3> QED
      BY <2>3, <3>2 DEF RecvSide
  <2> QED
    BY <1>4, <1>7, <1>9, <1>10, <1>12, <2>1, <2>4, Others DEF SessionOK
<1>13. CASE k = "send"
  <2>1. l = "processSend" /\ l \in UsesEvent["send"]
        /\ l \notin UsesEvent["recv"] /\ l \notin UsesEvent["disconnect"]
    BY <1>13, Uses DEF Processing
  <2>2. SendSide(s) /\ ~Some(s, UsesEvent["send"]) /\ op'[s]["send"] = "idle" /\ s \in registered
    BY <1>1, <1>2, <1>13 DEF SessionOK, SendSide, UsedOnce, Registered, SendInUse
  <2>3. /\ UsedOnce(s, "send")'
        /\ \A A \in SUBSET UsesEvent["send"] : Some(s, A)' <=> l \in A
    BY <1>3, <2>1, <2>2, UseJoins DEF SendSide, UsedOnce
  <2>4. SendAt(s, "processSend")'
    BY <2>1, <2>3, SendAtAllNext
  <2>5. SendAt(s, "nothing")
    <3>1. \A A \in SUBSET UsesEvent["send"] : ~Some(s, A) /\ "nothing" \notin A
      BY <2>2, Wider, Uses
    <3> QED
      BY <3>1, SendAtAll
  <2>6. SendSide(s)'
    BY <1>1, <2>2, <2>3, <2>4, <2>5, Uses
       DEF SendSide, SendVars, SendAt, Filled, Ordered, Registered, Unstranded, SendInUse
  <2> QED
    BY <1>4, <1>7, <1>8, <1>10, <1>13, <2>1, <2>6, Others DEF SessionOK
<1>14. CASE k = "disconnect"
  <2>1. l = "processDisconnect" /\ l \in UsesEvent["disconnect"]
        /\ l \notin UsesEvent["recv"] /\ l \notin UsesEvent["send"]
    BY <1>14, Uses DEF Processing
  <2>2. /\ One(s, UsesEvent["disconnect"]) /\ ~Some(s, UsesEvent["disconnect"])
        /\ op'[s]["disconnect"] = "idle" /\ s \notin connected
    BY <1>1, <1>2, <1>14 DEF SessionOK, EndSide, UsedOnce
  <2>3. UsedOnce(s, "disconnect")'
    BY <1>3, <2>1, <2>2, UseJoins
  <2>4. EndSide(s)'
    BY <1>1, <2>2, <2>3 DEF EndSide
  <2> QED
    BY <1>4, <1>7, <1>8, <1>9, <1>14, <2>1, <2>4, Others DEF SessionOK
<1> QED
  BY <1>11, <1>12, <1>13, <1>14 DEF Kinds

LEMMA ProcessConnectKeeps ==
    ASSUME NEW C, SessionState(C), SessionsOK, NEW t \in Threads, NEW s \in Sessions,
           ProcessConnect(t, s)
    PROVE  SessionsOK'
<1> DEFINE K == {"addSession", "onConnected", "registerRecv"}
<1>1. /\ SessionOK(s) /\ At(t, s, "processConnect")
      /\ Then(t, <<Step("addSession", s), Step("onConnected", s), Step("registerRecv", s)>>)
      /\ owner' = [owner EXCEPT ![s] = @ \ {"connect"}]
      /\ connected' = connected \cup {s}
      /\ todo \in [Threads -> Seq(C)] /\ owner \in [Sessions -> SUBSET Kinds]
      /\ UNCHANGED <<op, refused, SendVars, UserVars>>
      /\ "processConnect" \in UsesEvent["recv"]
  BY Typed, Uses DEF SessionsOK, ProcessConnect, Release
<1>2. Became(s, "processConnect", K)
  <2>1. /\ Step("addSession", s).at = "addSession" /\ Step("addSession", s).session = s
        /\ Step("onConnected", s).at = "onConnected" /\ Step("onConnected", s).session = s
        /\ Step("registerRecv", s).at = "registerRecv" /\ Step("registerRecv", s).session = s
        /\ "addSession" # "onConnected" /\ "addSession" # "registerRecv"
        /\ "onConnected" # "registerRecv"
    BY StepIs
  <2> QED
    BY <1>1, <2>1, Goes3, Zenon
<1>3. /\ \A r \in Sessions \ {s} : owner'[r] = owner[r]
      /\ \A k \in Kinds \ {"connect"} : k \in owner[s] => k \in owner'[s]
  BY <1>1
<1>4. OnlyFor(s)
  BY <1>1, <1>2, <1>3 DEF OnlyFor, Became, SendVars, UserVars
<1>5. Some(s, {"processConnect"})
  BY <1>2, WasThere
<1>6. /\ s \notin fresh /\ op[s]["connect"] = "idle"
      /\ s \notin registered /\ sendQueue[s] = <<>>
      /\ \A k \in Kinds : k # "connect" => op[s][k] = "idle"
  BY <1>1, <1>5 DEF SessionOK, Begins, Young, Some
<1>7. \A f \in Mine(s) : f.at = "processConnect"
  BY <1>1, <1>5 DEF SessionOK, Begins, Some
<1>8. ~Some(s, {"processConnect"})'
  BY <1>1, <1>2 DEF Became, SessionOK, Begins, Some
<1>9. Begins(s)'
  BY <1>1, <1>6, <1>8 DEF Begins, Young, Some, UserVars
<1>10. RecvSide(s)'
  <2>1. K \cap UsesEvent["recv"] = {"registerRecv"}
    BY Uses
  <2> HIDE DEF K
  <2> QED
    BY <1>1, <1>2, <2>1, RecvGoesOn DEF SessionOK
<1>11. SendSide(s)'
  <2>1. Users(s, "send")' = Users(s, "send")
    BY <1>2, Aside, Uses
  <2>2. \A A : A \subseteq UsesEvent["send"] => ~Some(s, A)
    BY <1>7, Uses DEF Some
  <2>3. \A A : A \subseteq UsesEvent["send"] => ~Some(s, A)'
    BY <2>1, <2>2, UsersStay
  <2>4. \A A \in SUBSET UsesEvent["send"] : "nothing" \notin A
    BY Uses
  <2>5. SendAt(s, "nothing") /\ SendAt(s, "nothing")'
    BY <2>2, <2>3, <2>4, SendAtAll, SendAtAllNext
  <2>6. One(s, UsesEvent["send"])' <=> One(s, UsesEvent["send"])
    BY <2>1, UsersStay
  <2> QED
    BY <1>1, <1>6, <2>3, <2>5, <2>6, Uses
       DEF SessionOK, SendSide, SendVars, SendAt, UsedOnce, Filled, Ordered, Registered,
           Unstranded, SendInUse, Kinds
<1>12. EndSide(s)'
  <2>1. Users(s, "disconnect")' = Users(s, "disconnect")
    BY <1>2, Aside, Uses
  <2>2. ~Some(s, UsesEvent["disconnect"])
    BY <1>7, Uses DEF Some
  <2>3. ~Some(s, UsesEvent["disconnect"])'
    BY <2>1, <2>2, UsersStay
  <2>4. One(s, UsesEvent["disconnect"])'
    BY <2>3 DEF One, Some
  <2> QED
    BY <1>1, <1>6, <2>3, <2>4 DEF EndSide, UsedOnce, Kinds
<1> QED
  BY <1>4, <1>9, <1>10, <1>11, <1>12, Others DEF SessionOK
------------------------------------------------------------------------------
(* Types *)

(* The calls that a thread has to make. *)
Calls ==
    {c \in [at : Steps, session : Sessions, arg : Buffers \cup {None, "ok", "zero"}] :
        c.at \in {"send", "push"} => c.arg \in Buffers}

CallsIn(C) == Calls \subseteq C /\ \A c \in C : c.at \in {"send", "push"} => c.arg \in Buffers

LEMMA StepCalls ==
    ASSUME NEW C, CallsIn(C), NEW s \in Sessions
    PROVE  /\ \A l \in Steps \ {"send", "push"} : Step(l, s) \in C
           /\ \A l \in {"send", "push"}, b \in Buffers : With(l, s, b) \in C
           /\ \A l \in Steps \ {"send", "push"}, x \in {"ok", "zero"} : With(l, s, x) \in C
<1>1. \A l \in Steps \ {"send", "push"} : Step(l, s) \in Calls
  BY DEF Step, Calls
<1>2. \A l \in {"send", "push"}, b \in Buffers : With(l, s, b) \in Calls
  BY DEF With, Calls, Steps
<1>3. \A l \in Steps \ {"send", "push"}, x \in {"ok", "zero"} : With(l, s, x) \in Calls
  BY DEF With, Calls
<1> QED
  BY <1>1, <1>2, <1>3 DEF CallsIn

LEMMA ThenTyped ==
    ASSUME NEW C, todo \in [Threads -> Seq(C)], NEW t \in Threads, todo[t] # <<>>,
           NEW steps \in Seq(C), Then(t, steps)
    PROVE  todo' \in [Threads -> Seq(C)]
<1>1. steps \o Tail(todo[t]) \in Seq(C)
  OBVIOUS
<1> QED
  BY <1>1 DEF Then

LEMMA CallTyped ==
    ASSUME NEW C, todo \in [Threads -> Seq(C)], NEW t \in Threads, NEW steps \in Seq(C),
           Call(t, steps)
    PROVE  todo' \in [Threads -> Seq(C)]
<1>1. steps \o todo[t] \in Seq(C)
  OBVIOUS
<1> QED
  BY <1>1 DEF Call

LEMMA ArgTyped ==
    ASSUME NEW C, CallsIn(C), todo \in [Threads -> Seq(C)], NEW t \in Threads, NEW s,
           NEW l \in {"send", "push"}, At(t, s, l)
    PROVE  Arg(t) \in Buffers
<1>1. todo[t] \in Seq(C) /\ todo[t] # <<>>
  BY DEF At
<1>2. todo[t][1] \in C
  BY <1>1
<1> QED
  BY <1>2 DEF CallsIn, At, Arg

DataTyped ==
    SessionTypes /\ accepted \in [Sessions -> Seq(Buffers)] /\ handed \in [Sessions -> Seq(Buffers)]

LEMMA OpTyped ==
    ASSUME op \in [Sessions -> [Kinds -> {"idle", "pending", "ok", "zero"}]],
           NEW s \in Sessions, NEW k \in Kinds, NEW x \in {"idle", "pending", "ok", "zero"}
    PROVE  [op EXCEPT ![s][k] = x] \in [Sessions -> [Kinds -> {"idle", "pending", "ok", "zero"}]]
OBVIOUS

LEMMA OwnerTyped ==
    ASSUME owner \in [Sessions -> SUBSET Kinds], NEW s \in Sessions, NEW k \in Kinds
    PROVE  [owner EXCEPT ![s] = @ \cup {k}] \in [Sessions -> SUBSET Kinds]
OBVIOUS

LEMMA IssueTyped ==
    ASSUME SessionTypes, NEW t, NEW s \in Sessions, NEW k \in Kinds, NEW undo, Issue(t, s, k, undo)
    PROVE  /\ op' \in [Sessions -> [Kinds -> {"idle", "pending", "ok", "zero"}]]
           /\ refused' \subseteq Sessions \X Kinds
<1>1. CASE op' = [op EXCEPT ![s][k] = "pending"] /\ UNCHANGED refused
  BY <1>1, OpTyped DEF SessionTypes
<1>2. CASE UNCHANGED op /\ (UNCHANGED refused \/ refused' = refused \cup {<<s, k>>})
  BY <1>2 DEF SessionTypes
<1> QED
  BY <1>1, <1>2 DEF Issue

LEMMA StepData ==
    ASSUME NEW C, CallsIn(C), SessionState(C), NEW t \in Threads, NEW s \in Sessions,
           SessionStep(t, s) \/ ServiceStep(t, s)
    PROVE  DataTyped'
<1> USE DEF DataTyped, SessionState, SessionTypes, SendVars, UserVars, Kinds
<1>1. CASE ProcessConnect(t, s)
  BY <1>1 DEF ProcessConnect, Release
<1>2. CASE ProcessDisconnect(t, s)
  BY <1>2 DEF ProcessDisconnect, Release
<1>3. CASE Disconnect(t, s)
  BY <1>3 DEF Disconnect
<1>4. CASE RegisterDisconnect(t, s)
  <2>1. CASE /\ owner' = [owner EXCEPT ![s] = @ \cup {"disconnect"}]
             /\ op' = [op EXCEPT ![s]["disconnect"] = "pending"] /\ UNCHANGED refused
    BY <1>4, <2>1, OpTyped, OwnerTyped DEF RegisterDisconnect
  <2>2. CASE UNCHANGED <<owner, op>> /\ refused' = refused \cup {<<s, "disconnect">>}
    BY <1>4, <2>2 DEF RegisterDisconnect
  <2> QED
    BY <1>4, <2>1, <2>2 DEF RegisterDisconnect
<1>5. CASE ProcessRecv(t, s)
  BY <1>5 DEF ProcessRecv, Release
<1>6. CASE AfterRecv(t, s)
  BY <1>6 DEF AfterRecv
<1>7. CASE RegisterRecv(t, s)
  BY <1>7, OwnerTyped DEF RegisterRecv, Register
<1>8. CASE WSARecv(t, s)
  BY <1>8, IssueTyped DEF WSARecv
<1>9. CASE UndoRecv(t, s)
  BY <1>9 DEF UndoRecv, Release
<1>10. CASE Send(t, s)
  BY <1>10 DEF Send
<1>11. CASE Push(t, s)
  <2>1. Arg(t) \in Buffers
    BY <1>11, ArgTyped DEF Push
  <2> QED
    BY <1>11, <2>1 DEF Push
<1>12. CASE RegisterSend(t, s)
  BY <1>12, OwnerTyped DEF RegisterSend, Register
<1>13. CASE Collect(t, s)
  BY <1>13 DEF Collect
<1>14. CASE WSASend(t, s)
  <2>1. /\ op' \in [Sessions -> [Kinds -> {"idle", "pending", "ok", "zero"}]]
        /\ refused' \subseteq Sessions \X Kinds
    BY <1>14, IssueTyped DEF WSASend
  <2>2. handed' \in [Sessions -> Seq(Buffers)]
    BY <1>14 DEF WSASend
  <2> QED
    BY <1>14, <2>1, <2>2 DEF WSASend
<1>15. CASE UndoSend(t, s)
  BY <1>15 DEF UndoSend, ClearBuffers, Release
<1>16. CASE Unregister(t, s)
  BY <1>16 DEF Unregister
<1>17. CASE ProcessSend(t, s)
  BY <1>17 DEF ProcessSend, ClearBuffers, Release
<1>18. CASE Resume(t, s)
  BY <1>18 DEF Resume
<1>19. CASE Unlock(t, s)
  BY <1>19 DEF Unlock
<1>20. CASE AddSession(t, s)
  BY <1>20 DEF AddSession
<1>21. CASE ReleaseSession(t, s)
  BY <1>21 DEF ReleaseSession
<1> QED
  BY <1>1, <1>2, <1>3, <1>4, <1>5, <1>6, <1>7, <1>8, <1>9, <1>10, <1>11, <1>12, <1>13, <1>14,
     <1>15, <1>16, <1>17, <1>18, <1>19, <1>20, <1>21 DEF SessionStep, ServiceStep


LEMMA StepTodo ==
    ASSUME NEW C, CallsIn(C), SessionState(C), NEW t \in Threads, NEW s \in Sessions,
           SessionStep(t, s) \/ ServiceStep(t, s)
    PROVE  todo' \in [Threads -> Seq(C)]
<1>1. \A a, b, c \in C : /\ <<>> \in Seq(C) /\ <<a>> \in Seq(C)
                         /\ <<a, b>> \in Seq(C) /\ <<a, b, c>> \in Seq(C)
  OBVIOUS
<1>2. <<>> \in Seq(C)
  OBVIOUS
<1>3. \A l \in Steps \ {"send", "push"} : Step(l, s) \in C
  BY StepCalls
<1>4. \A l \in Steps \ {"send", "push"} : <<Step(l, s)>> \in Seq(C)
  BY <1>1, <1>3
<1>5. \A l, m \in Steps \ {"send", "push"} : <<Step(l, s), Step(m, s)>> \in Seq(C)
  BY <1>1, <1>3
<1>6. \A l, m, n \in Steps \ {"send", "push"} :
         <<Step(l, s), Step(m, s), Step(n, s)>> \in Seq(C)
  BY <1>1, <1>3
<1> SUFFICES todo[t] # <<>> /\ \E steps \in Seq(C) : Then(t, steps)
  BY ThenTyped DEF SessionState
<1> USE DEF At
<1>7. CASE ProcessConnect(t, s)
  BY <1>6, <1>7 DEF ProcessConnect, Steps, Callbacks
<1>8. CASE ProcessDisconnect(t, s)
  BY <1>5, <1>8 DEF ProcessDisconnect, Steps, Callbacks
<1>9. CASE Disconnect(t, s)
  BY <1>2, <1>4, <1>9 DEF Disconnect, Steps
<1>10. CASE RegisterDisconnect(t, s)
  BY <1>2, <1>10 DEF RegisterDisconnect, Return
<1>11. CASE ProcessRecv(t, s)
  BY <1>4, <1>5, <1>11 DEF ProcessRecv, Steps, Callbacks
<1>12. CASE AfterRecv(t, s)
  BY <1>4, <1>12 DEF AfterRecv, Steps
<1>13. CASE RegisterRecv(t, s)
  BY <1>2, <1>4, <1>13 DEF RegisterRecv, Register, Return, Steps
<1>14. CASE WSARecv(t, s)
  BY <1>2, <1>4, <1>5, <1>14 DEF WSARecv, Issue, Return, Steps
<1>15. CASE UndoRecv(t, s)
  BY <1>2, <1>15 DEF UndoRecv, Return
<1>16. CASE Send(t, s)
  <2>1. Arg(t) \in Buffers
    BY <1>16, ArgTyped DEF Send, SessionState
  <2>2. <<With("push", s, Arg(t))>> \in Seq(C)
    BY <1>1, <2>1, StepCalls
  <2> QED
    BY <1>2, <1>16, <2>2 DEF Send
<1>17. CASE Push(t, s)
  BY <1>2, <1>4, <1>17 DEF Push, Steps
<1>18. CASE RegisterSend(t, s)
  BY <1>2, <1>4, <1>18 DEF RegisterSend, Register, Return, Steps
<1>19. CASE Collect(t, s)
  BY <1>4, <1>19 DEF Collect, Steps
<1>20. CASE WSASend(t, s)
  BY <1>2, <1>4, <1>5, <1>20 DEF WSASend, Issue, Return, Steps
<1>21. CASE UndoSend(t, s)
  BY <1>4, <1>21 DEF UndoSend, Steps
<1>22. CASE Unregister(t, s)
  BY <1>2, <1>22 DEF Unregister, Return
<1>23. CASE ProcessSend(t, s)
  BY <1>4, <1>5, <1>23 DEF ProcessSend, Steps, Callbacks
<1>24. CASE Resume(t, s)
  BY <1>2, <1>5, <1>24 DEF Resume, Return, Steps
<1>25. CASE Unlock(t, s)
  BY <1>2, <1>25 DEF Unlock, Return
<1>26. CASE AddSession(t, s)
  BY <1>2, <1>26 DEF AddSession, Return
<1>27. CASE ReleaseSession(t, s)
  BY <1>2, <1>27 DEF ReleaseSession, Return
<1> QED
  BY <1>7, <1>8, <1>9, <1>10, <1>11, <1>12, <1>13, <1>14, <1>15, <1>16, <1>17, <1>18, <1>19,
     <1>20, <1>21, <1>22, <1>23, <1>24, <1>25, <1>26, <1>27 DEF SessionStep, ServiceStep


LEMMA StepTyped ==
    ASSUME NEW C, CallsIn(C), SessionState(C), NEW t \in Threads, NEW s \in Sessions,
           SessionStep(t, s) \/ ServiceStep(t, s)
    PROVE  SessionState(C)'
BY StepData, StepTodo DEF SessionState, DataTyped

LEMMA CallbackTyped ==
    ASSUME NEW C, SessionState(C), NEW t \in Threads, CallbackReturns(t)
    PROVE  SessionState(C)'
<1>1. <<>> \in Seq(C)
  OBVIOUS
<1>2. todo' \in [Threads -> Seq(C)]
  BY <1>1, ThenTyped DEF SessionState, CallbackReturns, Return
<1> QED
  BY <1>2 DEF CallbackReturns, SessionState, SessionTypes, SendVars, UserVars

LEMMA UserTyped ==
    ASSUME NEW C, CallsIn(C), SessionState(C), NEW t \in Threads, NEW s \in Sessions,
           UserStep(t, s)
    PROVE  SessionState(C)'
<1>1. CASE Connect(t, s)
  <2>1. /\ owner' \in [Sessions -> SUBSET Kinds]
        /\ op' \in [Sessions -> [Kinds -> {"idle", "pending", "ok", "zero"}]]
    <3>1. CASE /\ owner' = [owner EXCEPT ![s] = @ \cup {"connect"}]
               /\ op' = [op EXCEPT ![s]["connect"] = "pending"]
      BY <3>1, OpTyped, OwnerTyped DEF SessionState, SessionTypes, Kinds
    <3>2. CASE UNCHANGED <<owner, op>>
      BY <3>2 DEF SessionState, SessionTypes
    <3> QED
      BY <1>1, <3>1, <3>2 DEF Connect
  <2> QED
    BY <1>1, <2>1 DEF Connect, SessionState, SessionTypes, SendVars
<1>2. ASSUME NEW steps \in Seq(C), Call(t, steps), unsent' \subseteq unsent,
             UNCHANGED <<connected, owner, op, fresh, known, refused, SendVars>>
      PROVE  SessionState(C)'
  <2>1. todo' \in [Threads -> Seq(C)]
    BY <1>2, CallTyped DEF SessionState
  <2> QED
    BY <1>2, <2>1 DEF SessionState, SessionTypes, SendVars
<1>3. CASE CallDisconnect(t, s)
  <2>1. <<Step("disconnect", s)>> \in Seq(C)
    <3>1. Step("disconnect", s) \in C
      BY StepCalls DEF Steps
    <3> QED
      BY <3>1
  <2> QED
    BY <1>2, <1>3, <2>1 DEF CallDisconnect, UserVars
<1>4. ASSUME NEW b \in Buffers, CallSend(t, s, b) PROVE SessionState(C)'
  <2>1. <<With("send", s, b)>> \in Seq(C)
    <3>1. With("send", s, b) \in C
      BY StepCalls
    <3> QED
      BY <3>1
  <2> QED
    BY <1>2, <1>4, <2>1 DEF CallSend
<1> QED
  BY <1>1, <1>3, <1>4 DEF UserStep

LEMMA CompleteTyped ==
    ASSUME NEW C, SessionState(C), NEW s \in Sessions, NEW k \in Kinds, Complete(s, k)
    PROVE  SessionState(C)'
<1>1. op' \in [Sessions -> [Kinds -> {"idle", "pending", "ok", "zero"}]]
  <2>1. PICK x \in {"ok", "zero"} : op' = [op EXCEPT ![s][k] = x]
    BY DEF Complete
  <2> QED
    BY <2>1, OpTyped DEF SessionState, SessionTypes
<1> QED
  BY <1>1 DEF Complete, SessionState, SessionTypes, SendVars, UserVars

LEMMA DispatchTyped ==
    ASSUME NEW C, CallsIn(C), SessionState(C), NEW t \in Threads, NEW s \in Sessions,
           NEW k \in Kinds, Dispatch(t, s, k)
    PROVE  SessionState(C)'
<1>1. op' \in [Sessions -> [Kinds -> {"idle", "pending", "ok", "zero"}]]
  BY OpTyped DEF Dispatch, SessionState, SessionTypes
<1>2. todo' \in [Threads -> Seq(C)]
  <2>1. op[s][k] \in {"ok", "zero"} /\ Processing[k] \in Steps \ {"send", "push"}
    BY DEF Dispatch, Processing, Kinds, Steps
  <2>2. With(Processing[k], s, op[s][k]) \in C
    BY <2>1, StepCalls
  <2>3. <<With(Processing[k], s, op[s][k])>> \in Seq(C)
    BY <2>2
  <2> QED
    BY <2>3 DEF Dispatch, SessionState
<1> QED
  BY <1>1, <1>2 DEF Dispatch, SessionState, SessionTypes, SendVars, UserVars
------------------------------------------------------------------------------
(* The steps together *)

LEMMA StepKeeps ==
    ASSUME NEW C, CallsIn(C), SessionState(C), SessionsOK, NEW t \in Threads, NEW s \in Sessions,
           SessionStep(t, s) \/ ServiceStep(t, s)
    PROVE  SessionsOK'
<1>1. CASE Push(t, s)
  <2>1. Arg(t) \in Buffers
    BY <1>1, Typed, ArgTyped DEF Push
  <2> QED
    BY <1>1, <2>1, PushKeeps
<1>2. CASE ProcessRecv(t, s) \/ AfterRecv(t, s) \/ RegisterRecv(t, s) \/ WSARecv(t, s)
           \/ UndoRecv(t, s)
  BY <1>2, ProcessRecvKeeps, AfterRecvKeeps, RegisterRecvKeeps, WSARecvKeeps, UndoRecvKeeps
<1>3. CASE Send(t, s) \/ RegisterSend(t, s) \/ Collect(t, s) \/ WSASend(t, s)
           \/ UndoSend(t, s) \/ Unregister(t, s) \/ ProcessSend(t, s) \/ Resume(t, s)
           \/ Unlock(t, s)
  BY <1>3, SendKeeps, RegisterSendKeeps, CollectKeeps, WSASendKeeps, UndoSendKeeps,
     UnregisterKeeps, ProcessSendKeeps, ResumeKeeps, UnlockKeeps
<1>4. CASE Disconnect(t, s) \/ RegisterDisconnect(t, s) \/ ProcessDisconnect(t, s)
           \/ ReleaseSession(t, s)
  BY <1>4, DisconnectKeeps, RegisterDisconnectKeeps, ProcessDisconnectKeeps, ReleaseSessionKeeps
<1>5. CASE ProcessConnect(t, s) \/ AddSession(t, s)
  BY <1>5, ProcessConnectKeeps, AddSessionKeeps
<1> QED
  BY <1>1, <1>2, <1>3, <1>4, <1>5 DEF SessionStep, ServiceStep

LEMMA UserKeeps ==
    ASSUME NEW C, SessionState(C), SessionsOK, NEW t \in Threads, NEW s \in Sessions,
           UserStep(t, s)
    PROVE  SessionsOK'
BY ConnectKeeps, CallDisconnectKeeps, CallSendKeeps DEF UserStep

LEMMA NoFrames == ASSUME todo = [t \in Threads |-> <<>>] PROVE Frames = {}
<1>1. Len(<<>>) = 0 /\ 1 .. 0 = {}
  OBVIOUS
<1>2. \A t : FramesIn(t, <<>>) = {}
  BY <1>1 DEF FramesIn
<1> QED
  BY <1>2 DEF Frames, FramesOf

LEMMA InitOK ==
    ASSUME Init
    PROVE  SessionState(Calls) /\ SessionsOK
<1>1. SessionState(Calls)
  <2>1. <<>> \in Seq(Buffers) /\ <<>> \in Seq(Calls)
    OBVIOUS
  <2> QED
    BY <2>1 DEF Init, SessionState, SessionTypes
<1>2. ASSUME NEW s \in Sessions PROVE SessionOK(s)
  <2>1. Frames = {}
    BY NoFrames DEF Init
  <2>2. Mine(s) = {} /\ \A A : ~Some(s, A) /\ One(s, A)
    BY <2>1 DEF Mine, On, Some, One
  <2>3. Begins(s) /\ RecvSide(s) /\ EndSide(s)
    BY <2>2 DEF Init, Begins, RecvSide, EndSide, UsedOnce, Ends, Kinds
  <2>4. SendSide(s)
    <3>1. Ordered(s)
      <4>1. <<>> \o <<>> \o <<>> = <<>>
        OBVIOUS
      <4> QED
        BY <2>2, <4>1 DEF Init, Ordered
    <3> QED
      BY <2>2, <3>1
         DEF Init, SendSide, UsedOnce, Filled, Registered, Unstranded, SendInUse, Kinds
  <2> QED
    BY <2>3, <2>4 DEF SessionOK
<1> QED
  BY <1>1, <1>2 DEF SessionsOK

LEMMA CallsAre == CallsIn(Calls)
BY DEF CallsIn, Calls

SessionInv == SessionState(Calls) /\ SessionsOK

LEMMA SessionInvHolds == Spec => []SessionInv
<1>1. Init => SessionInv
  BY InitOK DEF SessionInv
<1>2. SessionInv /\ [Next]_vars => SessionInv'
  <2> SUFFICES ASSUME SessionInv, [Next]_vars PROVE SessionInv'
    OBVIOUS
  <2> USE CallsAre DEF SessionInv
  <2>1. CASE \E t \in Threads : ThreadStep(t)
    <3>1. ASSUME NEW t \in Threads, NEW s \in Sessions, SessionStep(t, s) \/ ServiceStep(t, s)
          PROVE  SessionInv'
      BY <3>1, StepKeeps, StepTyped
    <3>2. ASSUME NEW t \in Threads, CallbackReturns(t) PROVE SessionInv'
      BY <3>2, CallbackReturnsKeeps, CallbackTyped
    <3> QED
      BY <2>1, <3>1, <3>2 DEF ThreadStep
  <2>2. CASE \E t \in Threads, s \in Sessions : UserStep(t, s)
    BY <2>2, UserKeeps, UserTyped
  <2>3. CASE \E t \in Threads, s \in Sessions, k \in Kinds : Dispatch(t, s, k)
    BY <2>3, DispatchKeeps, DispatchTyped
  <2>4. CASE \E s \in Sessions, k \in Kinds : Complete(s, k)
    BY <2>4, CompleteKeeps, CompleteTyped
  <2>5. CASE UNCHANGED vars
    <3>1. \A r : Mine(r)' = Mine(r)
      BY <2>5, SameFrames DEF vars
    <3>2. ASSUME NEW s \in Sessions PROVE SessionOK(s)'
      <4>1. SessionOK(s)
        BY DEF SessionsOK
      <4>2. Begins(s)'
        BY <2>5, <3>1, <4>1 DEF vars, SessionOK, Begins, Young, Some
      <4>3. UNCHANGED <<connected, refused, SendVars, op, owner>>
        BY <2>5 DEF vars, SendVars
      <4> QED
        BY <3>1, <4>1, <4>2, <4>3, SameSides DEF SessionOK
    <3>3. SessionState(Calls)'
      BY <2>5 DEF vars, SessionState, SessionTypes
    <3> QED
      BY <3>2, <3>3 DEF SessionsOK
  <2> QED
    BY <2>1, <2>2, <2>3, <2>4, <2>5 DEF Next
<1> QED
  BY <1>1, <1>2, PTL DEF Spec

------------------------------------------------------------------------------
(* The properties of the runs *)

LEMMA DoingSome ==
    ASSUME NEW C, todo \in [Threads -> Seq(C)], NEW s, NEW A
    PROVE  Doing(s, A) # {} <=> Some(s, A)
<1>1. ASSUME NEW t \in Threads, NEW i \in DOMAIN todo[t],
             todo[t][i].session = s, todo[t][i].at \in A
      PROVE  Some(s, A)
  <2> DEFINE f == Frame(t, Len(todo[t]) + 1 - i, todo[t][i])
  <2>1. DOMAIN todo[t] = 1 .. Len(todo[t])
    OBVIOUS
  <2>2. f \in Mine(s)
    <3>1. f \in Frames
      BY <2>1 DEF Frames, FramesOf, FramesIn
    <3> QED
      BY <1>1, <3>1, FrameIs DEF Mine, On
  <2>3. f.at \in A
    BY <1>1, FrameIs DEF IsFrame
  <2> QED
    BY <2>2, <2>3 DEF Some
<1>2. ASSUME Some(s, A) PROVE Doing(s, A) # {}
  <2>1. PICK f \in Frames : f.session = s /\ f.at \in A
    BY <1>2 DEF Some, Mine, On
  <2>2. PICK t \in Threads : f \in FramesIn(t, todo[t])
    BY DEF Frames, FramesOf
  <2>3. PICK i \in 1 .. Len(todo[t]) : f = Frame(t, Len(todo[t]) + 1 - i, todo[t][i])
    BY <2>2 DEF FramesIn
  <2>4. i \in DOMAIN todo[t] /\ todo[t][i].session = s /\ todo[t][i].at \in A
    BY <2>1, <2>3, FrameIs DEF IsFrame
  <2>5. <<t, i>> \in {<<t, x>> : x \in {j \in DOMAIN todo[t] : /\ todo[t][j].session = s
                                                               /\ todo[t][j].at \in A}}
    BY <2>4
  <2>6. <<t, i>> \in Doing(s, A)
    BY <2>5 DEF Doing
  <2> QED
    BY <2>6
<1> QED
  BY <1>1, <1>2 DEF Doing

LEMMA DoingOne ==
    ASSUME NEW C, todo \in [Threads -> Seq(C)], NEW s, NEW A, One(s, A)
    PROVE  Cardinality(Doing(s, A)) \in {0, 1}
<1>1. ASSUME NEW t \in Threads, NEW i \in DOMAIN todo[t],
             todo[t][i].session = s, todo[t][i].at \in A
      PROVE  /\ Frame(t, Len(todo[t]) + 1 - i, todo[t][i]) \in Mine(s)
             /\ Frame(t, Len(todo[t]) + 1 - i, todo[t][i]).at \in A
  <2> DEFINE f == Frame(t, Len(todo[t]) + 1 - i, todo[t][i])
  <2>1. DOMAIN todo[t] = 1 .. Len(todo[t])
    OBVIOUS
  <2>2. f \in Frames
    BY <2>1 DEF Frames, FramesOf, FramesIn
  <2> QED
    BY <1>1, <2>2, FrameIs DEF Mine, On, IsFrame
<1>2. ASSUME NEW t \in Threads, NEW i \in DOMAIN todo[t],
             todo[t][i].session = s, todo[t][i].at \in A,
             NEW u \in Threads, NEW j \in DOMAIN todo[u],
             todo[u][j].session = s, todo[u][j].at \in A
      PROVE  t = u /\ i = j
  <2>1. Frame(t, Len(todo[t]) + 1 - i, todo[t][i]) = Frame(u, Len(todo[u]) + 1 - j, todo[u][j])
    BY <1>1, <1>2 DEF One
  <2>2. t = u /\ Len(todo[t]) + 1 - i = Len(todo[u]) + 1 - j
    BY <2>1 DEF Frame
  <2>3. Len(todo[t]) \in Int /\ i \in Int /\ j \in Int
    OBVIOUS
  <2> QED
    BY <2>2, <2>3
<1>3. \A p, q \in Doing(s, A) : p = q
  BY <1>2 DEF Doing
<1>4. CASE Doing(s, A) = {}
  BY <1>4, FS_EmptySet
<1>5. CASE Doing(s, A) # {}
  <2>1. PICK p : Doing(s, A) = {p}
    BY <1>3, <1>5
  <2> QED
    BY <2>1, FS_Singleton
<1> QED
  BY <1>4, <1>5

(* The invariant says what the runs check, whatever else is called between the
   steps of the sessions. *)
LEMMA SessionFacts ==
    ASSUME NEW C, SessionState(C), SessionsOK
    PROVE  EventsNotShared /\ KeptWhileInUse /\ SendsInOrder /\ NothingStranded /\ StaysArmed
<1>1. EventsNotShared
  <2> SUFFICES ASSUME NEW s \in Sessions, NEW k \in Kinds
               PROVE  /\ Cardinality(Doing(s, UsesEvent[k]))
                            + (IF op[s][k] # "idle" THEN 1 ELSE 0) <= 1
                      /\ k = "recv" /\ op[s]["connect"] # "idle" => ~InUse(s, "recv")
    BY DEF EventsNotShared
  <2>1. SessionOK(s) /\ todo \in [Threads -> Seq(C)]
    BY DEF SessionsOK, SessionState
  <2>2. /\ One(s, UsesEvent[k])
        /\ op[s][k] # "idle" => ~Some(s, UsesEvent[k])
    <3>1. CASE k = "connect"
      BY <3>1 DEF UsesEvent, One, Some
    <3>2. CASE k # "connect"
      BY <2>1, <3>2 DEF SessionOK, RecvSide, SendSide, EndSide, UsedOnce, Kinds
    <3> QED
      BY <3>1, <3>2
  <2>3. Cardinality(Doing(s, UsesEvent[k])) \in {0, 1}
    BY <2>1, <2>2, DoingOne
  <2>4. op[s][k] # "idle" => Doing(s, UsesEvent[k]) = {}
    BY <2>1, <2>2, DoingSome
  <2>5. Cardinality(Doing(s, UsesEvent[k])) + (IF op[s][k] # "idle" THEN 1 ELSE 0) <= 1
    BY <2>3, <2>4, FS_EmptySet
  <2>6. op[s]["connect"] # "idle" => ~InUse(s, "recv")
    <3>1. op[s]["connect"] # "idle" => op[s]["recv"] = "idle" /\ ~Some(s, UsesEvent["recv"])
      BY <2>1 DEF SessionOK, Begins, Young, Some, Kinds
    <3> QED
      BY <2>1, <3>1, DoingSome DEF InUse
  <2> QED
    BY <2>5, <2>6
<1>2. KeptWhileInUse
  BY DEF SessionsOK, SessionOK, Begins, RecvSide, SendSide, EndSide, UsedOnce, Filled,
         KeptWhileInUse, Kinds
<1>3. SendsInOrder
  <2> SUFFICES ASSUME NEW s \in Sessions
               PROVE  accepted[s] = handed[s]
                         \o (IF Doing(s, {"wsaSend"}) # {} THEN sendBuffers[s] ELSE <<>>)
                         \o sendQueue[s]
    BY DEF SendsInOrder
  <2>1. Doing(s, {"wsaSend"}) # {} <=> Some(s, {"wsaSend"})
    BY DoingSome DEF SessionState
  <2>2. Ordered(s)
    BY DEF SessionsOK, SessionOK, SendSide
  <2> QED
    BY <2>1, <2>2 DEF Ordered
<1>4. NothingStranded
  <2> SUFFICES ASSUME NEW s \in Sessions, sendQueue[s] # <<>>
               PROVE  InUse(s, "send") \/ Disconnecting(s) \/ <<s, "send">> \in refused
    BY DEF NothingStranded
  <2>1. SendInUse(s) \/ Ends(s) \/ <<s, "send">> \in refused
    BY DEF SessionsOK, SessionOK, SendSide, Unstranded
  <2>2. \A A : Doing(s, A) # {} <=> Some(s, A)
    BY DoingSome DEF SessionState
  <2> QED
    BY <2>1, <2>2 DEF SendInUse, Ends, InUse, Disconnecting
<1>5. StaysArmed
  <2> SUFFICES ASSUME NEW s \in Sessions
               PROVE  InUse(s, "recv") \/ Disconnecting(s) \/ <<s, "recv">> \in refused
    BY DEF StaysArmed
  <2>1. op[s]["recv"] # "idle" \/ Some(s, UsesEvent["recv"]) \/ Ends(s) \/ <<s, "recv">> \in refused
    BY DEF SessionsOK, SessionOK, RecvSide
  <2>2. \A A : Doing(s, A) # {} <=> Some(s, A)
    BY DoingSome DEF SessionState
  <2> QED
    BY <2>1, <2>2 DEF Ends, InUse, Disconnecting
<1> QED
  BY <1>1, <1>2, <1>3, <1>4, <1>5

(* An event has one user at most, an operation or a thread. *)
THEOREM EventsUsedOnce == Spec => []EventsNotShared
<1>1. SessionInv => EventsNotShared
  BY SessionFacts DEF SessionInv
<1> QED
  BY <1>1, SessionInvHolds, PTL

(* The event's owner keeps the session, and a send its buffers, while Windows
   uses them. *)
THEOREM OwnersKept == Spec => []KeptWhileInUse
<1>1. SessionInv => KeptWhileInUse
  BY SessionFacts DEF SessionInv
<1> QED
  BY <1>1, SessionInvHolds, PTL

(* What is queued reaches WSASend once, in order and complete, however Send,
   the completion and the next registration interleave. *)
THEOREM SentInOrder == Spec => []SendsInOrder
<1>1. SessionInv => SendsInOrder
  BY SessionFacts DEF SessionInv
<1> QED
  BY <1>1, SessionInvHolds, PTL

(* Nothing that is queued is left without somebody to send it. *)
THEOREM SendersFound == Spec => []NothingStranded
<1>1. SessionInv => NothingStranded
  BY SessionFacts DEF SessionInv
<1> QED
  BY <1>1, SessionInvHolds, PTL

(* A connected session never loses its receive without being disconnected. *)
THEOREM ReceivesGoOn == Spec => []StaysArmed
<1>1. SessionInv => StaysArmed
  BY SessionFacts DEF SessionInv
<1> QED
  BY <1>1, SessionInvHolds, PTL
==============================================================================
