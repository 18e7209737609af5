---------------------------- MODULE ServiceProofs ----------------------------
(***************************************************************************)
(* Proofs about Service: the call stacks stay bounded, the session count   *)
(* is off by known sessions only, a session is released once, no connected *)
(* session is missing from the set, broadcasts keep one order, and what is *)
(* proved of one session still holds while broadcasts and closes call it.  *)
(*                                                                         *)
(* The invariant, Sane, says who holds the service's lock and what follows *)
(* of the set from it.  It is stated over the frames of SessionProofs: a   *)
(* step of a session replaces one frame by a few (Took), a call of the     *)
(* user or of a dispatch adds one, and Broadcast and CloseService add one  *)
(* for every session of the set above the mark of their end (Each).        *)
(*                                                                         *)
(* Then those about Listener: every accept event that was made stays armed *)
(* or in the hands of one thread that will arm it, and waits with a        *)
(* session of its own; and what is proved of the service and of its        *)
(* sessions holds for the sessions that the listener makes.                *)
(***************************************************************************)
EXTENDS SessionProofs, Listener

Marks == {"endBroadcast", "clearSessions"}

(* e is below f in one call stack. *)
Under(e, f) == e.thread = f.thread /\ e.depth < f.depth

(* Broadcast and CloseService hold the lock to their end, and only one of
   them does. *)
LockHeld ==
    /\ \A e \in Frames : e.at \in Marks => serviceLock = e.thread
    /\ \A e, f \in Frames : e.at \in Marks /\ f.at \in Marks => e = f

(* A session that was added is in the set until it is released or swept, and
   it is connected only while it is in the set. *)
Parted ==
    /\ known = sessions \cup swept \cup released
    /\ sessions \cap (swept \cup released) = {}
    /\ connected \cap (swept \cup released) = {}

(* Until a session is added, nothing but its connect can happen to it. *)
Entering(s) ==
    /\ s \in known => ~Some(s, {"addSession"})
    /\ s \notin known =>
          /\ \A k \in {"recv", "send", "disconnect"} : op[s][k] = "idle"
          /\ \/ s \notin connected /\ \A f \in Mine(s) : f.at = "processConnect"
             \/ \E f \in Mine(s) :
                   /\ f.at = "addSession"
                   /\ \A g \in Mine(s) \ {f} : Under(g, f) /\ g.at \in {"onConnected", "registerRecv"}

(* A session is disconnected, and released, once and while it is known. *)
Ending(s) ==
    Some(s, UsesEvent["disconnect"]) \/ op[s]["disconnect"] # "idle" => s \in known \ released

(* CloseService has disconnected, or is about to disconnect, every session of
   the set when it clears it. *)
Closing ==
    \A e \in Frames : e.at = "clearSessions" =>
       \A s \in sessions :
          s \in connected => \E g \in Mine(s) : g.at = "disconnect" /\ Under(e, g)

(* The calls of Send for buffer b that have not queued it yet. *)
Sending(b) == {f \in Frames : f.at \in {"send", "push"} /\ f.arg = b}

Queued(s, b) == \E i \in 1 .. Len(accepted[s]) : accepted[s][i] = b

(* The sessions that b was sent to, or is being sent to. *)
Reach(b) == {s \in Sessions : Queued(s, b) \/ \E f \in Sending(b) : f.session = s}

Alone(b) == \A r, s \in Reach(b) : r = s

(* Every buffer is sent by one call, which sends it to a session once. *)
SentOnce(b) ==
    /\ b \in unsent => Reach(b) = {}
    /\ \A f, g \in Sending(b) : f.session = g.session => f = g
    /\ \A f \in Sending(b) : ~Queued(f.session, b)
    /\ \A s \in Sessions : \A i, j \in 1 .. Len(accepted[s]) :
          accepted[s][i] = b /\ accepted[s][j] = b => i = j

(* A buffer for several sessions is sent by the broadcast that holds the
   lock, and queued after those of earlier broadcasts. *)
Broadcasting ==
    \A b \in Buffers : ~Alone(b) =>
       \A f \in Sending(b) :
          /\ \E e \in Frames : e.at = "endBroadcast" /\ Under(e, f)
          /\ \A c \in Buffers : ~Alone(c) =>
                /\ Sending(c) # {} => c = b
                /\ \A s \in Sessions : ~Before(s, b, c)

(* How many frames a step and its calls take at most, one above the other. *)
Height ==
    [l \in Steps \cup Marks |->
       CASE l = "processConnect" -> Cardinality(Sessions) + 5
         [] l \in {"processDisconnect", "processRecv", "processSend"} -> Cardinality(Sessions) + 4
         [] l \in Callbacks -> Cardinality(Sessions) + 3
         [] l = "resume" -> 3
         [] l \in {"send", "push", "registerSend", "collect", "wsaSend", "registerRecv", "wsaRecv",
                   "afterRecv"} -> 2
         [] OTHER -> 1]

Shallow == \A f \in Frames : f.depth + Height[f.at] <= Cardinality(Sessions) + 6

Sane ==
    /\ LockHeld /\ Parted /\ Closing /\ Broadcasting
    /\ \A s \in Sessions : Entering(s) /\ Ending(s)
    /\ \A b \in Buffers : SentOnce(b)
------------------------------------------------------------------------------
(* The steps of the sessions, as changes of the set of frames *)

(* The steps that a step may go on to. *)
Follow ==
    [processConnect |-> {"addSession", "onConnected", "registerRecv"},
     processDisconnect |-> {"onDisconnected", "releaseSession"},
     processRecv |-> {"disconnect", "onRecv", "afterRecv"},
     processSend |-> {"disconnect", "onSend", "resume"},
     disconnect |-> {"registerDisconnect"}, afterRecv |-> {"disconnect", "registerRecv"},
     registerRecv |-> {"wsaRecv"}, wsaRecv |-> {"disconnect", "undoRecv"},
     send |-> {"push"}, push |-> {"registerSend"}, registerSend |-> {"collect"},
     collect |-> {"wsaSend"}, wsaSend |-> {"disconnect", "undoSend"},
     undoSend |-> {"unregister"}, resume |-> {"registerSend", "unlock"},
     unregister |-> {}, unlock |-> {}, undoRecv |-> {}, registerDisconnect |-> {},
     addSession |-> {}, releaseSession |-> {},
     onConnected |-> {}, onRecv |-> {}, onSend |-> {}, onDisconnected |-> {}]

(* How much higher they may be. *)
Rise(l) ==
    IF l = "processConnect" THEN 2
    ELSE IF l \in {"processDisconnect", "processRecv", "processSend", "wsaRecv", "wsaSend", "resume"}
           THEN 1 ELSE 0

(* Thread t takes its step l on session s, whose frame gives way to N. *)
Took(t, s, l, N) ==
    /\ At(t, s, l) /\ l \in Steps
    /\ FramesOf(todo') = (Frames \ {Top(t)}) \cup N
    /\ \A n \in N : /\ n.session = s /\ n.thread = t /\ n.at \in Follow[l]
                    /\ n.depth \in Len(todo[t]) .. Len(todo[t]) + Rise(l)
                    /\ n.at = "push" => n.arg = Arg(t)
    /\ \A n, m \in N : n.at = m.at => n = m

LEMMA FrameFields ==
    ASSUME NEW t, NEW d, NEW a
    PROVE  /\ Frame(t, d, a).thread = t /\ Frame(t, d, a).depth = d
           /\ Frame(t, d, a).at = a.at /\ Frame(t, d, a).session = a.session
           /\ Frame(t, d, a).arg = a.arg
BY DEF Frame

LEMMA Lengths ==
    ASSUME NEW C, todo \in [Threads -> Seq(C)], NEW t \in Threads
    PROVE  Len(todo[t]) \in Nat /\ (todo[t] # <<>> => Len(todo[t]) >= 1)
OBVIOUS

(* No frame of a thread is above its top. *)
LEMMA TopHighest ==
    ASSUME NEW C, todo \in [Threads -> Seq(C)], NEW f \in Frames
    PROVE  /\ f.thread \in Threads /\ f.depth \in Nat /\ todo[f.thread] # <<>>
           /\ f.depth <= Len(todo[f.thread])
           /\ f.depth = Len(todo[f.thread]) => f = Top(f.thread)
<1>1. PICK t \in Threads : f \in FramesIn(t, todo[t])
  BY DEF Frames, FramesOf
<1>2. PICK i \in 1 .. Len(todo[t]) : f = Frame(t, Len(todo[t]) + 1 - i, todo[t][i])
  BY <1>1 DEF FramesIn
<1>3. f.thread = t /\ f.depth = Len(todo[t]) + 1 - i
  BY <1>2, FrameFields
<1>4. Len(todo[t]) \in Nat /\ i \in 1 .. Len(todo[t])
  BY Lengths
<1>5. f.depth \in Nat /\ f.depth <= Len(todo[t]) /\ (f.depth = Len(todo[t]) => i = 1)
  BY <1>3, <1>4
<1>6. todo[t] # <<>>
  BY <1>4
<1>7. i = 1 => f = Frame(t, Len(todo[t]), todo[t][1])
  <2>1. i = 1 => Len(todo[t]) + 1 - i = Len(todo[t])
    BY <1>4
  <2> QED
    BY <1>2, <2>1
<1> QED
  BY <1>3, <1>5, <1>6, <1>7 DEF Top

(* The frames below the top stay. *)
LEMMA FrameStays ==
    ASSUME NEW t, NEW s, NEW l, NEW N, Took(t, s, l, N), NEW f \in Frames, f.at # l
    PROVE  f \in Frames'
<1>1. Top(t).at = l
  BY FrameFields DEF Took, At, Top
<1> QED
  BY <1>1 DEF Took, Frames

LEMMA ThenTakes ==
    ASSUME NEW C, NEW D, todo \in [Threads -> Seq(C)], NEW t \in Threads, NEW s, NEW l \in Steps,
           At(t, s, l), NEW steps \in Seq(D), Then(t, steps), Len(steps) <= 1 + Rise(l),
           \A i \in 1 .. Len(steps) : /\ steps[i].session = s /\ steps[i].at \in Follow[l]
                                      /\ steps[i].at = "push" => steps[i].arg = Arg(t),
           \A i, j \in 1 .. Len(steps) : steps[i].at = steps[j].at => i = j
    PROVE  Took(t, s, l, Pushed(t, Len(todo[t]) - 1, steps))
<1> DEFINE N == Pushed(t, Len(todo[t]) - 1, steps)
           at(j) == Len(todo[t]) - 1 + Len(steps) + 1 - j
<1>1. FramesOf(todo') = (Frames \ {Top(t)}) \cup N
  BY ThenFrames DEF At
<1>2. Len(todo[t]) \in Nat /\ Len(todo[t]) >= 1 /\ Len(steps) \in Nat /\ Rise(l) \in Nat
  BY Lengths DEF At, Rise
<1>3. ASSUME NEW n \in N
      PROVE  \E j \in 1 .. Len(steps) : n = Frame(t, at(j), steps[j])
  BY DEF Pushed
<1>4. \A j \in 1 .. Len(steps) : at(j) \in Len(todo[t]) .. Len(todo[t]) + Rise(l)
  BY <1>2
<1> HIDE DEF N, at
<1>5. ASSUME NEW n \in N
      PROVE  /\ n.session = s /\ n.thread = t /\ n.at \in Follow[l]
             /\ n.depth \in Len(todo[t]) .. Len(todo[t]) + Rise(l)
             /\ n.at = "push" => n.arg = Arg(t)
  <2>1. PICK j \in 1 .. Len(steps) : n = Frame(t, at(j), steps[j])
    BY <1>3
  <2> QED
    BY <1>4, <2>1, FrameFields
<1>6. ASSUME NEW n \in N, NEW m \in N, n.at = m.at PROVE n = m
  <2>1. PICK j \in 1 .. Len(steps) : n = Frame(t, at(j), steps[j])
    BY <1>3
  <2>2. PICK i \in 1 .. Len(steps) : m = Frame(t, at(i), steps[i])
    BY <1>3
  <2>3. steps[j].at = steps[i].at
    BY <1>6, <2>1, <2>2, FrameFields
  <2> QED
    BY <2>1, <2>2, <2>3
<1> QED
  BY <1>1, <1>5, <1>6 DEF Took, N

LEMMA Takes0 ==
    ASSUME NEW C, todo \in [Threads -> Seq(C)], NEW t \in Threads, NEW s, NEW l \in Steps,
           At(t, s, l), Return(t)
    PROVE  Took(t, s, l, {})
<1>1. <<>> \in Seq({}) /\ Len(<<>>) = 0 /\ Len(<<>>) <= 1 + Rise(l) /\ 1 .. 0 = {}
  BY DEF Rise
<1>2. Took(t, s, l, Pushed(t, Len(todo[t]) - 1, <<>>))
  BY <1>1, ThenTakes DEF Return
<1> QED
  BY <1>2, Pushed0

LEMMA Takes1 ==
    ASSUME NEW C, todo \in [Threads -> Seq(C)], NEW t \in Threads, NEW s, NEW l \in Steps,
           At(t, s, l), NEW a, a.session = s, a.at \in Follow[l], a.at = "push" => a.arg = Arg(t),
           Then(t, <<a>>)
    PROVE  \E N : Took(t, s, l, N)
<1>1. /\ <<a>> \in Seq({a}) /\ Len(<<a>>) = 1 /\ Len(<<a>>) <= 1 + Rise(l)
      /\ \A i \in 1 .. Len(<<a>>) : i = 1 /\ <<a>>[i] = a
  BY DEF Rise
<1>2. Took(t, s, l, Pushed(t, Len(todo[t]) - 1, <<a>>))
  BY <1>1, ThenTakes
<1> QED
  BY <1>2

LEMMA Pair ==
    ASSUME NEW a, NEW b
    PROVE  /\ <<a, b>> \in Seq({a, b}) /\ Len(<<a, b>>) = 2
           /\ <<a, b>>[1] = a /\ <<a, b>>[2] = b
           /\ \A i \in 1 .. Len(<<a, b>>) : i = 1 \/ i = 2
OBVIOUS

LEMMA Takes2 ==
    ASSUME NEW C, todo \in [Threads -> Seq(C)], NEW t \in Threads, NEW s, NEW l \in Steps,
           At(t, s, l), NEW a, a.session = s, a.at \in Follow[l], a.at # "push",
           NEW b, b.session = s, b.at \in Follow[l], b.at # "push", a.at # b.at,
           Rise(l) = 1 \/ Rise(l) = 2, Then(t, <<a, b>>)
    PROVE  \E N : Took(t, s, l, N)
<1> DEFINE p == <<a, b>>
<1>1. /\ p \in Seq({a, b}) /\ Len(p) = 2 /\ p[1] = a /\ p[2] = b
      /\ \A i \in 1 .. Len(p) : i = 1 \/ i = 2
  BY Pair
<1>2. Then(t, p)
  OBVIOUS
<1> HIDE DEF p
<1>3. Len(p) <= 1 + Rise(l)
  BY <1>1
<1>4. \A i \in 1 .. Len(p) : p[i].session = s /\ p[i].at \in Follow[l] /\ p[i].at # "push"
  BY <1>1
<1>5. \A i, j \in 1 .. Len(p) : p[i].at = p[j].at => i = j
  BY <1>1
<1>6. Took(t, s, l, Pushed(t, Len(todo[t]) - 1, p))
  BY <1>1, <1>2, <1>3, <1>4, <1>5, ThenTakes
<1> QED
  BY <1>6

(* The same for the calls of Step. *)
LEMMA TakesOne ==
    ASSUME NEW C, todo \in [Threads -> Seq(C)], NEW t \in Threads, NEW s, NEW l \in Steps,
           At(t, s, l), NEW k, k \in Follow[l], k # "push", Then(t, <<Step(k, s)>>)
    PROVE  \E N : Took(t, s, l, N)
<1> DEFINE a == Step(k, s)
<1>1. a.session = s /\ a.at = k
  BY StepIs
<1>2. Then(t, <<a>>)
  OBVIOUS
<1> HIDE DEF a
<1> QED
  BY <1>1, <1>2, Takes1

LEMMA TakesTwo ==
    ASSUME NEW C, todo \in [Threads -> Seq(C)], NEW t \in Threads, NEW s, NEW l \in Steps,
           At(t, s, l), NEW j, j \in Follow[l], j # "push", NEW k, k \in Follow[l], k # "push",
           j # k, Rise(l) = 1, Then(t, <<Step(j, s), Step(k, s)>>)
    PROVE  \E N : Took(t, s, l, N)
<1> DEFINE a == Step(j, s)  b == Step(k, s)
<1>1. a.session = s /\ a.at = j /\ b.session = s /\ b.at = k
  BY StepIs
<1>2. Then(t, <<a, b>>)
  OBVIOUS
<1> HIDE DEF a, b
<1> QED
  BY <1>1, <1>2, Takes2

(* What the steps do to the sessions, as far as it matters here. *)
Issuing ==
    [connect |-> "nothing", recv |-> "wsaRecv", send |-> "wsaSend",
     disconnect |-> "registerDisconnect"]

Turned(t, s, l) ==
    /\ connected' = (connected \cup (IF l = "processConnect" THEN {s} ELSE {}))
                      \ (IF l = "disconnect" THEN {s} ELSE {})
    /\ unsent' = unsent
    /\ \A r \in Sessions, k \in Kinds : op'[r][k] = op[r][k] \/ (r = s /\ l = Issuing[k])
    /\ accepted' = IF l = "push" THEN [accepted EXCEPT ![s] = Append(@, Arg(t))] ELSE accepted

(* Only the call of Disconnect that finds the session connected goes on, and
   a session is connected just before it is added. *)
Turn(t, s, l, N) ==
    /\ Took(t, s, l, N) /\ Turned(t, s, l)
    /\ l = "disconnect" /\ s \notin connected => N = {}
    /\ l = "processConnect" =>
         \E f \in N : /\ f.at = "addSession"
                      /\ \A g \in N \ {f} : Under(g, f) /\ g.at \in {"onConnected", "registerRecv"}

LEMMA OpPending ==
    ASSUME op \in [Sessions -> [Kinds -> {"idle", "pending", "ok", "zero"}]],
           NEW s \in Sessions, NEW k \in Kinds, NEW x, op' = [op EXCEPT ![s][k] = x]
    PROVE  /\ \A r \in Sessions, j \in Kinds : op'[r][j] = op[r][j] \/ (r = s /\ j = k)
           /\ op'[s][k] = x
<1>1. PICK o : o = op'
  OBVIOUS
<1>2. \A r \in Sessions : r # s => o[r] = op[r]
  BY <1>1
<1>3. o[s] = [op[s] EXCEPT ![k] = x] /\ op[s] \in [Kinds -> {"idle", "pending", "ok", "zero"}]
  BY <1>1
<1>4. o[s][k] = x /\ \A j \in Kinds : j # k => o[s][j] = op[s][j]
  BY <1>3
<1> QED
  BY <1>1, <1>2, <1>4

LEMMA IssueTurns ==
    ASSUME op \in [Sessions -> [Kinds -> {"idle", "pending", "ok", "zero"}]],
           NEW t, NEW s \in Sessions, NEW k \in Kinds, NEW undo, Issue(t, s, k, undo)
    PROVE  \A r \in Sessions, j \in Kinds : op'[r][j] = op[r][j] \/ (r = s /\ Issuing[k] = Issuing[j])
<1>1. CASE op' = [op EXCEPT ![s][k] = "pending"]
  BY <1>1, OpPending
<1>2. CASE UNCHANGED op
  BY <1>2
<1> QED
  BY <1>1, <1>2 DEF Issue

(* A step that is neither a connect nor a disconnect nor a push. *)
LEMMA TurnIs ==
    ASSUME NEW t, NEW s, NEW l, l \notin {"processConnect", "disconnect", "push"},
           \E N : Took(t, s, l, N),
           UNCHANGED <<connected, unsent, accepted>>,
           \A r \in Sessions, k \in Kinds : op'[r][k] = op[r][k] \/ (r = s /\ l = Issuing[k])
    PROVE  \E N : Turn(t, s, l, N)
<1>1. Turned(t, s, l)
  BY DEF Turned
<1> QED
  BY <1>1 DEF Turn

LEMMA ConnectTurns ==
    ASSUME NEW C, SessionState(C), NEW t \in Threads, NEW s \in Sessions, ProcessConnect(t, s)
    PROVE  \E N : Turn(t, s, "processConnect", N)
<1> DEFINE a == Step("addSession", s)  b == Step("onConnected", s)  c == Step("registerRecv", s)
           p == <<a, b, c>>  n == Len(todo[t])
           N == {Frame(t, n + 2, a), Frame(t, n + 1, b), Frame(t, n, c)}
<1>1. /\ a.session = s /\ a.at = "addSession" /\ b.session = s /\ b.at = "onConnected"
      /\ c.session = s /\ c.at = "registerRecv"
  BY StepIs
<1>2. At(t, s, "processConnect") /\ todo \in [Threads -> Seq(C)]
  BY DEF ProcessConnect, SessionState
<1>3. n \in Nat /\ n - 1 \in Int /\ n - 1 + 1 = n /\ n - 1 + 2 = n + 1 /\ n - 1 + 3 = n + 2
      /\ todo[t] # <<>>
  BY <1>2, TopIs
<1>4. p \in Seq({a, b, c}) /\ Then(t, p)
  BY DEF ProcessConnect
<1>5. Pushed(t, n - 1, p) = N
  BY <1>3, Pushed3
<1> HIDE DEF p
<1>6. FramesOf(todo') = (Frames \ {Top(t)}) \cup N
  BY <1>2, <1>3, <1>4, <1>5, ThenFrames
<1> HIDE DEF a, b, c, n
<1>7. /\ Frame(t, n + 2, a).at = "addSession" /\ Frame(t, n + 2, a).depth = n + 2
      /\ Frame(t, n + 1, b).at = "onConnected" /\ Frame(t, n + 1, b).depth = n + 1
      /\ Frame(t, n, c).at = "registerRecv" /\ Frame(t, n, c).depth = n
      /\ \A f \in N : f.session = s /\ f.thread = t
  BY <1>1, FrameFields
<1>8. Took(t, s, "processConnect", N)
  <2>1. n + 2 \in n .. n + 2 /\ n + 1 \in n .. n + 2 /\ n \in n .. n + 2
    BY <1>3
  <2>2. "processConnect" \in Steps /\ Rise("processConnect") = 2
        /\ Follow["processConnect"] = {"addSession", "onConnected", "registerRecv"}
    BY DEF Steps, Rise, Follow
  <2> QED
    BY <1>2, <1>6, <1>7, <2>1, <2>2 DEF Took, n
<1>9. \E f \in N : /\ f.at = "addSession"
                   /\ \A g \in N \ {f} : Under(g, f) /\ g.at \in {"onConnected", "registerRecv"}
  <2>1. \A g \in N \ {Frame(t, n + 2, a)} : /\ Under(g, Frame(t, n + 2, a))
                                            /\ g.at \in {"onConnected", "registerRecv"}
    BY <1>3, <1>7 DEF Under
  <2> QED
    BY <1>7, <2>1
<1>10. Turned(t, s, "processConnect")
  <2>1. connected' = (connected \cup {s}) \ {} /\ UNCHANGED <<op, unsent, accepted>>
    BY DEF ProcessConnect, SendVars, UserVars
  <2> QED
    BY <2>1 DEF Turned
<1> HIDE DEF N
<1> QED
  BY <1>8, <1>9, <1>10 DEF Turn

LEMMA DisconnectTurns ==
    ASSUME NEW C, SessionState(C), NEW t \in Threads, NEW s \in Sessions, Disconnect(t, s)
    PROVE  \E N : Turn(t, s, "disconnect", N)
<1>1. /\ At(t, s, "disconnect") /\ todo \in [Threads -> Seq(C)]
      /\ UNCHANGED <<op, unsent, accepted>>
      /\ connected' = (connected \cup {}) \ {s}
  BY DEF Disconnect, SessionState, SendVars, UserVars
<1>2. Turned(t, s, "disconnect")
  BY <1>1 DEF Turned
<1>3. "disconnect" \in Steps /\ "registerDisconnect" \in Follow["disconnect"]
  BY DEF Steps, Follow
<1>4. CASE s \in connected
  <2>1. \E N : Took(t, s, "disconnect", N)
    BY <1>1, <1>3, <1>4, TakesOne DEF Disconnect
  <2> QED
    BY <1>2, <1>4, <2>1 DEF Turn
<1>5. CASE s \notin connected
  <2>1. Took(t, s, "disconnect", {})
    BY <1>1, <1>3, <1>5, Takes0 DEF Disconnect, Return
  <2> QED
    BY <1>2, <2>1 DEF Turn
<1> QED
  BY <1>4, <1>5

LEMMA PushTurns ==
    ASSUME NEW C, SessionState(C), NEW t \in Threads, NEW s \in Sessions, Push(t, s)
    PROVE  \E N : Turn(t, s, "push", N)
<1>1. /\ At(t, s, "push") /\ todo \in [Threads -> Seq(C)]
      /\ UNCHANGED <<connected, op, unsent>>
      /\ accepted' = [accepted EXCEPT ![s] = Append(@, Arg(t))]
  BY DEF Push, SessionState, UserVars
<1>2. connected' = (connected \cup {}) \ {}
  BY <1>1
<1>3. Turned(t, s, "push")
  BY <1>1, <1>2 DEF Turned
<1>4. "push" \in Steps /\ "registerSend" \in Follow["push"]
  BY DEF Steps, Follow
<1>5. \E N : Took(t, s, "push", N)
  <2>1. CASE s \in registered
    BY <1>1, <1>4, <2>1, Takes0 DEF Push, Return
  <2>2. CASE s \notin registered
    BY <1>1, <1>4, <2>2, TakesOne DEF Push
  <2> QED
    BY <2>1, <2>2
<1> QED
  BY <1>3, <1>5 DEF Turn

LEMMA SendTurns ==
    ASSUME NEW C, SessionState(C), NEW t \in Threads, NEW s \in Sessions, Send(t, s)
    PROVE  \E N : Turn(t, s, "send", N)
<1>1. /\ At(t, s, "send") /\ todo \in [Threads -> Seq(C)]
      /\ UNCHANGED <<connected, op, unsent, accepted>>
  BY DEF Send, SessionState, UserVars, SendVars
<1>2. "send" \in Steps /\ "push" \in Follow["send"]
  BY DEF Steps, Follow
<1>3. CASE s \in connected
  <2> DEFINE a == With("push", s, Arg(t))
  <2>1. a.session = s /\ a.at = "push" /\ a.arg = Arg(t)
    BY DEF With
  <2>2. Then(t, <<a>>)
    BY <1>3 DEF Send
  <2> HIDE DEF a
  <2>3. \E N : Took(t, s, "send", N)
    BY <1>1, <1>2, <2>1, <2>2, Takes1
  <2> QED
    BY <1>1, <2>3, TurnIs
<1>4. CASE s \notin connected
  <2>1. Took(t, s, "send", {})
    BY <1>1, <1>2, <1>4, Takes0 DEF Send, Return
  <2> QED
    BY <1>1, <2>1, TurnIs
<1> QED
  BY <1>3, <1>4

(* The steps that are not the service's. *)
Own == Steps \ {"addSession", "releaseSession"}

(* The other steps, by how many calls they may go on to. *)
LEMMA ReturningTurns ==
    ASSUME NEW C, SessionState(C), NEW t \in Threads, NEW s \in Sessions,
           NEW l \in Own \ {"processConnect", "disconnect", "push"},
           At(t, s, l), UNCHANGED <<connected, unsent, accepted>>,
           \A r \in Sessions, k \in Kinds : op'[r][k] = op[r][k] \/ (r = s /\ l = Issuing[k]),
           \/ Return(t)
           \/ \E k \in Follow[l] : k # "push" /\ Then(t, <<Step(k, s)>>)
           \/ Rise(l) = 1 /\ \E j, k \in Follow[l] :
                 j # "push" /\ k # "push" /\ j # k /\ Then(t, <<Step(j, s), Step(k, s)>>)
    PROVE  \E N : Turn(t, s, l, N)
<1>1. todo \in [Threads -> Seq(C)] /\ l \in Steps
  BY DEF SessionState, Own
<1>2. CASE Return(t)
  BY <1>1, <1>2, Takes0, TurnIs
<1>3. ASSUME NEW k \in Follow[l], k # "push", Then(t, <<Step(k, s)>>)
      PROVE  \E N : Turn(t, s, l, N)
  BY <1>1, <1>3, TakesOne, TurnIs
<1>4. ASSUME Rise(l) = 1, NEW j \in Follow[l], NEW k \in Follow[l], j # "push", k # "push", j # k,
             Then(t, <<Step(j, s), Step(k, s)>>)
      PROVE  \E N : Turn(t, s, l, N)
  BY <1>1, <1>4, TakesTwo, TurnIs
<1> QED
  BY <1>2, <1>3, <1>4

LEMMA RecvTurns ==
    ASSUME NEW C, SessionState(C), NEW t \in Threads, NEW s \in Sessions,
           ProcessRecv(t, s) \/ AfterRecv(t, s) \/ RegisterRecv(t, s) \/ WSARecv(t, s) \/ UndoRecv(t, s)
    PROVE  \E l \in Own : \E N : Turn(t, s, l, N)
<1> USE DEF SendVars, UserVars
<1>1. /\ Follow["processRecv"] = {"disconnect", "onRecv", "afterRecv"} /\ Rise("processRecv") = 1
      /\ Follow["afterRecv"] = {"disconnect", "registerRecv"}
      /\ Follow["registerRecv"] = {"wsaRecv"}
      /\ Follow["wsaRecv"] = {"disconnect", "undoRecv"} /\ Rise("wsaRecv") = 1
      /\ Issuing["recv"] = "wsaRecv"
  BY DEF Follow, Rise, Issuing
<1>2. /\ "processRecv" \in Own \ {"processConnect", "disconnect", "push"}
      /\ "afterRecv" \in Own \ {"processConnect", "disconnect", "push"}
      /\ "registerRecv" \in Own \ {"processConnect", "disconnect", "push"}
      /\ "wsaRecv" \in Own \ {"processConnect", "disconnect", "push"}
      /\ "undoRecv" \in Own \ {"processConnect", "disconnect", "push"}
  BY DEF Own, Steps
<1>3. CASE ProcessRecv(t, s)
  <2>1. /\ At(t, s, "processRecv") /\ UNCHANGED <<connected, unsent, accepted, op>>
        /\ \/ Then(t, <<Step("disconnect", s)>>)
           \/ Then(t, <<Step("onRecv", s), Step("afterRecv", s)>>)
    BY <1>3 DEF ProcessRecv
  <2> QED
    BY <1>1, <1>2, <2>1, ReturningTurns
<1>4. CASE AfterRecv(t, s)
  <2>1. /\ At(t, s, "afterRecv") /\ UNCHANGED <<connected, unsent, accepted, op>>
        /\ Then(t, <<Step("disconnect", s)>>) \/ Then(t, <<Step("registerRecv", s)>>)
    BY <1>4 DEF AfterRecv
  <2> QED
    BY <1>1, <1>2, <2>1, ReturningTurns
<1>5. CASE RegisterRecv(t, s)
  <2>1. /\ At(t, s, "registerRecv") /\ UNCHANGED <<connected, unsent, accepted, op>>
        /\ Return(t) \/ Then(t, <<Step("wsaRecv", s)>>)
    BY <1>5 DEF RegisterRecv, Register
  <2> QED
    BY <1>1, <1>2, <2>1, ReturningTurns
<1>6. CASE WSARecv(t, s)
  <2>1. /\ At(t, s, "wsaRecv") /\ UNCHANGED <<connected, unsent, accepted>>
        /\ \/ Return(t)
           \/ Then(t, <<Step("disconnect", s), Step("undoRecv", s)>>)
           \/ Then(t, <<Step("undoRecv", s)>>)
    BY <1>6 DEF WSARecv, Issue
  <2>2. \A r \in Sessions, j \in Kinds : op'[r][j] = op[r][j] \/ (r = s /\ "wsaRecv" = Issuing[j])
    <3>1. /\ Issue(t, s, "recv", "undoRecv") /\ "recv" \in Kinds
          /\ op \in [Sessions -> [Kinds -> {"idle", "pending", "ok", "zero"}]]
      BY <1>6 DEF WSARecv, SessionState, SessionTypes, Kinds
    <3> QED
      BY <1>1, <3>1, IssueTurns
  <2> QED
    BY <1>1, <1>2, <2>1, <2>2, ReturningTurns
<1>7. CASE UndoRecv(t, s)
  <2>1. At(t, s, "undoRecv") /\ UNCHANGED <<connected, unsent, accepted, op>> /\ Return(t)
    BY <1>7 DEF UndoRecv
  <2> QED
    BY <1>2, <2>1, ReturningTurns
<1> QED
  BY <1>3, <1>4, <1>5, <1>6, <1>7

LEMMA SendSideTurns ==
    ASSUME NEW C, SessionState(C), NEW t \in Threads, NEW s \in Sessions,
           \/ RegisterSend(t, s) \/ Collect(t, s) \/ WSASend(t, s) \/ UndoSend(t, s)
           \/ Unregister(t, s) \/ ProcessSend(t, s) \/ Resume(t, s) \/ Unlock(t, s)
    PROVE  \E l \in Own : \E N : Turn(t, s, l, N)
<1> USE DEF SendVars, UserVars
<1>1. /\ Follow["registerSend"] = {"collect"} /\ Follow["collect"] = {"wsaSend"}
      /\ Follow["wsaSend"] = {"disconnect", "undoSend"} /\ Rise("wsaSend") = 1
      /\ Follow["undoSend"] = {"unregister"}
      /\ Follow["processSend"] = {"disconnect", "onSend", "resume"} /\ Rise("processSend") = 1
      /\ Follow["resume"] = {"registerSend", "unlock"} /\ Rise("resume") = 1
      /\ Issuing["send"] = "wsaSend"
  BY DEF Follow, Rise, Issuing
<1>2. \A l \in {"registerSend", "collect", "wsaSend", "undoSend", "unregister", "processSend",
                "resume", "unlock"} : l \in Own \ {"processConnect", "disconnect", "push"}
  BY DEF Own, Steps
<1>3. CASE RegisterSend(t, s)
  <2>1. /\ At(t, s, "registerSend") /\ UNCHANGED <<connected, unsent, accepted, op>>
        /\ Return(t) \/ Then(t, <<Step("collect", s)>>)
    BY <1>3 DEF RegisterSend, Register
  <2> QED
    BY <1>1, <1>2, <2>1, ReturningTurns
<1>4. CASE Collect(t, s)
  <2>1. /\ At(t, s, "collect") /\ UNCHANGED <<connected, unsent, accepted, op>>
        /\ Then(t, <<Step("wsaSend", s)>>)
    BY <1>4 DEF Collect
  <2> QED
    BY <1>1, <1>2, <2>1, ReturningTurns
<1>5. CASE WSASend(t, s)
  <2>1. /\ At(t, s, "wsaSend") /\ UNCHANGED <<connected, unsent, accepted>>
        /\ \/ Return(t)
           \/ Then(t, <<Step("disconnect", s), Step("undoSend", s)>>)
           \/ Then(t, <<Step("undoSend", s)>>)
    BY <1>5 DEF WSASend, Issue
  <2>2. \A r \in Sessions, j \in Kinds : op'[r][j] = op[r][j] \/ (r = s /\ "wsaSend" = Issuing[j])
    <3>1. /\ Issue(t, s, "send", "undoSend") /\ "send" \in Kinds
          /\ op \in [Sessions -> [Kinds -> {"idle", "pending", "ok", "zero"}]]
      BY <1>5 DEF WSASend, SessionState, SessionTypes, Kinds
    <3> QED
      BY <1>1, <3>1, IssueTurns
  <2> QED
    BY <1>1, <1>2, <2>1, <2>2, ReturningTurns
<1>6. CASE UndoSend(t, s)
  <2>1. /\ At(t, s, "undoSend") /\ UNCHANGED <<connected, unsent, accepted, op>>
        /\ Then(t, <<Step("unregister", s)>>)
    BY <1>6 DEF UndoSend
  <2> QED
    BY <1>1, <1>2, <2>1, ReturningTurns
<1>7. CASE Unregister(t, s)
  <2>1. At(t, s, "unregister") /\ UNCHANGED <<connected, unsent, accepted, op>> /\ Return(t)
    BY <1>7 DEF Unregister
  <2> QED
    BY <1>2, <2>1, ReturningTurns
<1>8. CASE ProcessSend(t, s)
  <2>1. /\ At(t, s, "processSend") /\ UNCHANGED <<connected, unsent, accepted, op>>
        /\ \/ Then(t, <<Step("disconnect", s)>>)
           \/ Then(t, <<Step("onSend", s), Step("resume", s)>>)
    BY <1>8 DEF ProcessSend
  <2> QED
    BY <1>1, <1>2, <2>1, ReturningTurns
<1>9. CASE Resume(t, s)
  <2>1. /\ At(t, s, "resume") /\ UNCHANGED <<connected, unsent, accepted, op>>
        /\ Return(t) \/ Then(t, <<Step("registerSend", s), Step("unlock", s)>>)
    BY <1>9 DEF Resume
  <2> QED
    BY <1>1, <1>2, <2>1, ReturningTurns
<1>10. CASE Unlock(t, s)
  <2>1. At(t, s, "unlock") /\ UNCHANGED <<connected, unsent, accepted, op>> /\ Return(t)
    BY <1>10 DEF Unlock
  <2> QED
    BY <1>2, <2>1, ReturningTurns
<1> QED
  BY <1>3, <1>4, <1>5, <1>6, <1>7, <1>8, <1>9, <1>10

LEMMA EndTurns ==
    ASSUME NEW C, SessionState(C), NEW t \in Threads, NEW s \in Sessions,
           ProcessDisconnect(t, s) \/ RegisterDisconnect(t, s)
    PROVE  \E l \in Own : \E N : Turn(t, s, l, N)
<1> USE DEF SendVars, UserVars
<1>1. /\ Follow["processDisconnect"] = {"onDisconnected", "releaseSession"}
      /\ Rise("processDisconnect") = 1 /\ Issuing["disconnect"] = "registerDisconnect"
  BY DEF Follow, Rise, Issuing
<1>2. \A l \in {"processDisconnect", "registerDisconnect"} :
         l \in Own \ {"processConnect", "disconnect", "push"}
  BY DEF Own, Steps
<1>3. CASE ProcessDisconnect(t, s)
  <2>1. /\ At(t, s, "processDisconnect") /\ UNCHANGED <<connected, unsent, accepted, op>>
        /\ Then(t, <<Step("onDisconnected", s), Step("releaseSession", s)>>)
    BY <1>3 DEF ProcessDisconnect
  <2> QED
    BY <1>1, <1>2, <2>1, ReturningTurns
<1>4. CASE RegisterDisconnect(t, s)
  <2>1. /\ At(t, s, "registerDisconnect") /\ UNCHANGED <<connected, unsent, accepted>> /\ Return(t)
        /\ op' = op \/ op' = [op EXCEPT ![s]["disconnect"] = "pending"]
    BY <1>4 DEF RegisterDisconnect
  <2>2. \A r \in Sessions, j \in Kinds :
           op'[r][j] = op[r][j] \/ (r = s /\ "registerDisconnect" = Issuing[j])
    BY <1>1, <2>1, OpPending DEF SessionState, SessionTypes, Kinds
  <2> QED
    BY <1>2, <2>1, <2>2, ReturningTurns
<1> QED
  BY <1>3, <1>4

LEMMA StepTurns ==
    ASSUME NEW C, SessionState(C), NEW t \in Threads, NEW s \in Sessions, SessionStep(t, s)
    PROVE  (\E l \in Own : \E N : Turn(t, s, l, N)) /\ UNCHANGED known
<1>1. "processConnect" \in Own /\ "disconnect" \in Own /\ "push" \in Own /\ "send" \in Own
  BY DEF Own, Steps
<1>2. \E l \in Own : \E N : Turn(t, s, l, N)
  BY <1>1, ConnectTurns, DisconnectTurns, PushTurns, SendTurns, RecvTurns, SendSideTurns, EndTurns
     DEF SessionStep
<1>3. UNCHANGED known
  BY DEF SessionStep, ProcessConnect, ProcessDisconnect, Disconnect, RegisterDisconnect, ProcessRecv,
         AfterRecv, RegisterRecv, WSARecv, UndoRecv, Send, Push, RegisterSend, Collect, WSASend,
         UndoSend, Unregister, ProcessSend, Resume, Unlock, UserVars
<1> QED
  BY <1>2, <1>3

LEMMA AddTurns ==
    ASSUME NEW C, SessionState(C), NEW t \in Threads, NEW s \in Sessions, AddSession(t, s)
    PROVE  Turn(t, s, "addSession", {})
<1>1. /\ At(t, s, "addSession") /\ UNCHANGED <<connected, unsent, accepted, op>> /\ Return(t)
  BY DEF AddSession, SendVars
<1>2. Turned(t, s, "addSession")
  BY <1>1 DEF Turned
<1>3. "addSession" \in Steps /\ todo \in [Threads -> Seq(C)]
  BY DEF Steps, SessionState
<1> QED
  BY <1>1, <1>2, <1>3, Takes0 DEF Turn

LEMMA ReleaseTurns ==
    ASSUME NEW C, SessionState(C), NEW t \in Threads, NEW s \in Sessions, ReleaseSession(t, s)
    PROVE  Turn(t, s, "releaseSession", {}) /\ UNCHANGED known
<1>1. /\ At(t, s, "releaseSession") /\ UNCHANGED <<connected, unsent, accepted, op>> /\ Return(t)
      /\ UNCHANGED known
  BY DEF ReleaseSession, SendVars, UserVars
<1>2. Turned(t, s, "releaseSession")
  BY <1>1 DEF Turned
<1>3. "releaseSession" \in Steps /\ todo \in [Threads -> Seq(C)]
  BY DEF Steps, SessionState
<1> QED
  BY <1>1, <1>2, <1>3, Takes0 DEF Turn

LEMMA CallbackTurns ==
    ASSUME NEW C, SessionState(C), \A c \in C : c.at \in Steps => c.session \in Sessions,
           NEW t \in Threads, CallbackReturns(t)
    PROVE  /\ \E s \in Sessions, l \in Callbacks : Turn(t, s, l, {})
           /\ UNCHANGED known
<1> DEFINE c == todo[t][1]
<1>1. /\ todo \in [Threads -> Seq(C)] /\ todo[t] # <<>> /\ c.at \in Callbacks /\ Return(t)
      /\ UNCHANGED <<connected, unsent, accepted, op, known>>
  BY DEF CallbackReturns, SessionState, SendVars, UserVars
<1>2. c \in C
  BY <1>1
<1>3. c.at \in Steps \ {"processConnect", "disconnect", "push"}
  BY <1>1 DEF Callbacks, Steps
<1>4. c.session \in Sessions /\ At(t, c.session, c.at)
  BY <1>1, <1>2, <1>3 DEF At
<1>5. Took(t, c.session, c.at, {})
  BY <1>1, <1>3, <1>4, Takes0
<1>6. Turned(t, c.session, c.at)
  BY <1>1, <1>3 DEF Turned
<1>7. Turn(t, c.session, c.at, {})
  BY <1>3, <1>5, <1>6 DEF Turn
<1> QED
  BY <1>1, <1>4, <1>7
------------------------------------------------------------------------------
(* The steps of the sessions keep the invariant *)

LEMMA FollowSteps ==
    /\ Steps \cap Marks = {}
    /\ \A l \in Steps : /\ Follow[l] \subseteq Steps
                        /\ "send" \notin Follow[l]
                        /\ "push" \in Follow[l] => l = "send"
                        /\ "addSession" \in Follow[l] => l = "processConnect"
                        /\ "processConnect" \notin Follow[l] /\ "processDisconnect" \notin Follow[l]
                        /\ "registerDisconnect" \in Follow[l] => l = "disconnect"
                        /\ "releaseSession" \in Follow[l] => l = "processDisconnect"
<1>1. Steps \cap Marks = {}
  BY DEF Steps, Marks, Callbacks
<1>2. ASSUME NEW l \in Steps
      PROVE  /\ Follow[l] \subseteq Steps
             /\ "send" \notin Follow[l]
             /\ "push" \in Follow[l] => l = "send"
             /\ "addSession" \in Follow[l] => l = "processConnect"
             /\ "processConnect" \notin Follow[l] /\ "processDisconnect" \notin Follow[l]
             /\ "registerDisconnect" \in Follow[l] => l = "disconnect"
             /\ "releaseSession" \in Follow[l] => l = "processDisconnect"
  BY DEF Steps, Follow, Callbacks
<1> QED
  BY <1>1, <1>2

(* The frame that a step takes away, and those it puts in its place. *)
LEMMA TurnFrames ==
    ASSUME NEW C, todo \in [Threads -> Seq(C)], NEW t \in Threads, NEW s, NEW l, NEW N,
           Took(t, s, l, N)
    PROVE  /\ l \in Steps /\ Top(t) \in Frames /\ Frames' = (Frames \ {Top(t)}) \cup N
           /\ Top(t).thread = t /\ Top(t).session = s /\ Top(t).at = l /\ Top(t).depth = Len(todo[t])
           /\ Top(t).arg = Arg(t)
           /\ \A n \in N : /\ n.session = s /\ n.thread = t /\ n.at \in Follow[l]
                           /\ n.depth \in Nat /\ n.depth >= Top(t).depth
                           /\ n.depth <= Top(t).depth + Rise(l)
                           /\ n.at = "push" => n.arg = Top(t).arg
           /\ \A n, m \in N : n.at = m.at => n = m
<1>1. At(t, s, l) /\ l \in Steps /\ Frames' = (Frames \ {Top(t)}) \cup N
  BY DEF Took, Frames
<1>2. todo[t] # <<>> /\ Len(todo[t]) \in Nat
  BY <1>1, TopIs
<1>3. /\ Top(t).thread = t /\ Top(t).session = s /\ Top(t).at = l /\ Top(t).depth = Len(todo[t])
      /\ Top(t).arg = Arg(t)
  BY <1>1, FrameFields DEF Top, At, Arg
<1>4. Top(t) \in Frames
  <2>1. Top(t) \in FramesIn(t, todo[t])
    BY <1>2, TopFrame DEF Top
  <2> QED
    BY <2>1 DEF Frames, FramesOf
<1>5. Rise(l) \in Nat
  BY DEF Rise
<1>6. ASSUME NEW n \in N
      PROVE  /\ n.session = s /\ n.thread = t /\ n.at \in Follow[l]
             /\ n.depth \in Nat /\ n.depth >= Top(t).depth /\ n.depth <= Top(t).depth + Rise(l)
             /\ n.at = "push" => n.arg = Top(t).arg
  BY <1>2, <1>3, <1>5 DEF Took
<1> QED
  BY <1>1, <1>3, <1>4, <1>6 DEF Took

(* No frame is above the one that is taken away. *)
LEMMA TopIsTop ==
    ASSUME NEW C, todo \in [Threads -> Seq(C)], NEW t \in Threads,
           Top(t).thread = t, Top(t).depth = Len(todo[t]), NEW f \in Frames
    PROVE  ~Under(Top(t), f)
<1>1. f.thread = t => f.depth <= Len(todo[t]) /\ f.depth \in Nat
  BY TopHighest
<1> QED
  BY <1>1, Lengths DEF Under

LEMMA LockKept ==
    ASSUME NEW C, todo \in [Threads -> Seq(C)], LockHeld, NEW t \in Threads, NEW s, NEW l, NEW N,
           Took(t, s, l, N), UNCHANGED serviceLock
    PROVE  LockHeld'
<1>1. Frames' = (Frames \ {Top(t)}) \cup N /\ \A n \in N : n.at \notin Marks
  BY TurnFrames, FollowSteps
<1> QED
  BY <1>1 DEF LockHeld

LEMMA ClosingKept ==
    ASSUME NEW C, todo \in [Threads -> Seq(C)], Closing,
           NEW t \in Threads, NEW s, NEW l, NEW N, Turn(t, s, l, N),
           sessions' \subseteq sessions \/ \A e \in Frames : e.at \notin Marks,
           l = "processConnect" => s \notin sessions
    PROVE  Closing'
<1>1. Took(t, s, l, N) /\ Turned(t, s, l)
  BY DEF Turn
<1>2. /\ Frames' = (Frames \ {Top(t)}) \cup N /\ \A n \in N : n.at \notin Marks
      /\ Top(t).session = s /\ Top(t).at = l
  BY <1>1, TurnFrames, FollowSteps
<1> SUFFICES ASSUME NEW e \in Frames', e.at = "clearSessions",
                    NEW r \in sessions', r \in connected'
             PROVE  \E g \in Mine(r)' : g.at = "disconnect" /\ Under(e, g)
  BY DEF Closing, Under
<1>3. e \in Frames /\ e.at \in Marks
  BY <1>2 DEF Marks
<1>4. r \in sessions /\ r \in connected
  BY <1>1, <1>3 DEF Turned
<1>5. PICK g \in Mine(r) : g.at = "disconnect" /\ Under(e, g)
  BY <1>3, <1>4 DEF Closing
<1>6. g # Top(t)
  BY <1>1, <1>2, <1>5 DEF Turned, Mine, On
<1> QED
  BY <1>2, <1>5, <1>6 DEF Mine, On

(* Only its connect can be under way for a session that is not added yet. *)
LEMMA NotKnown ==
    ASSUME NEW C, todo \in [Threads -> Seq(C)], NEW t \in Threads, NEW s, NEW l, NEW N,
           Took(t, s, l, N), Entering(s), s \notin known
    PROVE  l \in {"processConnect", "addSession"}
<1>1. Top(t) \in Mine(s) /\ Top(t).at = l /\ Top(t).thread = t /\ Top(t).depth = Len(todo[t])
  BY TurnFrames DEF Mine, On
<1>2. \A f \in Mine(s) : ~Under(Top(t), f)
  BY <1>1, TopIsTop DEF Mine, On
<1> QED
  BY <1>1, <1>2 DEF Entering

LEMMA EnteringSame ==
    ASSUME NEW r \in Sessions, Entering(r), Mine(r)' = Mine(r), r \in known' <=> r \in known,
           r \in connected' <=> r \in connected,
           \A k \in {"recv", "send", "disconnect"} : op'[r][k] = "idle" <=> op[r][k] = "idle"
    PROVE  Entering(r)'
<1>1. Some(r, {"addSession"})' <=> Some(r, {"addSession"})
  BY DEF Some
<1> QED
  BY <1>1 DEF Entering, Under

LEMMA EnteringKept ==
    ASSUME NEW C, todo \in [Threads -> Seq(C)], SessionsOK, NEW t \in Threads, NEW s \in Sessions,
           NEW l, NEW N, Turn(t, s, l, N), \A r \in Sessions : Entering(r),
           known' = known \cup (IF l = "addSession" THEN {s} ELSE {})
    PROVE  \A r \in Sessions : Entering(r)'
<1>1. Took(t, s, l, N) /\ Turned(t, s, l)
  BY DEF Turn
<1>2. /\ Frames' = (Frames \ {Top(t)}) \cup N /\ l \in Steps /\ Top(t) \in Frames
      /\ Top(t).session = s /\ Top(t).at = l /\ Top(t).thread = t /\ Top(t).depth = Len(todo[t])
      /\ \A n \in N : n.session = s /\ n.at \in Follow[l]
  BY <1>1, TurnFrames
<1>3. /\ Mine(s)' = (Mine(s) \ {Top(t)}) \cup N /\ Top(t) \in Mine(s)
      /\ \A r : r # s => Mine(r)' = Mine(r)
  BY <1>2 DEF Mine, On
<1>4. \A k \in {"recv", "send", "disconnect"} : k \in Kinds /\ k # "connect"
  BY DEF Kinds
<1>5. ASSUME NEW r \in Sessions, r # s PROVE Entering(r)'
  <2>1. r \in connected' <=> r \in connected
    BY <1>1, <1>5 DEF Turned
  <2>2. \A k \in {"recv", "send", "disconnect"} : op'[r][k] = op[r][k]
    BY <1>1, <1>4, <1>5 DEF Turned
  <2>3. r \in known' <=> r \in known
    BY <1>5
  <2> QED
    BY <1>3, <1>5, <2>1, <2>2, <2>3, EnteringSame
<1>6. CASE l = "processConnect"
  <2>1. Begins(s) /\ Young(s)
    BY <1>2, <1>3, <1>6 DEF SessionsOK, SessionOK, Young, Some
  <2>2. s \notin known /\ known' = known
    BY <1>6, <2>1 DEF Begins
  <2>3. \A f \in Mine(s) : f = Top(t)
    <3>1. \A f \in Mine(s) : f.at = "processConnect"
      BY <1>2, <1>3, <1>6, <2>2 DEF Entering
    <3> QED
      BY <1>2, <1>3, <1>6, <2>1, <3>1 DEF Begins
  <2>4. Mine(s)' = N
    BY <1>3, <2>3
  <2>5. \A k \in {"recv", "send", "disconnect"} : op'[s][k] = "idle"
    <3>1. \A k \in {"recv", "send", "disconnect"} : op[s][k] = "idle" /\ l # Issuing[k]
      BY <1>6, <2>2 DEF Entering, Issuing
    <3> QED
      BY <1>1, <1>4, <3>1 DEF Turned
  <2>6. \E f \in N : /\ f.at = "addSession"
                     /\ \A g \in N \ {f} : Under(g, f) /\ g.at \in {"onConnected", "registerRecv"}
    BY <1>6 DEF Turn
  <2>7. Entering(s)'
    BY <2>2, <2>4, <2>5, <2>6 DEF Entering, Under
  <2> QED
    BY <1>5, <2>7
<1>7. CASE l # "processConnect"
  <2>1. \A n \in N : n.at # "addSession"
    BY <1>2, <1>7, FollowSteps
  <2>2. s \in known'
    BY <1>1, <1>7, NotKnown
  <2>3. ~Some(s, {"addSession"})'
    <3>1. CASE s \in known
      BY <1>3, <2>1, <3>1 DEF Entering, Some
    <3>2. CASE s \notin known
      <4>1. l = "addSession"
        BY <1>1, <1>7, <3>2, NotKnown
      <4>2. \A f \in Mine(s) : ~Under(Top(t), f)
        BY <1>2, TopIsTop DEF Mine, On
      <4>3. \A g \in Mine(s) \ {Top(t)} : g.at # "addSession"
        BY <1>2, <1>3, <3>2, <4>1, <4>2 DEF Entering
      <4> QED
        BY <1>3, <2>1, <4>3 DEF Some
    <3> QED
      BY <3>1, <3>2
  <2>4. Entering(s)'
    BY <2>2, <2>3 DEF Entering
  <2> QED
    BY <1>5, <2>4
<1> QED
  BY <1>6, <1>7

LEMMA EndingKept ==
    ASSUME NEW C, todo \in [Threads -> Seq(C)], SessionsOK, Parted, NEW t \in Threads,
           NEW s \in Sessions, NEW l, NEW N, Turn(t, s, l, N),
           \A r \in Sessions : Entering(r) /\ Ending(r),
           known \subseteq known', known' \subseteq known \cup {s},
           released' = released \cup (IF l = "releaseSession" THEN {s} ELSE {})
    PROVE  \A r \in Sessions : Ending(r)'
<1>1. Took(t, s, l, N) /\ Turned(t, s, l)
  BY DEF Turn
<1>2. /\ Frames' = (Frames \ {Top(t)}) \cup N /\ l \in Steps /\ Top(t) \in Frames
      /\ Top(t).session = s /\ Top(t).at = l
      /\ \A n \in N : n.session = s /\ n.at \in Follow[l]
  BY <1>1, TurnFrames
<1>3. /\ Mine(s)' = (Mine(s) \ {Top(t)}) \cup N /\ Top(t) \in Mine(s)
      /\ \A r : r # s => Mine(r)' = Mine(r)
  BY <1>2 DEF Mine, On
<1>4. "disconnect" \in Kinds /\ Issuing["disconnect"] = "registerDisconnect"
  BY DEF Kinds, Issuing
<1>5. ASSUME NEW r \in Sessions, r # s PROVE Ending(r)'
  <2>1. op'[r]["disconnect"] = op[r]["disconnect"]
    BY <1>1, <1>4, <1>5 DEF Turned
  <2>2. Some(r, UsesEvent["disconnect"])' <=> Some(r, UsesEvent["disconnect"])
    BY <1>3, <1>5 DEF Some
  <2>3. r \in released' <=> r \in released
    BY <1>5
  <2> QED
    BY <2>1, <2>2, <2>3 DEF Ending
<1>6. CASE l \in {"processDisconnect", "registerDisconnect"}
  <2>1. Some(s, UsesEvent["disconnect"])
    BY <1>2, <1>3, <1>6, Uses DEF Some
  <2>2. s \in known' /\ s \notin released'
    BY <1>6, <2>1 DEF Ending
  <2> QED
    BY <1>5, <2>2 DEF Ending
<1>7. CASE l = "disconnect" /\ s \in connected
  <2>1. s \in known
    BY <1>1, <1>7, NotKnown
  <2>2. s \notin released
    BY <1>7 DEF Parted
  <2> QED
    BY <1>5, <1>7, <2>1, <2>2 DEF Ending
<1>8. CASE l = "releaseSession"
  <2>1. Top(t).at \in UsesEvent["disconnect"]
    BY <1>2, <1>8, Uses
  <2>2. UsedOnce(s, "disconnect")
    BY DEF SessionsOK, SessionOK, EndSide
  <2>3. \A f \in Mine(s) : f.at \in UsesEvent["disconnect"] => f = Top(t)
    BY <1>3, <2>1, <2>2 DEF UsedOnce, One
  <2>4. N = {}
    BY <1>2, <1>8 DEF Follow
  <2>5. op'[s]["disconnect"] = "idle"
    BY <1>1, <1>3, <1>4, <1>8, <2>1, <2>2 DEF UsedOnce, Some, Turned
  <2>6. ~Some(s, UsesEvent["disconnect"])'
    BY <1>3, <2>3, <2>4 DEF Some
  <2> QED
    BY <1>5, <2>5, <2>6 DEF Ending
<1>9. CASE /\ l \notin {"processDisconnect", "registerDisconnect", "releaseSession"}
           /\ l = "disconnect" => s \notin connected
  <2>1. \A n \in N : n.at \notin UsesEvent["disconnect"]
    BY <1>2, <1>9, FollowSteps, Uses DEF Turn
  <2>2. op'[s]["disconnect"] = op[s]["disconnect"]
    BY <1>1, <1>4, <1>9 DEF Turned
  <2>3. Some(s, UsesEvent["disconnect"])' => Some(s, UsesEvent["disconnect"])
    BY <1>3, <2>1 DEF Some
  <2>4. released' = released
    BY <1>9
  <2>5. Ending(s)'
    BY <2>2, <2>3, <2>4 DEF Ending
  <2> QED
    BY <1>5, <2>5
<1> QED
  BY <1>6, <1>7, <1>8, <1>9
------------------------------------------------------------------------------
(* Broadcasts *)

(* A step leaves the calls of Send as they are, or takes one of them further. *)
LEMMA SendingTurn ==
    ASSUME NEW C, todo \in [Threads -> Seq(C)], NEW t \in Threads, NEW s, NEW l, NEW N,
           Took(t, s, l, N), NEW b, NEW f \in Sending(b)'
    PROVE  \/ f \in Sending(b) /\ f # Top(t)
           \/ /\ l = "send" /\ f \in N /\ f.at = "push" /\ Top(t) \in Sending(b)
              /\ f.session = s /\ Top(t).session = s /\ f.thread = Top(t).thread
              /\ f.depth \in Nat /\ f.depth >= Top(t).depth
<1>1. /\ Frames' = (Frames \ {Top(t)}) \cup N /\ l \in Steps /\ Top(t) \in Frames
      /\ Top(t).session = s /\ Top(t).at = l /\ Top(t).thread = t
      /\ \A n \in N : /\ n.session = s /\ n.at \in Follow[l] /\ n.thread = t
                      /\ n.depth \in Nat /\ n.depth >= Top(t).depth
                      /\ n.at = "push" => n.arg = Top(t).arg
  BY TurnFrames
<1>2. f \in Frames' /\ f.at \in {"send", "push"} /\ f.arg = b
  BY DEF Sending
<1>3. CASE f \in Frames /\ f # Top(t)
  BY <1>2, <1>3 DEF Sending
<1>4. CASE f \in N
  <2>1. f.at = "push" /\ l = "send"
    BY <1>1, <1>2, <1>4, FollowSteps
  <2> QED
    BY <1>1, <1>2, <1>4, <2>1 DEF Sending
<1> QED
  BY <1>1, <1>2, <1>3, <1>4

LEMMA Appends ==
    ASSUME NEW S, accepted \in [Sessions -> Seq(S)], NEW s \in Sessions, NEW a,
           accepted' = [accepted EXCEPT ![s] = Append(@, a)]
    PROVE  /\ \A r \in Sessions : r # s => accepted'[r] = accepted[r]
           /\ Len(accepted[s]) \in Nat /\ Len(accepted'[s]) = Len(accepted[s]) + 1
           /\ \A i \in 1 .. Len(accepted[s]) : accepted'[s][i] = accepted[s][i]
           /\ accepted'[s][Len(accepted[s]) + 1] = a
<1>1. PICK c : c = accepted'
  OBVIOUS
<1>2. \A r \in Sessions : r # s => c[r] = accepted[r]
  BY <1>1
<1> DEFINE q == accepted[s]
<1>3. c[s] = Append(q, a) /\ q \in Seq(S)
  BY <1>1
<1> HIDE DEF q
<1>4. /\ Len(q) \in Nat /\ Len(Append(q, a)) = Len(q) + 1
      /\ \A i \in 1 .. Len(q) : Append(q, a)[i] = q[i]
      /\ Append(q, a)[Len(q) + 1] = a
  BY <1>3
<1> QED
  BY <1>1, <1>2, <1>3, <1>4 DEF q

(* What Push of a on s adds. *)
LEMMA Queues ==
    ASSUME NEW S, accepted \in [Sessions -> Seq(S)], NEW s \in Sessions, NEW a,
           accepted' = [accepted EXCEPT ![s] = Append(@, a)]
    PROVE  /\ \A r \in Sessions : \A b : Queued(r, b)' <=> Queued(r, b) \/ (r = s /\ b = a)
           /\ \A r \in Sessions : \A b, c :
                 Before(r, b, c)' <=> Before(r, b, c) \/ (r = s /\ c = a /\ Queued(s, b))
           /\ ~Queued(s, a) => \A i, j \in 1 .. Len(accepted'[s]) :
                 accepted'[s][i] = a /\ accepted'[s][j] = a => i = j
           /\ \A b : b # a => \A i \in 1 .. Len(accepted'[s]) :
                 accepted'[s][i] = b => i \in 1 .. Len(accepted[s]) /\ accepted[s][i] = b
<1>1. /\ \A r \in Sessions : r # s => accepted'[r] = accepted[r]
      /\ Len(accepted[s]) \in Nat /\ Len(accepted'[s]) = Len(accepted[s]) + 1
      /\ \A i \in 1 .. Len(accepted[s]) : accepted'[s][i] = accepted[s][i]
      /\ accepted'[s][Len(accepted[s]) + 1] = a
  BY Appends
<1> DEFINE q == accepted[s]  p == accepted'[s]  n == Len(accepted[s])
<1>2. /\ n \in Nat /\ Len(q) = n /\ Len(p) = n + 1
      /\ \A i \in 1 .. n : p[i] = q[i]
      /\ p[n + 1] = a
  BY <1>1
<1>3. \A b : /\ Queued(s, b) <=> \E i \in 1 .. Len(q) : q[i] = b
             /\ Queued(s, b)' <=> \E i \in 1 .. Len(p) : p[i] = b
  BY DEF Queued
<1>4. \A b, c : /\ Before(s, b, c) <=> \E i, j \in 1 .. Len(q) : i < j /\ q[i] = b /\ q[j] = c
                /\ Before(s, b, c)' <=> \E i, j \in 1 .. Len(p) : i < j /\ p[i] = b /\ p[j] = c
  BY DEF Before
<1>5. \A r \in Sessions : r # s => \A b, c : /\ Queued(r, b)' <=> Queued(r, b)
                                             /\ Before(r, b, c)' <=> Before(r, b, c)
  BY <1>1 DEF Queued, Before
<1> HIDE DEF q, p, n
<1>6. \A i \in 1 .. Len(p) : i \in 1 .. n \/ i = n + 1
  BY <1>2
<1>7. \A i \in 1 .. n : i \in 1 .. Len(p) /\ i \in 1 .. Len(q) /\ i < n + 1 /\ n + 1 \in 1 .. Len(p)
  BY <1>2
<1>8. n + 1 \in 1 .. Len(p)
  BY <1>2
<1>9. \A b : Queued(s, b)' <=> Queued(s, b) \/ b = a
  BY <1>2, <1>3, <1>6, <1>7, <1>8
<1>10. ASSUME NEW b, NEW c, Before(s, b, c)'
       PROVE  Before(s, b, c) \/ (c = a /\ Queued(s, b))
  <2>1. PICK i \in 1 .. Len(p), j \in 1 .. Len(p) : i < j /\ p[i] = b /\ p[j] = c
    BY <1>4, <1>10
  <2>2. i \in 1 .. n /\ q[i] = b
    BY <1>2, <2>1
  <2>3. CASE j \in 1 .. n
    BY <1>2, <1>4, <2>1, <2>2, <2>3
  <2>4. CASE j = n + 1
    BY <1>2, <1>3, <2>1, <2>2, <2>4
  <2> QED
    BY <1>6, <2>3, <2>4
<1>11. ASSUME NEW b, NEW c, Before(s, b, c) \/ (c = a /\ Queued(s, b))
       PROVE  Before(s, b, c)'
  <2>1. CASE Before(s, b, c)
    <3>1. PICK i \in 1 .. Len(q), j \in 1 .. Len(q) : i < j /\ q[i] = b /\ q[j] = c
      BY <1>4, <2>1
    <3>2. i \in 1 .. n /\ j \in 1 .. n
      BY <1>2, <3>1
    <3>3. p[i] = b /\ p[j] = c
      BY <1>2, <3>1, <3>2
    <3> QED
      BY <1>4, <1>7, <3>1, <3>2, <3>3
  <2>2. CASE c = a /\ Queued(s, b)
    <3>1. PICK i \in 1 .. Len(q) : q[i] = b
      BY <1>3, <2>2
    <3>2. i \in 1 .. n
      BY <1>2
    <3>3. p[i] = b /\ p[n + 1] = c
      BY <1>2, <2>2, <3>1, <3>2
    <3> QED
      BY <1>4, <1>7, <3>2, <3>3
  <2> QED
    BY <1>11, <2>1, <2>2
<1>12. ~Queued(s, a) => \A i, j \in 1 .. Len(p) : p[i] = a /\ p[j] = a => i = j
  <2>1. ~Queued(s, a) => \A i \in 1 .. n : p[i] # a
    BY <1>2, <1>3, <1>7
  <2> QED
    BY <1>6, <2>1
<1>13. \A b : b # a => \A i \in 1 .. Len(p) : p[i] = b => i \in 1 .. Len(q) /\ q[i] = b
  BY <1>2, <1>6
<1>14. \A r \in Sessions : \A b : Queued(r, b)' <=> Queued(r, b) \/ (r = s /\ b = a)
  BY <1>5, <1>9
<1>15. \A r \in Sessions : \A b, c :
          Before(r, b, c)' <=> Before(r, b, c) \/ (r = s /\ c = a /\ Queued(s, b))
  BY <1>5, <1>10, <1>11
<1> QED
  BY <1>12, <1>13, <1>14, <1>15 DEF p, q

(* Call stacks over any set of calls that includes those of Session; steps of
   the service have no session. *)
CallsOf(C) == CallsIn(C) /\ \A c \in C : c.at \in Steps => c.session \in Sessions

LEMMA FrameSession ==
    ASSUME NEW C, CallsOf(C), todo \in [Threads -> Seq(C)], NEW f \in Frames, f.at \in Steps
    PROVE  f.session \in Sessions
<1>1. PICK t \in Threads : f \in FramesIn(t, todo[t])
  BY DEF Frames, FramesOf
<1>2. PICK i \in 1 .. Len(todo[t]) : f = Frame(t, Len(todo[t]) + 1 - i, todo[t][i])
  BY <1>1 DEF FramesIn
<1>3. todo[t][i] \in C
  OBVIOUS
<1> QED
  BY <1>2, <1>3, FrameFields DEF CallsOf

(* What a step on s does to the buffers: l is push, and a goes to the queue
   of s, or the queues stay as they are. *)
LEMMA PushFacts ==
    ASSUME NEW C, CallsOf(C), SessionState(C), NEW t \in Threads, NEW s \in Sessions, NEW l, NEW N,
           Turn(t, s, l, N), l = "push"
    PROVE  /\ Arg(t) \in Buffers /\ Top(t) \in Sending(Arg(t)) /\ Top(t).session = s
           /\ accepted \in [Sessions -> Seq(Buffers)]
           /\ accepted' = [accepted EXCEPT ![s] = Append(@, Arg(t))]
<1>1. /\ Took(t, s, l, N) /\ Turned(t, s, l) /\ todo \in [Threads -> Seq(C)]
      /\ accepted \in [Sessions -> Seq(Buffers)]
  BY DEF Turn, SessionState
<1>2. Arg(t) \in Buffers
  BY <1>1, ArgTyped DEF Took, CallsOf
<1>3. Top(t) \in Frames /\ Top(t).at = l /\ Top(t).arg = Arg(t) /\ Top(t).session = s
  BY <1>1, TurnFrames
<1> QED
  BY <1>1, <1>2, <1>3 DEF Sending, Turned

LEMMA ReachShrinks ==
    ASSUME NEW C, CallsOf(C), SessionState(C), NEW t \in Threads, NEW s \in Sessions, NEW l, NEW N,
           Turn(t, s, l, N), NEW b
    PROVE  Reach(b)' \subseteq Reach(b)
<1>1. /\ Took(t, s, l, N) /\ Turned(t, s, l) /\ todo \in [Threads -> Seq(C)]
  BY DEF Turn, SessionState
<1> SUFFICES ASSUME NEW r \in Sessions, Queued(r, b)' \/ \E f \in Sending(b)' : f.session = r
             PROVE  r \in Reach(b)
  BY DEF Reach
<1>2. CASE \E f \in Sending(b)' : f.session = r
  <2>1. PICK f \in Sending(b)' : f.session = r
    BY <1>2
  <2>2. f \in Sending(b) \/ (Top(t) \in Sending(b) /\ Top(t).session = r)
    BY <1>1, <2>1, SendingTurn
  <2> QED
    BY <2>1, <2>2 DEF Reach
<1>3. CASE Queued(r, b)'
  <2>1. CASE l = "push"
    <3>1. Queued(r, b) \/ (r = s /\ b = Arg(t))
      BY <1>3, <2>1, PushFacts, Queues
    <3> QED
      BY <2>1, <3>1, PushFacts DEF Reach
  <2>2. CASE l # "push"
    <3>1. Queued(r, b)
      BY <1>1, <1>3, <2>2 DEF Turned, Queued
    <3> QED
      BY <3>1 DEF Reach
  <2> QED
    BY <2>1, <2>2
<1> QED
  BY <1>2, <1>3

LEMMA SentOnceKept ==
    ASSUME NEW C, CallsOf(C), SessionState(C), NEW t \in Threads, NEW s \in Sessions, NEW l, NEW N,
           Turn(t, s, l, N), NEW b, SentOnce(b)
    PROVE  SentOnce(b)'
<1>1. /\ Took(t, s, l, N) /\ Turned(t, s, l) /\ todo \in [Threads -> Seq(C)]
  BY DEF Turn, SessionState
<1>2. \A n, m \in N : n.at = m.at => n = m
  BY <1>1, TurnFrames
<1>8. l = "push" => /\ Top(t) \in Sending(Arg(t)) /\ Top(t).session = s
                    /\ accepted \in [Sessions -> Seq(Buffers)]
                    /\ accepted' = [accepted EXCEPT ![s] = Append(@, Arg(t))]
  BY PushFacts
<1>3. b \in unsent' => Reach(b)' = {}
  BY <1>1, ReachShrinks DEF SentOnce, Turned
<1>4. ASSUME NEW f \in Sending(b)', NEW g \in Sending(b)', f.session = g.session PROVE f = g
  <2>1. CASE f \in Sending(b) /\ g \in Sending(b)
    BY <1>4, <2>1 DEF SentOnce
  <2>2. CASE f \notin Sending(b) /\ g \notin Sending(b)
    BY <1>1, <1>2, <2>2, SendingTurn
  <2>3. CASE f \in Sending(b) /\ g \notin Sending(b)
    <3>1. f # Top(t) /\ Top(t) \in Sending(b) /\ Top(t).session = g.session
      <4>1. Top(t) \in Sending(b) /\ Top(t).session = g.session /\ l = "send"
        BY <1>1, <2>3, SendingTurn
      <4>2. f # Top(t) \/ (f \in N /\ f.at = "push" /\ l = "send")
        BY <1>1, SendingTurn
      <4>3. Top(t).at = l
        BY <1>1, TurnFrames
      <4> QED
        BY <4>1, <4>2, <4>3
    <3> QED
      BY <1>4, <2>3, <3>1 DEF SentOnce
  <2>4. CASE f \notin Sending(b) /\ g \in Sending(b)
    <3>1. g # Top(t) /\ Top(t) \in Sending(b) /\ Top(t).session = f.session
      <4>1. Top(t) \in Sending(b) /\ Top(t).session = f.session /\ l = "send"
        BY <1>1, <2>4, SendingTurn
      <4>2. g # Top(t) \/ (g \in N /\ g.at = "push" /\ l = "send")
        BY <1>1, SendingTurn
      <4>3. Top(t).at = l
        BY <1>1, TurnFrames
      <4> QED
        BY <4>1, <4>2, <4>3
    <3> QED
      BY <1>4, <2>4, <3>1 DEF SentOnce
  <2> QED
    BY <2>1, <2>2, <2>3, <2>4
<1>7. \A f \in Sending(b) : f.session \in Sessions
  <2>1. \A f \in Sending(b) : f \in Frames /\ f.at \in Steps
    BY DEF Sending, Steps
  <2> QED
    BY <1>1, <2>1, FrameSession
<1>5. ASSUME NEW f \in Sending(b)' PROVE ~Queued(f.session, b)'
  <2>1. CASE l = "push"
    <3>1. f \in Sending(b) /\ f # Top(t)
      BY <1>1, <2>1, SendingTurn
    <3>2. ~(f.session = s /\ b = Arg(t))
      BY <2>1, <3>1, PushFacts DEF SentOnce
    <3>3. ~Queued(f.session, b)
      BY <3>1 DEF SentOnce
    <3>4. Queued(f.session, b)' <=> Queued(f.session, b) \/ (f.session = s /\ b = Arg(t))
      BY <1>7, <1>8, <2>1, <3>1, Queues
    <3> QED
      BY <3>2, <3>3, <3>4
  <2>2. CASE l # "push"
    <3>1. f \in Sending(b) \/ (Top(t) \in Sending(b) /\ Top(t).session = f.session)
      BY <1>1, SendingTurn
    <3>2. ~Queued(f.session, b)
      BY <3>1 DEF SentOnce
    <3> QED
      BY <1>1, <2>2, <3>2 DEF Turned, Queued
  <2> QED
    BY <2>1, <2>2
<1>6. ASSUME NEW r \in Sessions, NEW i \in 1 .. Len(accepted'[r]), NEW j \in 1 .. Len(accepted'[r]),
             accepted'[r][i] = b, accepted'[r][j] = b
      PROVE  i = j
  <2>1. CASE accepted'[r] = accepted[r]
    BY <1>6, <2>1 DEF SentOnce
  <2>2. CASE l = "push" /\ r = s
    <3>1. CASE b = Arg(t)
      <4>1. ~Queued(s, b)
        BY <2>2, <3>1, PushFacts DEF SentOnce
      <4>2. \A x, y \in 1 .. Len(accepted'[s]) :
               accepted'[s][x] = b /\ accepted'[s][y] = b => x = y
        <5> DEFINE a == Arg(t)
        <5>1. accepted' = [accepted EXCEPT ![s] = Append(@, a)] /\ ~Queued(s, a) /\ b = a
          BY <1>8, <2>2, <3>1, <4>1
        <5> HIDE DEF a
        <5>2. \A x, y \in 1 .. Len(accepted'[s]) :
                 accepted'[s][x] = a /\ accepted'[s][y] = a => x = y
          BY <1>8, <2>2, <5>1, Queues
        <5> QED
          BY <5>1, <5>2
      <4> QED
        BY <1>6, <2>2, <4>2
    <3>2. CASE b # Arg(t)
      <4>1. /\ i \in 1 .. Len(accepted[s]) /\ accepted[s][i] = b
            /\ j \in 1 .. Len(accepted[s]) /\ accepted[s][j] = b
        <5>1. \A x \in 1 .. Len(accepted'[s]) :
                 accepted'[s][x] = b => x \in 1 .. Len(accepted[s]) /\ accepted[s][x] = b
          BY <1>8, <2>2, <3>2, Queues
        <5> QED
          BY <1>6, <2>2, <5>1
      <4> QED
        BY <4>1 DEF SentOnce
    <3> QED
      BY <3>1, <3>2
  <2>3. accepted'[r] = accepted[r] \/ (l = "push" /\ r = s)
    <3>1. l # "push" => accepted' = accepted
      BY <1>1 DEF Turned
    <3>2. l = "push" /\ r # s => accepted'[r] = accepted[r]
      BY PushFacts, Appends
    <3> QED
      BY <3>1, <3>2
  <2> QED
    BY <2>1, <2>2, <2>3
<1> QED
  BY <1>3, <1>4, <1>5, <1>6 DEF SentOnce

LEMMA UnderStays ==
    ASSUME NEW C, todo \in [Threads -> Seq(C)], NEW e \in Frames, NEW f \in Frames, NEW n,
           Under(e, f), n.thread = f.thread, n.depth \in Nat, n.depth >= f.depth
    PROVE  Under(e, n)
<1>1. e.depth \in Nat /\ f.depth \in Nat
  BY TopHighest
<1> QED
  BY <1>1 DEF Under

LEMMA BroadcastingKept ==
    ASSUME NEW C, CallsOf(C), SessionState(C), NEW t \in Threads, NEW s \in Sessions, NEW l, NEW N,
           Turn(t, s, l, N), \A b \in Buffers : SentOnce(b), Broadcasting
    PROVE  Broadcasting'
<1>1. /\ Took(t, s, l, N) /\ Turned(t, s, l) /\ todo \in [Threads -> Seq(C)]
  BY DEF Turn, SessionState
<1>2. /\ Frames' = (Frames \ {Top(t)}) \cup N /\ Top(t) \in Frames /\ Top(t).at = l /\ l \notin Marks
  BY <1>1, TurnFrames, FollowSteps
<1>3. l = "push" => /\ Arg(t) \in Buffers /\ Top(t) \in Sending(Arg(t)) /\ Top(t).session = s
                    /\ accepted \in [Sessions -> Seq(Buffers)]
                    /\ accepted' = [accepted EXCEPT ![s] = Append(@, Arg(t))]
  BY PushFacts
<1>4. \A b : Alone(b) => Alone(b)'
  BY ReachShrinks DEF Alone
<1>5. \A b : \A f \in Sending(b)' :
         f \in Sending(b) \/ (/\ Top(t) \in Sending(b) /\ f.thread = Top(t).thread
                              /\ f.depth \in Nat /\ f.depth >= Top(t).depth)
  BY <1>1, SendingTurn
<1> SUFFICES ASSUME NEW b \in Buffers, ~Alone(b)', NEW f \in Sending(b)'
             PROVE  /\ \E e \in Frames' : e.at = "endBroadcast" /\ Under(e, f)
                    /\ \A c \in Buffers : ~Alone(c)' =>
                          /\ Sending(c)' # {} => c = b
                          /\ \A r \in Sessions : ~Before(r, b, c)'
  BY DEF Broadcasting, Under
<1>6. ~Alone(b)
  BY <1>4
<1>7. PICK g \in Sending(b) : g = f \/ (/\ g = Top(t) /\ f.thread = g.thread
                                        /\ f.depth \in Nat /\ f.depth >= g.depth)
  BY <1>5
<1>8. \E e \in Frames' : e.at = "endBroadcast" /\ Under(e, f)
  <2>1. PICK e \in Frames : e.at = "endBroadcast" /\ Under(e, g)
    BY <1>6, <1>7 DEF Broadcasting
  <2>2. e \in Frames'
    BY <1>2, <2>1 DEF Marks
  <2>3. g \in Frames
    BY DEF Sending
  <2>4. Under(e, f)
    BY <1>1, <1>7, <2>1, <2>3, UnderStays
  <2> QED
    BY <2>1, <2>2, <2>4
<1>9. ASSUME NEW c \in Buffers, ~Alone(c)'
      PROVE  /\ Sending(c)' # {} => c = b
             /\ \A r \in Sessions : ~Before(r, b, c)'
  <2>1. ~Alone(c)
    BY <1>4, <1>9
  <2>2. (Sending(c) # {} => c = b) /\ \A r \in Sessions : ~Before(r, b, c)
    BY <1>6, <1>7, <2>1 DEF Broadcasting
  <2>3. Sending(c)' # {} => Sending(c) # {}
    BY <1>5
  <2>4. ASSUME NEW r \in Sessions PROVE ~Before(r, b, c)'
    <3>1. CASE l = "push"
      <4>1. Before(r, b, c)' <=> Before(r, b, c) \/ (r = s /\ c = Arg(t) /\ Queued(s, b))
        BY <1>3, <3>1, Queues
      <4>2. c = Arg(t) => c = b /\ ~Queued(s, c)
        BY <1>3, <2>2, <3>1 DEF SentOnce
      <4> QED
        BY <2>2, <4>1, <4>2
    <3>2. CASE l # "push"
      BY <1>1, <2>2, <3>2 DEF Turned, Before
    <3> QED
      BY <3>1, <3>2
  <2> QED
    BY <2>2, <2>3, <2>4
<1> QED
  BY <1>8, <1>9

LEMMA QueuedBefore ==
    ASSUME NEW S, accepted \in [Sessions -> Seq(S)], NEW s \in Sessions, NEW a,
           accepted' = [accepted EXCEPT ![s] = Append(@, a)]
    PROVE  \A r \in Sessions : \A b, c :
              Before(r, b, c)' <=> Before(r, b, c) \/ (r = s /\ c = a /\ Queued(s, b))
BY Queues

LEMMA OrderKept ==
    ASSUME NEW C, CallsOf(C), SessionState(C), NEW t \in Threads, NEW s \in Sessions, NEW l, NEW N,
           Turn(t, s, l, N), \A b \in Buffers : SentOnce(b), Broadcasting, BroadcastsInOneOrder
    PROVE  BroadcastsInOneOrder'
<1>1. CASE l # "push"
  <2>1. accepted' = accepted
    BY <1>1 DEF Turn, Turned
  <2> QED
    BY <2>1 DEF BroadcastsInOneOrder, Before
<1>2. CASE l = "push"
  <2> DEFINE a == Arg(t)
  <2>1. /\ a \in Buffers /\ Top(t) \in Sending(a) /\ Top(t).session = s
        /\ accepted \in [Sessions -> Seq(Buffers)]
        /\ accepted' = [accepted EXCEPT ![s] = Append(@, a)]
    BY <1>2, PushFacts
  <2> HIDE DEF a
  <2>2. ~Queued(s, a)
    BY <2>1 DEF SentOnce
  <2>3. \A r \in Sessions : \A b, c :
           Before(r, b, c)' <=> Before(r, b, c) \/ (r = s /\ c = a /\ Queued(s, b))
    BY <2>1, QueuedBefore
  <2>4. ASSUME NEW b \in Buffers, Queued(s, b), NEW r \in Sessions, Before(r, a, b)
        PROVE  FALSE
    <3>1. Queued(r, a) /\ Queued(r, b)
      BY <2>4 DEF Before, Queued
    <3>2. r # s
      BY <2>2, <3>1
    <3>3. ~Alone(a)
      BY <2>1, <3>1, <3>2 DEF Alone, Reach
    <3>4. ~Alone(b)
      BY <2>4, <3>1, <3>2 DEF Alone, Reach
    <3> QED
      BY <2>1, <2>4, <3>3, <3>4 DEF Broadcasting
  <2>5. \A r \in Sessions : \A b, c \in Buffers : Before(r, b, c) => Queued(r, b)
    BY DEF Before, Queued
  <2> SUFFICES ASSUME NEW q \in Sessions, NEW r \in Sessions, NEW b \in Buffers, NEW c \in Buffers,
                      Before(q, b, c)', Before(r, c, b)'
               PROVE  FALSE
    BY DEF BroadcastsInOneOrder
  <2>6. CASE Before(q, b, c) /\ Before(r, c, b)
    BY <2>6 DEF BroadcastsInOneOrder
  <2>7. CASE c = a /\ Queued(s, b)
    <3>1. Before(r, a, b) \/ (b = a /\ Queued(s, a))
      BY <2>3, <2>7
    <3> QED
      BY <2>2, <2>4, <2>7, <3>1
  <2>8. CASE b = a /\ Queued(s, c)
    <3>1. Before(q, a, c) \/ (c = a /\ Queued(s, a))
      BY <2>3, <2>8
    <3> QED
      BY <2>2, <2>4, <2>8, <3>1
  <2> QED
    BY <2>3, <2>6, <2>7, <2>8
<1> QED
  BY <1>1, <1>2
------------------------------------------------------------------------------
(* The depth of the stacks *)

LEMMA HeightIs ==
    /\ Cardinality(Sessions) \in Nat
    /\ \A l \in Steps \cup Marks : Height[l] \in Nat /\ Height[l] >= 1
    /\ \A l \in Steps : \A k \in Follow[l] : Height[k] + Rise(l) <= Height[l]
    /\ \A l \in Callbacks : Height[l] = Cardinality(Sessions) + 3
    /\ \A l \in {"processConnect", "processDisconnect", "processRecv", "processSend"} :
          Height[l] <= Cardinality(Sessions) + 5
    /\ Height["send"] = 2 /\ Height["disconnect"] = 1
    /\ \A l \in Marks : Height[l] = 1
<1>1. Cardinality(Sessions) \in Nat
  BY ServiceAssumption, FS_CardinalityType
<1> DEFINE n == Cardinality(Sessions)
<1> HIDE DEF n
<1>2. n \in Nat
  BY <1>1 DEF n
<1>3. \A l \in Steps \cup Marks :
         Height[l] = (CASE l = "processConnect" -> n + 5
                        [] l \in {"processDisconnect", "processRecv", "processSend"} -> n + 4
                        [] l \in Callbacks -> n + 3
                        [] l = "resume" -> 3
                        [] l \in {"send", "push", "registerSend", "collect", "wsaSend",
                                  "registerRecv", "wsaRecv", "afterRecv"} -> 2
                        [] OTHER -> 1)
  BY DEF Height, n
<1>4. \A l \in Steps \cup Marks : Height[l] \in Nat /\ Height[l] >= 1
  BY <1>2, <1>3 DEF Callbacks
<1>5. ASSUME NEW l \in Steps, NEW k \in Follow[l] PROVE Height[k] + Rise(l) <= Height[l]
  <2>1. k \in Steps
    BY FollowSteps
  <2>2. CASE l = "processConnect"
    BY <1>2, <1>3, <2>1, <2>2 DEF Follow, Rise, Callbacks
  <2>3. CASE l \in {"processDisconnect", "processRecv", "processSend"}
    BY <1>2, <1>3, <2>1, <2>3 DEF Follow, Rise, Callbacks
  <2>4. CASE l \in {"resume", "wsaRecv", "wsaSend", "afterRecv", "registerRecv", "send", "push",
                    "registerSend", "collect"}
    BY <1>2, <1>3, <2>1, <2>4 DEF Follow, Rise, Callbacks
  <2>5. CASE l \in {"disconnect", "undoSend"}
    BY <1>2, <1>3, <2>1, <2>5 DEF Follow, Rise, Callbacks
  <2>6. CASE Follow[l] = {}
    BY <2>6
  <2>7. \/ l = "processConnect" \/ l \in {"processDisconnect", "processRecv", "processSend"}
        \/ l \in {"resume", "wsaRecv", "wsaSend", "afterRecv", "registerRecv", "send", "push",
                  "registerSend", "collect"}
        \/ l \in {"disconnect", "undoSend"} \/ Follow[l] = {}
    BY DEF Steps, Callbacks, Follow
  <2> QED
    BY <2>2, <2>3, <2>4, <2>5, <2>6, <2>7
<1>6. \A l \in Callbacks : l \in Steps /\ Height[l] = n + 3
  BY <1>3 DEF Callbacks, Steps
<1>7. \A l \in {"processConnect", "processDisconnect", "processRecv", "processSend"} :
         l \in Steps /\ Height[l] <= n + 5
  BY <1>2, <1>3 DEF Steps
<1>8. "send" \in Steps /\ Height["send"] = 2 /\ "disconnect" \in Steps /\ Height["disconnect"] = 1
  BY <1>3 DEF Steps, Callbacks
<1>9. \A l \in Marks : Height[l] = 1
  BY <1>3 DEF Marks, Callbacks
<1> QED
  BY <1>1, <1>4, <1>5, <1>6, <1>7, <1>8, <1>9 DEF n

LEMMA ShallowKept ==
    ASSUME NEW C, todo \in [Threads -> Seq(C)], Shallow, NEW t \in Threads, NEW s, NEW l, NEW N,
           Took(t, s, l, N)
    PROVE  Shallow'
<1>1. /\ Frames' = (Frames \ {Top(t)}) \cup N /\ Top(t) \in Frames /\ l \in Steps /\ Top(t).at = l
      /\ \A n \in N : /\ n.at \in Follow[l] /\ n.depth \in Nat
                      /\ n.depth <= Top(t).depth + Rise(l)
  BY TurnFrames
<1>2. Top(t).depth + Height[l] <= Cardinality(Sessions) + 6
  BY <1>1 DEF Shallow
<1>3. Top(t).depth \in Nat
  BY <1>1, TopHighest
<1>4. ASSUME NEW n \in N PROVE n.depth + Height[n.at] <= Cardinality(Sessions) + 6
  <2>1. n.at \in Follow[l] /\ n.at \in Steps /\ n.depth \in Nat /\ n.depth <= Top(t).depth + Rise(l)
    BY <1>1, FollowSteps
  <2>2. Height[n.at] + Rise(l) <= Height[l] /\ Height[n.at] \in Nat /\ Height[l] \in Nat
    BY <1>1, <2>1, HeightIs
  <2>3. Rise(l) \in Nat /\ Cardinality(Sessions) \in Nat
    BY HeightIs DEF Rise
  <2> QED
    BY <1>2, <1>3, <2>1, <2>2, <2>3
<1>5. ASSUME NEW f \in Frames' PROVE f.depth + Height[f.at] <= Cardinality(Sessions) + 6
  BY <1>1, <1>4 DEF Shallow
<1> QED
  BY <1>5 DEF Shallow
------------------------------------------------------------------------------
(* The invariant *)

ServiceCalls == Calls \cup {Step("endBroadcast", None), Step("clearSessions", None)}

ServiceTyped ==
    /\ sessions \subseteq Sessions /\ sessionCount \in Int
    /\ serviceLock \in Threads \cup {None}
    /\ released \subseteq Sessions /\ swept \subseteq Sessions

(* What holds of the service with call stacks over C, whoever made its sessions. *)
Serving(C) ==
    /\ SessionState(C) /\ SessionsOK
    /\ ServiceTyped /\ CountDrift /\ Sane /\ BroadcastsInOneOrder

ServiceInv == Serving(ServiceCalls) /\ Shallow

(* C has the calls that the steps of the service make. *)
CallsFor(C) == CallsOf(C) /\ ServiceCalls \subseteq C

LEMMA ServiceCallsAre == CallsFor(ServiceCalls)
<1>1. /\ Step("endBroadcast", None).at = "endBroadcast"
      /\ Step("clearSessions", None).at = "clearSessions"
  BY StepIs
<1>2. \A c \in Calls : /\ c.at \in {"send", "push"} => c.arg \in Buffers
                       /\ c.session \in Sessions
  BY DEF Calls
<1>3. "endBroadcast" \notin Steps /\ "clearSessions" \notin Steps
  BY FollowSteps DEF Marks
<1> QED
  BY <1>1, <1>2, <1>3 DEF ServiceCalls, CallsFor, CallsOf, CallsIn

(* Nobody is inside Broadcast or CloseService when the lock is free. *)
LEMMA NoMarks ==
    ASSUME NEW C, todo \in [Threads -> Seq(C)], LockHeld, serviceLock = None
    PROVE  \A e \in Frames : e.at \notin Marks
<1>1. \A e \in Frames : e.thread \in Threads
  BY TopHighest
<1> QED
  BY <1>1, ServiceAssumption DEF LockHeld

(* Most of the invariant does not depend on the set of sessions. *)
LEMMA PartedKept ==
    ASSUME SessionsOK, Parted, NEW t \in Threads, NEW s \in Sessions, NEW l, NEW N,
           NEW C, todo \in [Threads -> Seq(C)], Turn(t, s, l, N), Entering(s), Ending(s),
           known' = known \cup (IF l = "addSession" THEN {s} ELSE {}),
           released' = released \cup (IF l = "releaseSession" THEN {s} ELSE {}),
           swept' = swept,
           sessions' = (sessions \cup (IF l = "addSession" THEN {s} ELSE {}))
                         \ (IF l = "releaseSession" THEN {s} ELSE {})
    PROVE  /\ Parted'
           /\ l = "processConnect" => s \notin known
           /\ l = "addSession" => s \notin known
           /\ l = "releaseSession" => s \in known /\ s \notin released
<1>1. Took(t, s, l, N) /\ Turned(t, s, l)
  BY DEF Turn
<1>2. Top(t) \in Mine(s) /\ Top(t).at = l
  BY <1>1, TurnFrames DEF Mine, On
<1>3. Begins(s) /\ EndSide(s)
  BY DEF SessionsOK, SessionOK
<1>4. l = "processConnect" => s \notin known
  BY <1>2, <1>3 DEF Begins, Young, Some
<1>5. l = "addSession" => s \notin known
  BY <1>2 DEF Entering, Some
<1>6. l = "releaseSession" => s \in known /\ s \notin released /\ s \notin connected
  <2>1. l = "releaseSession" => Some(s, UsesEvent["disconnect"])
    BY <1>2, Uses DEF Some
  <2> QED
    BY <1>3, <2>1 DEF EndSide, Ending
<1>7. connected' \subseteq connected \cup (IF l = "processConnect" THEN {s} ELSE {})
  BY <1>1 DEF Turned
<1>8. CASE l = "addSession"
  BY <1>5, <1>7, <1>8 DEF Parted
<1>9. CASE l = "releaseSession"
  BY <1>6, <1>7, <1>9 DEF Parted
<1>10. CASE l \notin {"addSession", "releaseSession"}
  BY <1>4, <1>7, <1>10 DEF Parted
<1> QED
  BY <1>4, <1>5, <1>6, <1>8, <1>9, <1>10

LEMMA CountKept ==
    ASSUME ServiceTyped, Parted, CountDrift, NEW s \in Sessions,
           \/ /\ s \notin known /\ sessions' = sessions \cup {s} /\ sessionCount' = sessionCount + 1
              /\ UNCHANGED <<released, swept>>
           \/ /\ s \in known /\ s \notin released /\ sessions' = sessions \ {s}
              /\ sessionCount' = sessionCount - 1
              /\ released' = released \cup {s} /\ UNCHANGED swept
    PROVE  CountDrift'
<1>1. IsFiniteSet(sessions) /\ IsFiniteSet(swept \cap released)
  BY ServiceAssumption, FS_Subset DEF ServiceTyped
<1>2. Cardinality(sessions) \in Nat /\ Cardinality(swept \cap released) \in Nat
  BY <1>1, FS_CardinalityType
<1>5. sessionCount = Cardinality(sessions) - Cardinality(swept \cap released)
  BY DEF CountDrift
<1>3. CASE /\ s \notin known /\ sessions' = sessions \cup {s} /\ sessionCount' = sessionCount + 1
           /\ UNCHANGED <<released, swept>>
  <2>1. s \notin sessions
    BY <1>3 DEF Parted
  <2>2. Cardinality(sessions') = Cardinality(sessions) + 1
    BY <1>1, <1>3, <2>1, FS_AddElement
  <2> QED
    BY <1>2, <1>3, <2>2 DEF CountDrift
<1>4. CASE /\ s \in known /\ s \notin released /\ sessions' = sessions \ {s}
           /\ sessionCount' = sessionCount - 1
           /\ released' = released \cup {s} /\ UNCHANGED swept
  <2>1. CASE s \in sessions
    <3>1. swept' \cap released' = swept \cap released
      BY <1>4, <2>1 DEF Parted
    <3>2. Cardinality(sessions') = Cardinality(sessions) - 1
      BY <1>1, <1>4, <2>1, FS_RemoveElement
    <3>3. Cardinality(swept' \cap released') = Cardinality(swept \cap released)
      BY <3>1
    <3> QED
      BY <1>2, <1>4, <1>5, <3>2, <3>3 DEF CountDrift
  <2>2. CASE s \notin sessions
    <3>1. swept' \cap released' = (swept \cap released) \cup {s} /\ s \notin swept \cap released
      BY <1>4, <2>2 DEF Parted
    <3>2. Cardinality(swept' \cap released') = Cardinality(swept \cap released) + 1
      BY <1>1, <3>1, FS_AddElement
    <3>3. Cardinality(sessions') = Cardinality(sessions)
      BY <1>4, <2>2
    <3> QED
      BY <1>2, <1>4, <1>5, <3>2, <3>3 DEF CountDrift
  <2> QED
    BY <2>1, <2>2
<1> QED
  BY <1>3, <1>4

(* Every step of a session. *)
LEMMA TurnKeeps ==
    ASSUME NEW C, CallsOf(C), SessionState(C), SessionsOK, Sane, BroadcastsInOneOrder,
           NEW t \in Threads, NEW s \in Sessions, NEW l, NEW N, Turn(t, s, l, N),
           known' = known \cup (IF l = "addSession" THEN {s} ELSE {}),
           released' = released \cup (IF l = "releaseSession" THEN {s} ELSE {}),
           swept' = swept, serviceLock' = serviceLock,
           sessions' = (sessions \cup (IF l = "addSession" THEN {s} ELSE {}))
                         \ (IF l = "releaseSession" THEN {s} ELSE {}),
           l = "addSession" => serviceLock = None
    PROVE  /\ Sane' /\ BroadcastsInOneOrder'
           /\ l = "addSession" => s \notin known
           /\ l = "releaseSession" => s \in known /\ s \notin released
<1>1. Took(t, s, l, N) /\ Turned(t, s, l) /\ todo \in [Threads -> Seq(C)]
  BY DEF Turn, SessionState
<1>2. /\ LockHeld /\ Parted /\ Closing /\ Broadcasting
      /\ \A r \in Sessions : Entering(r) /\ Ending(r)
      /\ \A b \in Buffers : SentOnce(b)
  BY DEF Sane
<1>3. /\ Parted'
      /\ l = "processConnect" => s \notin known
      /\ l = "addSession" => s \notin known
      /\ l = "releaseSession" => s \in known /\ s \notin released
  BY <1>1, <1>2, PartedKept
<1>4. LockHeld'
  BY <1>1, <1>2, LockKept
<1>5. Closing'
  <2>1. sessions' \subseteq sessions \/ \A e \in Frames : e.at \notin Marks
    BY <1>1, <1>2, NoMarks
  <2>2. l = "processConnect" => s \notin sessions
    BY <1>2, <1>3 DEF Parted
  <2> QED
    BY <1>1, <1>2, <2>1, <2>2, ClosingKept
<1>6. Broadcasting'
  BY <1>2, BroadcastingKept
<1>7. \A r \in Sessions : Entering(r)'
  BY <1>1, <1>2, EnteringKept
<1>8. \A r \in Sessions : Ending(r)'
  BY <1>1, <1>2, EndingKept
<1>9. \A b \in Buffers : SentOnce(b)'
  BY <1>2, SentOnceKept
<1>10. BroadcastsInOneOrder'
  BY <1>2, OrderKept
<1> QED
  BY <1>3, <1>4, <1>5, <1>6, <1>7, <1>8, <1>9, <1>10 DEF Sane
------------------------------------------------------------------------------
(* The ends of Broadcast and CloseService *)

(* The mark of a call is gone with all that the call did. *)
LEMMA MarkGone ==
    ASSUME NEW C, todo \in [Threads -> Seq(C)], LockHeld, Broadcasting, NEW t \in Threads,
           NEW l \in Marks, At(t, None, l), Return(t)
    PROVE  /\ Frames' = Frames \ {Top(t)} /\ Top(t) \in Frames /\ Top(t).at = l
           /\ Top(t).session = None
           /\ \A f \in Frames : ~Under(Top(t), f)
           /\ \A e \in Frames : e.at \in Marks => e = Top(t)
           /\ \A b \in Buffers : ~Alone(b) => Sending(b) = {}
<1>1. todo[t] # <<>> /\ Then(t, <<>>) /\ <<>> \in Seq({})
  BY DEF At, Return
<1>2. Top(t) \in Frames /\ Frames' = Frames \ {Top(t)}
  BY <1>1, ThenFrames, Pushed0 DEF Frames
<1>3. /\ Top(t).at = l /\ Top(t).session = None /\ Top(t).thread = t
      /\ Top(t).depth = Len(todo[t])
  BY FrameFields DEF At, Top
<1>4. \A f \in Frames : ~Under(Top(t), f)
  BY <1>3, TopIsTop
<1>5. \A e \in Frames : e.at \in Marks => e = Top(t)
  BY <1>2, <1>3 DEF LockHeld
<1>6. ASSUME NEW b \in Buffers, ~Alone(b) PROVE Sending(b) = {}
  <2>1. \A f \in Sending(b) : f \in Frames
    BY DEF Sending
  <2>2. \A f \in Sending(b) : \E e \in Frames : e.at \in Marks /\ Under(e, f)
    BY <1>6 DEF Broadcasting, Marks
  <2> QED
    BY <1>4, <1>5, <2>1, <2>2
<1> QED
  BY <1>2, <1>3, <1>4, <1>5, <1>6

LEMMA EndingSame ==
    ASSUME NEW r \in Sessions, Ending(r), Mine(r)' = Mine(r), r \in known => r \in known',
           r \in released' <=> r \in released,
           op'[r]["disconnect"] = "idle" <=> op[r]["disconnect"] = "idle"
    PROVE  Ending(r)'
BY DEF Ending, Some

LEMMA SentSame ==
    ASSUME NEW b, SentOnce(b), Sending(b)' = Sending(b), UNCHANGED <<accepted, unsent>>
    PROVE  SentOnce(b)' /\ Reach(b)' = Reach(b)
<1>1. \A s \in Sessions : Queued(s, b)' <=> Queued(s, b)
  BY DEF Queued
<1>2. Reach(b)' = Reach(b)
  BY <1>1 DEF Reach
<1>3. \A f \in Sending(b)' : ~Queued(f.session, b)'
  BY DEF SentOnce, Queued
<1>4. \A s \in Sessions : \A i, j \in 1 .. Len(accepted'[s]) :
         accepted'[s][i] = b /\ accepted'[s][j] = b => i = j
  BY DEF SentOnce
<1>5. b \in unsent' => Reach(b)' = {}
  BY <1>2 DEF SentOnce
<1>6. \A f, g \in Sending(b)' : f.session = g.session => f = g
  BY DEF SentOnce
<1> QED
  BY <1>2, <1>3, <1>4, <1>5, <1>6 DEF SentOnce

LEMMA OrderSame == ASSUME BroadcastsInOneOrder, UNCHANGED accepted PROVE BroadcastsInOneOrder'
BY DEF BroadcastsInOneOrder, Before

LEMMA EndKeeps ==
    ASSUME NEW C, SessionState(C), Sane, NEW t \in Threads, NEW l \in Marks, At(t, None, l), Return(t),
           UNCHANGED <<connected, op, accepted, unsent, known, released>>,
           \/ UNCHANGED <<sessions, swept>>
           \/ l = "clearSessions" /\ sessions' = {} /\ swept' = (swept \ released) \cup sessions
    PROVE  /\ Sane'
           /\ Shallow => Shallow'
           /\ \A r \in Sessions : Mine(r)' = Mine(r)
<1>1. /\ LockHeld /\ Parted /\ Closing /\ Broadcasting
      /\ \A r \in Sessions : Entering(r) /\ Ending(r)
      /\ \A b \in Buffers : SentOnce(b)
      /\ todo \in [Threads -> Seq(C)]
  BY DEF Sane, SessionState
<1>2. /\ Frames' = Frames \ {Top(t)} /\ Top(t) \in Frames /\ Top(t).at = l
      /\ Top(t).session = None
      /\ \A f \in Frames : ~Under(Top(t), f)
      /\ \A e \in Frames : e.at \in Marks => e = Top(t)
      /\ \A b \in Buffers : ~Alone(b) => Sending(b) = {}
  BY <1>1, MarkGone
<1>3. \A r \in Sessions : Mine(r)' = Mine(r)
  BY <1>2, ServiceAssumption DEF Mine, On
<1>4. \A b : Sending(b)' = Sending(b)
  <2>1. Top(t).at \notin {"send", "push"}
    BY <1>2, FollowSteps DEF Marks
  <2> QED
    BY <1>2, <2>1 DEF Sending
<1>5. \A e \in Frames' : e.at \notin Marks
  BY <1>2
<1>6. LockHeld' /\ Closing'
  BY <1>5 DEF LockHeld, Closing, Marks
<1>7. Parted'
  <2>1. CASE UNCHANGED <<sessions, swept>>
    BY <1>1, <2>1 DEF Parted
  <2>2. CASE l = "clearSessions" /\ sessions' = {} /\ swept' = (swept \ released) \cup sessions
    <3>1. sessions \cap connected = {}
      <4>1. \A s \in sessions : s \in connected => \E g \in Mine(s) : Under(Top(t), g)
        BY <1>1, <1>2, <2>2 DEF Closing
      <4> QED
        BY <1>2, <4>1 DEF Mine, On
    <3> QED
      BY <1>1, <2>2, <3>1 DEF Parted
  <2> QED
    BY <2>1, <2>2
<1>8. ASSUME NEW r \in Sessions PROVE Entering(r)' /\ Ending(r)'
  BY <1>1, <1>3, EnteringSame, EndingSame
<1>9. \A b \in Buffers : SentOnce(b)' /\ Reach(b)' = Reach(b)
  BY <1>1, <1>4, SentSame
<1>10. Broadcasting'
  BY <1>2, <1>4, <1>9 DEF Broadcasting, Alone
<1>11. Shallow => Shallow'
  BY <1>2 DEF Shallow
<1> QED
  BY <1>3, <1>6, <1>7, <1>8, <1>9, <1>10, <1>11 DEF Sane

LEMMA ClearCounts ==
    ASSUME Parted, swept' = (swept \ released) \cup sessions, sessions' = {}, sessionCount' = 0,
           UNCHANGED released
    PROVE  CountDrift'
<1>1. swept' \cap released' = {}
  BY DEF Parted
<1>2. Cardinality(swept' \cap released') = 0 /\ Cardinality(sessions') = 0
  BY <1>1, FS_EmptySet
<1> QED
  BY <1>2 DEF CountDrift

(* The sessions themselves are not concerned. *)
LEMMA SessionsSame ==
    ASSUME SessionsOK, \A r \in Sessions : Mine(r)' = Mine(r),
           UNCHANGED <<connected, owner, op, refused, SendVars, UserVars>>
    PROVE  SessionsOK'
<1> SUFFICES ASSUME NEW s \in Sessions PROVE SessionOK(s)'
  BY DEF SessionsOK
<1>1. SessionOK(s)
  BY DEF SessionsOK
<1>2. Begins(s)'
  BY <1>1 DEF SessionOK, Begins, Young, Some, SendVars, UserVars
<1> QED
  BY <1>1, <1>2, SameSides DEF SessionOK

------------------------------------------------------------------------------
(* What happens without a frame, and the dispatches *)

LEMMA QuietKeeps ==
    ASSUME Sane, UNCHANGED <<todo, connected, known, unsent, accepted>>,
           UNCHANGED <<sessions, serviceLock, released, swept>>,
           \A r \in Sessions : \A k \in {"recv", "send", "disconnect"} :
              op'[r][k] = "idle" <=> op[r][k] = "idle"
    PROVE  Sane'
<1>1. /\ LockHeld /\ Parted /\ Closing /\ Broadcasting
      /\ \A r \in Sessions : Entering(r) /\ Ending(r)
      /\ \A b \in Buffers : SentOnce(b)
  BY DEF Sane
<1>2. Frames' = Frames /\ \A r \in Sessions : Mine(r)' = Mine(r)
  BY DEF Frames, Mine, On
<1>3. \A b : Sending(b)' = Sending(b)
  BY <1>2 DEF Sending
<1>4. \A b \in Buffers : SentOnce(b)' /\ Reach(b)' = Reach(b)
  BY <1>1, <1>3, SentSame
<1>5. Broadcasting'
  BY <1>1, <1>2, <1>3, <1>4 DEF Broadcasting, Alone, Before
<1>6. \A r \in Sessions : Entering(r)' /\ Ending(r)'
  BY <1>1, <1>2, EnteringSame, EndingSame
<1>7. LockHeld' /\ Parted'
  BY <1>1, <1>2 DEF LockHeld, Parted
<1>8. Closing'
  BY <1>1, <1>2 DEF Closing, Mine, Under
<1> QED
  BY <1>4, <1>5, <1>6, <1>7, <1>8 DEF Sane

LEMMA PushedOne ==
    ASSUME NEW C, todo \in [Threads -> Seq(C)], NEW t \in Threads, NEW a,
           todo' = [todo EXCEPT ![t] = <<a>> \o @]
    PROVE  /\ Len(todo[t]) \in Nat
           /\ Frames' = Frames \cup {Frame(t, Len(todo[t]) + 1, a)}
<1>1. <<a>> \in Seq({a}) /\ Len(todo[t]) \in Nat
  OBVIOUS
<1>2. FramesOf(todo') = Frames \cup Pushed(t, Len(todo[t]), <<a>>)
  BY <1>1, CallFrames
<1>3. Pushed(t, Len(todo[t]), <<a>>) = {Frame(t, Len(todo[t]) + 1, a)}
  BY <1>1, Pushed1
<1> QED
  BY <1>1, <1>2, <1>3 DEF Frames

(* New frames change nothing that is not about them. *)
LEMMA FramesAdded ==
    ASSUME NEW N, Frames' = Frames \cup N, Sane,
           \A n \in N : n.at \notin Marks,
           UNCHANGED <<connected, known, sessions, serviceLock, released, swept>>
    PROVE  LockHeld' /\ Parted' /\ Closing'
<1>1. Parted'
  BY DEF Sane, Parted
<1>2. LockHeld'
  BY DEF Sane, LockHeld
<1>3. Closing'
  <2> SUFFICES ASSUME NEW e \in Frames', e.at = "clearSessions", NEW s \in sessions, s \in connected
               PROVE  \E g \in Mine(s)' : g.at = "disconnect" /\ Under(e, g)
    BY DEF Closing, Under
  <2>1. e \in Frames
    BY DEF Marks
  <2> QED
    BY <2>1 DEF Sane, Closing, Mine, On
<1> QED
  BY <1>1, <1>2, <1>3

LEMMA ShallowAdded ==
    ASSUME NEW N, Frames' = Frames \cup N, Shallow,
           \A n \in N : n.depth + Height[n.at] <= Cardinality(Sessions) + 6
    PROVE  Shallow'
BY DEF Shallow

LEMMA BroadcastingSame ==
    ASSUME Broadcasting, \A e \in Frames : e.at \in Marks => e \in Frames', UNCHANGED accepted,
           \A b \in Buffers : Sending(b)' = Sending(b) /\ Reach(b)' = Reach(b)
    PROVE  Broadcasting'
<1>1. \A b \in Buffers : Alone(b)' <=> Alone(b)
  BY DEF Alone
<1>2. \A r, b, c : Before(r, b, c)' <=> Before(r, b, c)
  BY DEF Before
<1> SUFFICES ASSUME NEW b \in Buffers, ~Alone(b)', NEW f \in Sending(b)'
             PROVE  /\ \E e \in Frames' : e.at = "endBroadcast" /\ Under(e, f)
                    /\ \A c \in Buffers : ~Alone(c)' =>
                          /\ Sending(c)' # {} => c = b
                          /\ \A r \in Sessions : ~Before(r, b, c)'
  BY DEF Broadcasting, Under
<1>3. ~Alone(b) /\ f \in Sending(b)
  BY <1>1
<1>4. /\ \E e \in Frames : e.at = "endBroadcast" /\ Under(e, f)
      /\ \A c \in Buffers : ~Alone(c) =>
            /\ Sending(c) # {} => c = b
            /\ \A r \in Sessions : ~Before(r, b, c)
  BY <1>3 DEF Broadcasting
<1> QED
  BY <1>1, <1>2, <1>4 DEF Marks

LEMMA DispatchSane ==
    ASSUME NEW C, SessionState(C), SessionsOK, Sane, NEW t \in Threads, NEW s \in Sessions,
           NEW k \in Kinds, Dispatch(t, s, k), UNCHANGED serviceVars
    PROVE  Sane' /\ (Shallow => Shallow')
<1> DEFINE l == Processing[k]  a == With(l, s, op[s][k])
<1>1. /\ todo \in [Threads -> Seq(C)] /\ todo[t] = <<>> /\ op[s][k] # "idle"
      /\ op' = [op EXCEPT ![s][k] = "idle"]
      /\ op \in [Sessions -> [Kinds -> {"idle", "pending", "ok", "zero"}]]
      /\ todo' = [todo EXCEPT ![t] = <<a>>]
      /\ UNCHANGED <<connected, known, unsent, accepted>>
      /\ UNCHANGED <<sessions, serviceLock, released, swept>>
  BY DEF Dispatch, SessionState, SessionTypes, SendVars, UserVars, serviceVars
<1>2. /\ op'[s][k] = "idle"
      /\ \A r \in Sessions, j \in Kinds : op'[r][j] = op[r][j] \/ (r = s /\ j = k)
  BY <1>1, OpPending
<1>3. /\ l \in {"processConnect", "processDisconnect", "processRecv", "processSend"}
      /\ l = "processConnect" <=> k = "connect"
      /\ l = "processDisconnect" <=> k = "disconnect"
      /\ a.at = l /\ a.session = s
  BY DEF Processing, Kinds, With
<1>4. Height[l] <= Cardinality(Sessions) + 5 /\ Height[l] \in Nat /\ Cardinality(Sessions) \in Nat
  <2>1. l \in Steps
    BY <1>3 DEF Steps
  <2> QED
    BY <1>3, <2>1, HeightIs
<1> DEFINE n == Frame(t, 1, a)
<1>5. Frames' = Frames \cup {n}
  <2> HIDE DEF a
  <2>1. <<a>> \o <<>> = <<a>> /\ Len(<<>>) = 0
    OBVIOUS
  <2>2. todo' = [todo EXCEPT ![t] = <<a>> \o @] /\ Len(todo[t]) + 1 = 1
    BY <1>1, <2>1
  <2> QED
    BY <1>1, <2>2, PushedOne
<1>6. n.at = l /\ n.session = s /\ n.depth = 1
  BY <1>3, FrameFields
<1> HIDE DEF n, l, a
<1>7. n.depth + Height[n.at] <= Cardinality(Sessions) + 6
  BY <1>4, <1>6
<1>8. n.at \notin Marks /\ n.at \notin {"send", "push"}
  BY <1>3, <1>6 DEF Marks
<1>9. LockHeld' /\ Parted' /\ Closing' /\ (Shallow => Shallow')
  <2> DEFINE N == {n}
  <2>1. \A f \in N : f.at \notin Marks
    BY <1>8
  <2>2. \A f \in N : f.depth + Height[f.at] <= Cardinality(Sessions) + 6
    BY <1>7
  <2>3. Frames' = Frames \cup N
    BY <1>5
  <2> HIDE DEF N
  <2>4. LockHeld' /\ Parted' /\ Closing'
    BY <1>1, <2>1, <2>3, FramesAdded
  <2>5. Shallow => Shallow'
    BY <2>2, <2>3, ShallowAdded
  <2> QED
    BY <2>4, <2>5
<1>10. /\ Mine(s)' = Mine(s) \cup {n}
       /\ \A r : r # s => Mine(r)' = Mine(r)
       /\ \A b : Sending(b)' = Sending(b)
  BY <1>5, <1>6, <1>8 DEF Mine, On, Sending
<1>11. \A b \in Buffers : SentOnce(b)' /\ Reach(b)' = Reach(b)
  BY <1>1, <1>10, SentSame DEF Sane
<1>12. Broadcasting'
  BY <1>1, <1>5, <1>10, <1>11, BroadcastingSame DEF Sane
<1>13. ASSUME NEW r \in Sessions, r # s PROVE Entering(r)' /\ Ending(r)'
  <2>1. \A j \in {"recv", "send", "disconnect"} : op'[r][j] = op[r][j]
    BY <1>2, <1>13 DEF Kinds
  <2>2. Entering(r) /\ Ending(r)
    BY DEF Sane
  <2> QED
    BY <1>1, <1>10, <1>13, <2>1, <2>2, EnteringSame, EndingSame
<1>14. CASE k = "connect"
  <2>1. Young(s) /\ Begins(s) /\ Mine(s) = {}
    BY <1>1, <1>14 DEF SessionsOK, SessionOK, Begins, Young
  <2>2. s \notin connected /\ s \notin known /\ Mine(s)' = {n}
        /\ \A j \in {"recv", "send", "disconnect"} : op[s][j] = "idle"
    BY <1>10, <2>1 DEF Begins, Kinds
  <2>3. \A j \in {"recv", "send", "disconnect"} : op'[s][j] = "idle"
    BY <1>2, <2>2 DEF Kinds
  <2>4. Entering(s)'
    BY <1>1, <1>3, <1>6, <1>14, <2>2, <2>3 DEF Entering
  <2>5. Ending(s)'
    BY <1>3, <1>6, <1>14, <2>2, <2>3, Uses DEF Ending, Some
  <2> QED
    BY <1>9, <1>11, <1>12, <1>13, <2>4, <2>5 DEF Sane
<1>15. CASE k # "connect"
  <2>1. Entering(s) /\ Ending(s) /\ k \in {"recv", "send", "disconnect"}
    BY <1>15 DEF Sane, Kinds
  <2>2. s \in known
    BY <1>1, <2>1 DEF Entering
  <2>3. Entering(s)'
    BY <1>1, <1>3, <1>6, <1>10, <2>1, <2>2 DEF Entering, Some
  <2>4. Ending(s)'
    <3>1. CASE k = "disconnect"
      BY <1>1, <2>1, <3>1 DEF Ending
    <3>2. CASE k # "disconnect"
      <4>1. op'[s]["disconnect"] = op[s]["disconnect"]
        BY <1>2, <3>2 DEF Kinds
      <4>2. Some(s, UsesEvent["disconnect"])' <=> Some(s, UsesEvent["disconnect"])
        BY <1>3, <1>6, <1>10, <3>2, Uses DEF Some
      <4> QED
        BY <1>1, <2>1, <4>1, <4>2 DEF Ending
    <3> QED
      BY <3>1, <3>2
  <2> QED
    BY <1>9, <1>11, <1>12, <1>13, <2>3, <2>4 DEF Sane
<1> QED
  BY <1>14, <1>15
------------------------------------------------------------------------------
(* The calls of user code *)

LEMMA UserDepth ==
    ASSUME NEW C, todo \in [Threads -> Seq(C)], Shallow, NEW t \in Threads, InUserCode(t)
    PROVE  Len(todo[t]) \in Nat /\ Len(todo[t]) <= 3 /\ Cardinality(Sessions) \in Nat
<1>1. Len(todo[t]) \in Nat /\ Cardinality(Sessions) \in Nat
  BY HeightIs, Lengths
<1>2. CASE todo[t] = <<>>
  BY <1>1, <1>2
<1>3. CASE todo[t] # <<>>
  <2>1. Top(t) \in FramesIn(t, todo[t])
    BY <1>3, TopFrame DEF Top
  <2>2. Top(t) \in Frames
    BY <2>1 DEF Frames, FramesOf
  <2>3. Top(t).at \in Callbacks /\ Top(t).depth = Len(todo[t])
    BY <1>3, FrameFields DEF InUserCode, Top
  <2>4. Height[Top(t).at] = Cardinality(Sessions) + 3
    BY <2>3, HeightIs
  <2> QED
    BY <1>1, <2>2, <2>3, <2>4 DEF Shallow
<1> QED
  BY <1>2, <1>3

LEMMA CallHeight ==
    /\ Height["send"] = 2 /\ Height["disconnect"] = 1
    /\ Height["endBroadcast"] = 1 /\ Height["clearSessions"] = 1
BY HeightIs DEF Marks

(* User code calls functions of sessions that were added. *)
LEMMA UserFramesKeep ==
    ASSUME NEW N, Frames' = Frames \cup N, \A r \in Sessions : Entering(r) /\ Ending(r),
           \A n \in N : \/ n.at \in {"send", "disconnect"} /\ n.session \in known
                        \/ n.session = None,
           UNCHANGED <<connected, known, op, released>>
    PROVE  \A r \in Sessions : Entering(r)' /\ Ending(r)'
<1> SUFFICES ASSUME NEW r \in Sessions PROVE Entering(r)' /\ Ending(r)'
  OBVIOUS
<1>1. \A f \in Mine(r)' : f \in Mine(r) \/ (f.at \in {"send", "disconnect"} /\ r \in known)
  BY ServiceAssumption DEF Mine, On
<1>2. Mine(r) \subseteq Mine(r)'
  BY DEF Mine, On
<1>3. CASE r \notin known
  <2>1. Mine(r)' = Mine(r)
    BY <1>1, <1>2, <1>3
  <2> QED
    BY <2>1, EnteringSame, EndingSame
<1>4. CASE r \in known
  <2>1. ~Some(r, {"addSession"})'
    BY <1>1, <1>4 DEF Entering, Some
  <2>2. Some(r, UsesEvent["disconnect"])' => Some(r, UsesEvent["disconnect"])
    BY <1>1, Uses DEF Some
  <2> QED
    BY <1>4, <2>1, <2>2 DEF Entering, Ending
<1> QED
  BY <1>3, <1>4

LEMMA CallDisconnectSane ==
    ASSUME NEW C, SessionState(C), Sane, NEW t \in Threads, NEW s \in Sessions,
           CallDisconnect(t, s), UNCHANGED serviceVars
    PROVE  Sane' /\ (Shallow => Shallow')
<1> DEFINE a == Step("disconnect", s)  n == Frame(t, Len(todo[t]) + 1, a)  N == {n}
<1>1. /\ todo \in [Threads -> Seq(C)] /\ InUserCode(t) /\ s \in known
      /\ todo' = [todo EXCEPT ![t] = <<a>> \o @]
      /\ UNCHANGED <<connected, known, unsent, accepted, op>>
      /\ UNCHANGED <<sessions, serviceLock, released, swept>>
  BY DEF CallDisconnect, Call, SessionState, SendVars, UserVars, serviceVars
<1>2. a.at = "disconnect" /\ a.session = s
  BY StepIs
<1> HIDE DEF a
<1>3. Frames' = Frames \cup N
  BY <1>1, PushedOne
<1>4. n.at = "disconnect" /\ n.session = s /\ n.depth = Len(todo[t]) + 1
  BY <1>2, FrameFields
<1> HIDE DEF n
<1>5. Shallow => n.depth + Height[n.at] <= Cardinality(Sessions) + 6
  <2>1. Shallow => Len(todo[t]) \in Nat /\ Len(todo[t]) <= 3 /\ Cardinality(Sessions) \in Nat
    BY <1>1, UserDepth
  <2> QED
    BY <1>4, <2>1, CallHeight
<1>6. \A f \in N : f.at = "disconnect" /\ f.session = s /\ f.at \notin Marks
  BY <1>4 DEF Marks
<1>12. Shallow => \A f \in N : f.depth + Height[f.at] <= Cardinality(Sessions) + 6
  BY <1>5
<1> HIDE DEF N
<1>7. LockHeld' /\ Parted' /\ Closing'
  BY <1>1, <1>3, <1>6, FramesAdded
<1>13. Shallow => Shallow'
  BY <1>3, <1>12, ShallowAdded
<1>8. \A r \in Sessions : Entering(r)' /\ Ending(r)'
  BY <1>1, <1>3, <1>6, UserFramesKeep DEF Sane
<1>9. \A b : Sending(b)' = Sending(b)
  BY <1>3, <1>6 DEF Sending
<1>10. \A b \in Buffers : SentOnce(b)' /\ Reach(b)' = Reach(b)
  BY <1>1, <1>9, SentSame DEF Sane
<1>11. Broadcasting'
  BY <1>1, <1>3, <1>9, <1>10, BroadcastingSame DEF Sane
<1> QED
  BY <1>7, <1>8, <1>10, <1>11, <1>13 DEF Sane

(* A buffer that was not sent yet goes to the sessions of the frames N. *)
LEMMA SendsJoin ==
    ASSUME NEW C, CallsOf(C), todo \in [Threads -> Seq(C)], NEW b \in Buffers, b \in unsent,
           \A c \in Buffers : SentOnce(c),
           NEW N, Frames' = Frames \cup N,
           \A n \in N : (n.at = "send" /\ n.arg = b /\ n.session \in Sessions) \/ n.at \in Marks,
           \A n, m \in N : n.at = "send" /\ m.at = "send" /\ n.session = m.session => n = m,
           unsent' = unsent \ {b}, UNCHANGED accepted
    PROVE  /\ \A s \in Sessions : ~Queued(s, b)
           /\ \A f \in Sending(b)' : f \in N /\ f.at = "send"
           /\ \A c \in Buffers : SentOnce(c)'
           /\ \A c \in Buffers : c # b => Sending(c)' = Sending(c) /\ Reach(c)' = Reach(c)
<1>1. Reach(b) = {}
  BY DEF SentOnce
<1>2. \A s \in Sessions : ~Queued(s, b)
  BY <1>1 DEF Reach
<1>3. Sending(b) = {}
  <2>1. \A f \in Sending(b) : f.session \in Sessions
    <3>1. \A f \in Sending(b) : f \in Frames /\ f.at \in Steps
      BY DEF Sending, Steps
    <3> QED
      BY <3>1, FrameSession
  <2> QED
    BY <1>1, <2>1 DEF Reach
<1>4. \A n \in N : n.at \in {"send", "push"} => n.at = "send" /\ n.arg = b
  BY DEF Marks
<1>5. \A f \in Sending(b)' : f \in N /\ f.at = "send"
  BY <1>3, <1>4 DEF Sending
<1>6. ASSUME NEW c \in Buffers, c # b
      PROVE  SentOnce(c)' /\ Sending(c)' = Sending(c) /\ Reach(c)' = Reach(c)
  <2>1. Sending(c)' = Sending(c)
    BY <1>4, <1>6 DEF Sending
  <2>2. \A s \in Sessions : Queued(s, c)' <=> Queued(s, c)
    BY DEF Queued
  <2>3. Reach(c)' = Reach(c)
    BY <2>1, <2>2 DEF Reach
  <2>4. c \in unsent' => Reach(c)' = {}
    BY <2>3 DEF SentOnce
  <2>5. \A f, g \in Sending(c)' : f.session = g.session => f = g
    BY <2>1 DEF SentOnce
  <2>6. \A f \in Sending(c)' : ~Queued(f.session, c)'
    BY <2>1 DEF SentOnce, Queued
  <2>7. \A s \in Sessions : \A i, j \in 1 .. Len(accepted'[s]) :
           accepted'[s][i] = c /\ accepted'[s][j] = c => i = j
    BY DEF SentOnce
  <2> QED
    BY <2>1, <2>3, <2>4, <2>5, <2>6, <2>7 DEF SentOnce
<1>7. SentOnce(b)'
  <2>1. \A f \in Sending(b)' : f \in N /\ f.at = "send" /\ f.session \in Sessions
    BY <1>5, FollowSteps DEF Marks, Steps
  <2>2. \A f \in Sending(b)' : ~Queued(f.session, b)'
    BY <1>2, <2>1 DEF Queued
  <2>3. \A f, g \in Sending(b)' : f.session = g.session => f = g
    BY <2>1
  <2>4. \A s \in Sessions : \A i, j \in 1 .. Len(accepted'[s]) :
           accepted'[s][i] = b /\ accepted'[s][j] = b => i = j
    BY DEF SentOnce
  <2> QED
    BY <2>2, <2>3, <2>4 DEF SentOnce
<1> QED
  BY <1>2, <1>5, <1>6, <1>7

LEMMA CallSendSane ==
    ASSUME NEW C, CallsOf(C), SessionState(C), Sane, NEW t \in Threads, NEW s \in Sessions,
           NEW b \in Buffers, CallSend(t, s, b), UNCHANGED serviceVars
    PROVE  Sane' /\ (Shallow => Shallow')
<1> DEFINE a == With("send", s, b)  n == Frame(t, Len(todo[t]) + 1, a)  N == {n}
<1>1. /\ todo \in [Threads -> Seq(C)] /\ InUserCode(t) /\ s \in known
      /\ b \in unsent /\ unsent' = unsent \ {b}
      /\ todo' = [todo EXCEPT ![t] = <<a>> \o @]
      /\ UNCHANGED <<connected, known, accepted, op>>
      /\ UNCHANGED <<sessions, serviceLock, released, swept>>
  BY DEF CallSend, Call, SessionState, SendVars, UserVars, serviceVars
<1>2. a.at = "send" /\ a.session = s /\ a.arg = b
  BY DEF With
<1> HIDE DEF a
<1>3. Frames' = Frames \cup N
  BY <1>1, PushedOne
<1>4. n.at = "send" /\ n.session = s /\ n.arg = b /\ n.depth = Len(todo[t]) + 1
  BY <1>2, FrameFields
<1> HIDE DEF n
<1>5. Shallow => n.depth + Height[n.at] <= Cardinality(Sessions) + 6
  <2>1. Shallow => Len(todo[t]) \in Nat /\ Len(todo[t]) <= 3 /\ Cardinality(Sessions) \in Nat
    BY <1>1, UserDepth
  <2> QED
    BY <1>4, <2>1, CallHeight
<1>6. /\ \A f \in N : f.at = "send" /\ f.session = s /\ f.arg = b /\ f.at \notin Marks
      /\ \A f, g \in N : f = g
  BY <1>4 DEF Marks
<1>12. Shallow => \A f \in N : f.depth + Height[f.at] <= Cardinality(Sessions) + 6
  BY <1>5
<1> HIDE DEF N
<1>7. LockHeld' /\ Parted' /\ Closing'
  BY <1>1, <1>3, <1>6, FramesAdded
<1>13. Shallow => Shallow'
  BY <1>3, <1>12, ShallowAdded
<1>8. \A r \in Sessions : Entering(r)' /\ Ending(r)'
  BY <1>1, <1>3, <1>6, UserFramesKeep DEF Sane
<1>9. /\ \A r \in Sessions : ~Queued(r, b)
      /\ \A f \in Sending(b)' : f \in N /\ f.at = "send"
      /\ \A c \in Buffers : SentOnce(c)'
      /\ \A c \in Buffers : c # b => Sending(c)' = Sending(c) /\ Reach(c)' = Reach(c)
  <2>1. /\ \A f \in N : (f.at = "send" /\ f.arg = b /\ f.session \in Sessions) \/ f.at \in Marks
        /\ \A f, g \in N : f.at = "send" /\ g.at = "send" /\ f.session = g.session => f = g
        /\ \A c \in Buffers : SentOnce(c)
    BY <1>6 DEF Sane
  <2> QED
    BY <1>1, <1>3, <2>1, SendsJoin
<1>10. Alone(b)'
  <2>1. \A r \in Sessions : ~Queued(r, b)'
    BY <1>1, <1>9 DEF Queued
  <2>2. \A r \in Reach(b)' : r = s
    BY <1>6, <1>9, <2>1 DEF Reach
  <2> QED
    BY <2>2 DEF Alone
<1>11. Broadcasting'
  <2> SUFFICES ASSUME NEW c \in Buffers, ~Alone(c)', NEW f \in Sending(c)'
               PROVE  /\ \E e \in Frames' : e.at = "endBroadcast" /\ Under(e, f)
                      /\ \A d \in Buffers : ~Alone(d)' =>
                            /\ Sending(d)' # {} => d = c
                            /\ \A r \in Sessions : ~Before(r, c, d)'
    BY DEF Broadcasting, Under
  <2>1. \A d \in Buffers : ~Alone(d)' => d # b /\ ~Alone(d) /\ Sending(d)' = Sending(d)
    BY <1>9, <1>10 DEF Alone
  <2>2. \A r \in Sessions : \A d : Before(r, c, d)' <=> Before(r, c, d)
    BY <1>1 DEF Before
  <2>3. /\ \E e \in Frames : e.at = "endBroadcast" /\ Under(e, f)
        /\ \A d \in Buffers : ~Alone(d) =>
              /\ Sending(d) # {} => d = c
              /\ \A r \in Sessions : ~Before(r, c, d)
    BY <2>1 DEF Sane, Broadcasting
  <2> QED
    BY <1>3, <2>1, <2>2, <2>3
<1> QED
  BY <1>7, <1>8, <1>9, <1>11, <1>13 DEF Sane
------------------------------------------------------------------------------
(* Broadcast and CloseService *)

LEMMA CallsInOrder ==
    ASSUME NEW D, NEW n \in Nat, NEW S, NEW f \in [1 .. n -> S], NEW calls,
           \A s \in S : calls[s] \in D, NEW x \in D,
           NEW q, q = [i \in DOMAIN f |-> calls[f[i]]] \o <<x>>
    PROVE  /\ q \in Seq(D) /\ Len(q) = n + 1
           /\ \A i \in 1 .. n : q[i] = calls[f[i]]
           /\ q[n + 1] = x
<1> DEFINE p == [i \in DOMAIN f |-> calls[f[i]]]
<1>1. DOMAIN f = 1 .. n /\ \A i \in 1 .. n : f[i] \in S
  OBVIOUS
<1>2. p \in [1 .. n -> D] /\ \A i \in 1 .. n : p[i] = calls[f[i]]
  BY <1>1
<1>3. p \in Seq(D) /\ Len(p) = n
  BY <1>2
<1>4. <<x>> \in Seq(D) /\ Len(<<x>>) = 1 /\ <<x>>[1] = x
  OBVIOUS
<1>8. q = p \o <<x>>
  OBVIOUS
<1> HIDE DEF p
<1>5. q \in Seq(D) /\ Len(q) = n + 1
  BY <1>3, <1>4, <1>8
<1>6. \A i \in 1 .. n : q[i] = p[i]
  BY <1>3, <1>4, <1>8
<1>7. q[n + 1] = x
  BY <1>3, <1>4, <1>8
<1> QED
  BY <1>2, <1>5, <1>6, <1>7 DEF p

(* The frames of the calls of ForEach: the mark e, and a call of l for every
   session of the set. *)
Each(t, l, arg, last, N, e) ==
    /\ Frames' = Frames \cup N /\ e \in N
    /\ e.at = last /\ e.session = None /\ e.thread = t /\ e.depth = Len(todo[t]) + 1
    /\ \A n \in N : n # e => n.at = l /\ n.session \in sessions /\ n.arg = arg /\ Under(e, n)
    /\ \A n, m \in N : n # e /\ m # e /\ n.session = m.session => n = m
    /\ \A s \in sessions : \E n \in N : n # e /\ n.session = s
    /\ \A n \in N : n.depth \in Nat /\ n.depth <= Len(todo[t]) + Cardinality(Sessions) + 1

(* The calls of one step, for every session. *)
Alike(calls, D, l, arg) ==
    \A s \in Sessions : /\ calls[s] \in D /\ calls[s].at = l /\ calls[s].session = s
                        /\ calls[s].arg = arg

LEMMA EachCalled ==
    ASSUME NEW C, todo \in [Threads -> Seq(C)], NEW D, ServiceTyped, NEW t \in Threads, NEW last,
           Step(last, None) \in D, NEW calls, NEW l, NEW arg, ForEach(t, calls, last),
           Alike(calls, D, l, arg)
    PROVE  /\ \E N : \E e : Each(t, l, arg, last, N, e)
           /\ \E q \in Seq(D) : Call(t, q)
<1> DEFINE n == Cardinality(sessions)  m == Len(todo[t])  x == Step(last, None)
<1>1. /\ sessions \subseteq Sessions /\ IsFiniteSet(Sessions) /\ IsFiniteSet(sessions)
      /\ Cardinality(sessions) <= Cardinality(Sessions)
  BY ServiceAssumption, FS_Subset DEF ServiceTyped
<1>25. \A s \in Sessions : /\ calls[s] \in D /\ calls[s].at = l /\ calls[s].session = s
                            /\ calls[s].arg = arg
  BY DEF Alike
<1>2. n \in Nat /\ m \in Nat /\ Cardinality(Sessions) \in Nat /\ n <= Cardinality(Sessions)
  BY <1>1, FS_CardinalityType, Lengths
<1>3. PICK f \in [1 .. n -> sessions] :
         IsInjective(f) /\ Call(t, [i \in DOMAIN f |-> calls[f[i]]] \o <<x>>)
  BY DEF ForEach, Traversals
<1> DEFINE q == [i \in DOMAIN f |-> calls[f[i]]] \o <<x>>
<1>4. /\ q \in Seq(D) /\ Len(q) = n + 1
      /\ \A i \in 1 .. n : q[i] = calls[f[i]]
      /\ q[n + 1] = x
  <2>1. n \in Nat /\ f \in [1 .. n -> sessions] /\ x \in D /\ \A s \in sessions : calls[s] \in D
    BY <1>1, <1>2, <1>25
  <2>2. q = [i \in DOMAIN f |-> calls[f[i]]] \o <<x>>
    OBVIOUS
  <2> HIDE DEF n, x, q
  <2> QED
    BY <2>1, <2>2, CallsInOrder
<1>5. \A s \in sessions : \E i \in 1 .. n : f[i] = s
  <2>1. f \in Injection(1 .. n, sessions)
    BY <1>3 DEF Injection
  <2>2. Cardinality(1 .. n) = n
    <3>1. 1 \in Int /\ n \in Int
      BY <1>2
    <3>2. Cardinality(1 .. n) = IF 1 > n THEN 0 ELSE n - 1 + 1
      BY <3>1, FS_Interval
    <3> QED
      BY <1>2, <3>2
  <2>3. f \in Surjection(1 .. n, sessions)
    BY <1>1, <2>1, <2>2, FS_Injection
  <2> QED
    BY <2>3 DEF Surjection
<1>6. \A i, j \in 1 .. n : f[i] = f[j] => i = j
  BY <1>3 DEF IsInjective
<1>7. \A i \in 1 .. n : f[i] \in sessions /\ f[i] \in Sessions
  BY <1>1
<1>8. Call(t, q)
  BY <1>3
<1> HIDE DEF q
<1>9. FramesOf(todo') = Frames \cup Pushed(t, m, q)
  BY <1>4, <1>8, CallFrames DEF Call
<1> DEFINE N == Pushed(t, m, q)  F(j) == Frame(t, m + (n + 1) + 1 - j, q[j])  e == F(n + 1)
<1>10. (\A j \in 1 .. n + 1 : F(j) \in N) /\ \A g \in N : \E j \in 1 .. n + 1 : g = F(j)
  BY <1>4 DEF Pushed
<1>11. x.at = last /\ x.session = None
  BY StepIs
<1> HIDE DEF x, n, m
<1>12. e.at = last /\ e.session = None /\ e.thread = t /\ e.depth = m + 1
  <2>1. m + (n + 1) + 1 - (n + 1) = m + 1
    BY <1>2 DEF n, m
  <2> QED
    BY <1>4, <1>11, <2>1, FrameFields
<1>13. ASSUME NEW j \in 1 .. n
       PROVE  /\ F(j).at = l /\ F(j).session = f[j] /\ F(j).arg = arg /\ F(j).thread = t
              /\ F(j).depth = m + n + 2 - j
  <2>1. m + (n + 1) + 1 - j = m + n + 2 - j
    BY <1>2 DEF n, m
  <2> QED
    BY <1>4, <1>7, <1>25, <2>1, FrameFields DEF n
<1>14. n + 1 \in 1 .. n + 1 /\ \A j \in 1 .. n + 1 : j \in 1 .. n \/ j = n + 1
  BY <1>2 DEF n
<1>15. \A j \in 1 .. n : j \in 1 .. n + 1 /\ m + n + 2 - j \in Nat /\ m + n + 2 - j > m + 1
                         /\ m + n + 2 - j <= m + Cardinality(Sessions) + 1
  BY <1>2 DEF n, m
<1> HIDE DEF F, N
<1>16. \A g \in N : g = e \/ \E j \in 1 .. n : g = F(j)
  BY <1>10, <1>14 DEF F
<1>17. \A j \in 1 .. n : F(j) \in N /\ F(j) # e
  <2>1. \A j \in 1 .. n : F(j).depth # e.depth
    BY <1>12, <1>13, <1>15
  <2> QED
    BY <1>10, <1>15, <2>1
<1>18. e \in N
  BY <1>10, <1>14
<1> HIDE DEF e
<1>19. \A g \in N : g # e => g.at = l /\ g.session \in sessions /\ g.arg = arg /\ Under(e, g)
  BY <1>7, <1>12, <1>13, <1>15, <1>16 DEF Under, n
<1>20. \A g, h \in N : g # e /\ h # e /\ g.session = h.session => g = h
  BY <1>6, <1>13, <1>16 DEF n
<1>21. \A s \in sessions : \E g \in N : g # e /\ g.session = s
  BY <1>5, <1>13, <1>17 DEF n
<1>22. \A g \in N : g.depth \in Nat /\ g.depth <= m + Cardinality(Sessions) + 1
  <2>1. m + 1 \in Nat /\ m + 1 <= m + Cardinality(Sessions) + 1
    BY <1>2 DEF m
  <2> QED
    BY <1>12, <1>13, <1>15, <1>16, <2>1
<1>23. Frames' = Frames \cup N
  BY <1>9 DEF N, Frames
<1>24. Each(t, l, arg, last, N, e)
  BY <1>12, <1>18, <1>19, <1>20, <1>21, <1>22, <1>23 DEF Each, m
<1> QED
  BY <1>4, <1>8, <1>24

LEMMA EachKeeps ==
    ASSUME NEW C, todo \in [Threads -> Seq(C)], Sane, NEW t \in Threads,
           NEW l \in {"send", "disconnect"}, NEW arg, NEW last \in Marks, NEW N, NEW e,
           Each(t, l, arg, last, N, e), InUserCode(t), serviceLock = None, serviceLock' = t,
           UNCHANGED <<connected, known, op, sessions, released, swept>>
    PROVE  /\ LockHeld' /\ Parted' /\ \A r \in Sessions : Entering(r)' /\ Ending(r)'
           /\ \A f \in Frames : f.at \notin Marks
           /\ \A f \in Frames' : f.at \in Marks => f = e
<1>1. /\ Frames' = Frames \cup N /\ e \in N
      /\ e.at = last /\ e.session = None /\ e.thread = t /\ e.depth = Len(todo[t]) + 1
      /\ \A n \in N : n # e => n.at = l /\ n.session \in sessions /\ n.arg = arg /\ Under(e, n)
      /\ \A n \in N : n.depth \in Nat /\ n.depth <= Len(todo[t]) + Cardinality(Sessions) + 1
  BY DEF Each
<1>2. \A f \in Frames : f.at \notin Marks
  BY NoMarks DEF Sane
<1>3. l \notin Marks
  BY DEF Marks
<1>4. \A f \in Frames' : f.at \in Marks => f = e
  BY <1>1, <1>2, <1>3
<1>5. LockHeld'
  BY <1>1, <1>4 DEF LockHeld
<1>6. Parted'
  BY DEF Sane, Parted
<1>10. \A r \in Sessions : Entering(r)' /\ Ending(r)'
  <2>1. \A n \in N : \/ n.at \in {"send", "disconnect"} /\ n.session \in known
                     \/ n.session = None
    BY <1>1 DEF Sane, Parted
  <2> QED
    BY <1>1, <2>1, UserFramesKeep DEF Sane
<1> QED
  BY <1>2, <1>4, <1>5, <1>6, <1>10

LEMMA EachShallow ==
    ASSUME NEW C, todo \in [Threads -> Seq(C)], Shallow, NEW t \in Threads,
           NEW l \in {"send", "disconnect"}, NEW arg, NEW last \in Marks, NEW N, NEW e,
           Each(t, l, arg, last, N, e), InUserCode(t)
    PROVE  Shallow'
<1>1. /\ Frames' = Frames \cup N /\ e \in N
      /\ e.at = last /\ e.depth = Len(todo[t]) + 1
      /\ \A n \in N : n # e => n.at = l
      /\ \A n \in N : n.depth \in Nat /\ n.depth <= Len(todo[t]) + Cardinality(Sessions) + 1
  BY DEF Each
<1>2. Len(todo[t]) \in Nat /\ Len(todo[t]) <= 3 /\ Cardinality(Sessions) \in Nat
  BY UserDepth
<1>3. ASSUME NEW n \in N PROVE n.depth + Height[n.at] <= Cardinality(Sessions) + 6
  <2>1. Height[l] \in {1, 2} /\ Height[last] = 1
    BY CallHeight DEF Marks
  <2>2. CASE n = e
    BY <1>1, <1>2, <2>1, <2>2
  <2>3. CASE n # e
    <3>1. n.at = l /\ n.depth \in Nat /\ n.depth <= Len(todo[t]) + Cardinality(Sessions) + 1
      BY <1>1, <2>3
    <3> QED
      BY <1>2, <2>1, <3>1
  <2> QED
    BY <2>2, <2>3
<1> QED
  BY <1>1, <1>3, ShallowAdded

LEMMA BroadcastSane ==
    ASSUME NEW C, CallsOf(C), SessionState(C), Sane, ServiceTyped, NEW t \in Threads,
           NEW b \in Buffers, NEW N, NEW e, Each(t, "send", b, "endBroadcast", N, e), InUserCode(t),
           serviceLock = None, serviceLock' = t, b \in unsent, unsent' = unsent \ {b},
           UNCHANGED <<connected, known, op, accepted, sessions, released, swept>>
    PROVE  Sane'
<1>1. /\ Frames' = Frames \cup N /\ e \in N /\ e.at = "endBroadcast" /\ e.at \in Marks
      /\ \A n \in N : n # e => n.at = "send" /\ n.session \in sessions /\ n.arg = b /\ Under(e, n)
      /\ \A n, m \in N : n # e /\ m # e /\ n.session = m.session => n = m
      /\ todo \in [Threads -> Seq(C)]
  BY DEF Each, Marks, SessionState
<1>2. /\ LockHeld' /\ Parted' /\ \A r \in Sessions : Entering(r)' /\ Ending(r)'
      /\ \A f \in Frames : f.at \notin Marks
      /\ \A f \in Frames' : f.at \in Marks => f = e
  <2>1. "endBroadcast" \in Marks /\ "send" \in {"send", "disconnect"}
    BY DEF Marks
  <2>2. UNCHANGED <<connected, known, op, sessions, released, swept>>
    OBVIOUS
  <2>3. Each(t, "send", b, "endBroadcast", N, e) /\ todo \in [Threads -> Seq(C)]
    BY <1>1
  <2>4. /\ LockHeld' /\ Parted' /\ \A r \in Sessions : Entering(r)' /\ Ending(r)'
    BY <2>1, <2>2, <2>3, EachKeeps
  <2>5. \A f \in Frames : f.at \notin Marks
    BY <2>1, <2>2, <2>3, EachKeeps
  <2>6. \A f \in Frames' : f.at \in Marks => f = e
    BY <2>1, <2>2, <2>3, EachKeeps
  <2> QED
    BY <2>4, <2>5, <2>6
<1>3. Closing'
  BY <1>1, <1>2 DEF Closing, Marks
<1>4. /\ \A r \in Sessions : ~Queued(r, b)
      /\ \A f \in Sending(b)' : f \in N /\ f.at = "send"
      /\ \A c \in Buffers : SentOnce(c)'
      /\ \A c \in Buffers : c # b => Sending(c)' = Sending(c) /\ Reach(c)' = Reach(c)
  <2>1. \A n \in N : (n.at = "send" /\ n.arg = b /\ n.session \in Sessions) \/ n.at \in Marks
    BY <1>1 DEF ServiceTyped
  <2>2. \A n, m \in N : n.at = "send" /\ m.at = "send" /\ n.session = m.session => n = m
    BY <1>1
  <2>3. \A c \in Buffers : SentOnce(c)
    BY DEF Sane
  <2>4. UNCHANGED accepted
    OBVIOUS
  <2> QED
    BY <1>1, <2>1, <2>2, <2>3, <2>4, SendsJoin
<1>5. Broadcasting'
  <2> SUFFICES ASSUME NEW c \in Buffers, ~Alone(c)', NEW f \in Sending(c)'
               PROVE  /\ \E g \in Frames' : g.at = "endBroadcast" /\ Under(g, f)
                      /\ \A d \in Buffers : ~Alone(d)' =>
                            /\ Sending(d)' # {} => d = c
                            /\ \A r \in Sessions : ~Before(r, c, d)'
    BY DEF Broadcasting, Under
  <2>1. \A d \in Buffers : d # b /\ ~Alone(d)' => Sending(d)' = {}
    <3> SUFFICES ASSUME NEW d \in Buffers, d # b, ~Alone(d)' PROVE Sending(d)' = {}
      OBVIOUS
    <3>1. ~Alone(d) /\ Sending(d)' = Sending(d)
      BY <1>4 DEF Alone
    <3>2. Sending(d) # {} => \E g \in Frames : g.at = "endBroadcast"
      BY <3>1 DEF Sane, Broadcasting
    <3> QED
      BY <1>2, <3>1, <3>2 DEF Marks
  <2>2. c = b
    BY <2>1
  <2>3. Under(e, f)
    BY <1>1, <1>4, <2>2
  <2>4. \A r \in Sessions : \A d : ~Before(r, b, d)'
    BY <1>4 DEF Queued, Before
  <2> QED
    BY <1>1, <2>1, <2>2, <2>3, <2>4
<1> QED
  BY <1>2, <1>3, <1>4, <1>5 DEF Sane

LEMMA CloseSane ==
    ASSUME NEW C, SessionState(C), Sane, ServiceTyped, NEW t \in Threads,
           NEW N, NEW e, Each(t, "disconnect", None, "clearSessions", N, e), InUserCode(t),
           serviceLock = None, serviceLock' = t,
           UNCHANGED <<connected, known, op, accepted, unsent, sessions, released, swept>>
    PROVE  Sane'
<1>1. /\ Frames' = Frames \cup N /\ e \in N /\ e.at = "clearSessions" /\ e.at \in Marks
      /\ \A n \in N : n # e => n.at = "disconnect" /\ n.session \in sessions /\ Under(e, n)
      /\ \A s \in sessions : \E n \in N : n # e /\ n.session = s
      /\ todo \in [Threads -> Seq(C)]
  BY DEF Each, Marks, SessionState
<1>2. /\ LockHeld' /\ Parted' /\ \A r \in Sessions : Entering(r)' /\ Ending(r)'
      /\ \A f \in Frames : f.at \notin Marks
      /\ \A f \in Frames' : f.at \in Marks => f = e
  <2>1. "clearSessions" \in Marks /\ "disconnect" \in {"send", "disconnect"}
    BY DEF Marks
  <2>2. UNCHANGED <<connected, known, op, sessions, released, swept>>
    OBVIOUS
  <2>3. Each(t, "disconnect", None, "clearSessions", N, e)
    OBVIOUS
  <2>4. todo \in [Threads -> Seq(C)]
    BY <1>1
  <2>5. /\ LockHeld' /\ Parted' /\ \A r \in Sessions : Entering(r)' /\ Ending(r)'
    BY <2>1, <2>2, <2>3, <2>4, EachKeeps
  <2>6. \A f \in Frames : f.at \notin Marks
    BY <2>1, <2>2, <2>3, <2>4, EachKeeps
  <2>7. \A f \in Frames' : f.at \in Marks => f = e
    BY <2>1, <2>2, <2>3, <2>4, EachKeeps
  <2> QED
    BY <2>5, <2>6, <2>7
<1>3. Closing'
  <2> SUFFICES ASSUME NEW s \in sessions PROVE \E g \in Mine(s)' : g.at = "disconnect" /\ Under(e, g)
    BY <1>2 DEF Closing, Under, Marks
  <2> QED
    BY <1>1 DEF Mine, On
<1>4. \A c : Sending(c)' = Sending(c)
  BY <1>1 DEF Sending
<1>5. \A c \in Buffers : SentOnce(c)' /\ Reach(c)' = Reach(c)
  BY <1>4, SentSame DEF Sane
<1>6. Broadcasting'
  BY <1>1, <1>4, <1>5, BroadcastingSame DEF Sane
<1> QED
  BY <1>2, <1>3, <1>5, <1>6 DEF Sane
------------------------------------------------------------------------------
(* The steps together *)

LEMMA ServiceInitOK == ServiceInit => ServiceInv
<1> SUFFICES ASSUME ServiceInit PROVE ServiceInv
  OBVIOUS
<1>1. Init
  BY DEF ServiceInit
<1>2. SessionState(ServiceCalls) /\ SessionsOK
  <2>1. SessionState(Calls) /\ SessionsOK
    BY <1>1, InitOK
  <2>2. todo = [t \in Threads |-> <<>>] /\ <<>> \in Seq(ServiceCalls)
    BY <1>1 DEF Init
  <2> QED
    BY <2>1, <2>2 DEF SessionState
<1>3. Frames = {}
  BY <1>1, NoFrames DEF Init
<1>4. ServiceTyped
  BY DEF ServiceInit, ServiceTyped
<1>5. CountDrift
  <2>1. sessions = {} /\ swept \cap released = {} /\ sessionCount = 0
    BY DEF ServiceInit
  <2>2. Cardinality(sessions) = 0 /\ Cardinality(swept \cap released) = 0
    BY <2>1, FS_EmptySet
  <2> QED
    BY <2>1, <2>2 DEF CountDrift
<1>6. \A s \in Sessions : accepted[s] = <<>> /\ Len(accepted[s]) = 0 /\ 1 .. Len(accepted[s]) = {}
  <2>1. Len(<<>>) = 0 /\ 1 .. 0 = {}
    OBVIOUS
  <2>2. \A s \in Sessions : accepted[s] = <<>>
    BY <1>1 DEF Init
  <2> QED
    BY <2>1, <2>2
<1>7. \A s \in Sessions : \A b, c : ~Queued(s, b) /\ ~Before(s, b, c)
  BY <1>6 DEF Queued, Before
<1>8. BroadcastsInOneOrder
  BY <1>7 DEF BroadcastsInOneOrder
<1>9. \A b : Sending(b) = {} /\ Reach(b) = {}
  BY <1>3, <1>7 DEF Sending, Reach
<1>10. \A b \in Buffers : SentOnce(b)
  BY <1>6, <1>9 DEF SentOnce
<1>11. \A s \in Sessions : Entering(s) /\ Ending(s)
  <2>1. \A s \in Sessions : Mine(s) = {} /\ \A A : ~Some(s, A)
    BY <1>3 DEF Mine, On, Some
  <2>2. \A s \in Sessions, k \in {"recv", "send", "disconnect"} : op[s][k] = "idle"
    BY <1>1 DEF Init, Kinds
  <2>3. connected = {} /\ known = {}
    BY <1>1 DEF Init
  <2> QED
    BY <2>1, <2>2, <2>3 DEF Entering, Ending
<1>12. LockHeld /\ Closing /\ Broadcasting /\ Shallow
  BY <1>3, <1>9 DEF LockHeld, Closing, Broadcasting, Shallow
<1>13. Parted
  BY <1>1 DEF ServiceInit, Init, Parted
<1> QED
  BY <1>2, <1>4, <1>5, <1>8, <1>10, <1>11, <1>12, <1>13
     DEF ServiceInv, Serving, Sane

LEMMA CountSame ==
    ASSUME CountDrift, UNCHANGED <<sessions, sessionCount, released, swept>> PROVE CountDrift'
BY DEF CountDrift

LEMMA TurnShallow ==
    ASSUME NEW C, SessionState(C), Shallow, NEW t \in Threads, NEW s \in Sessions,
           NEW l, NEW N, Turn(t, s, l, N)
    PROVE  Shallow'
<1>1. Took(t, s, l, N) /\ todo \in [Threads -> Seq(C)]
  BY DEF Turn, SessionState
<1> QED
  BY <1>1, ShallowKept

(* The steps of the threads. *)
LEMMA OwnStepOK ==
    ASSUME NEW C, CallsFor(C), Serving(C), NEW t \in Threads, UNCHANGED serviceVars,
           CallbackReturns(t) \/ \E s \in Sessions : SessionStep(t, s)
    PROVE  Serving(C)' /\ (Shallow => Shallow')
<1>1. CallsOf(C) /\ CallsIn(C) /\ SessionState(C) /\ SessionsOK
  BY DEF CallsFor, CallsOf, Serving
<1>2. ServiceTyped' /\ CountDrift'
  BY CountSame DEF Serving, ServiceTyped, serviceVars
<1>3. SessionState(C)' /\ SessionsOK'
  BY <1>1, StepKeeps, StepTyped, CallbackReturnsKeeps, CallbackTyped
<1>4. UNCHANGED known /\ \E s \in Sessions : \E l \in Own : \E N : Turn(t, s, l, N)
  <2>1. CASE CallbackReturns(t)
    <3>1. UNCHANGED known /\ \E s \in Sessions, l \in Callbacks : Turn(t, s, l, {})
      BY <1>1, <2>1, CallbackTurns DEF CallsOf
    <3>2. \A l \in Callbacks : l \in Own
      BY DEF Own, Steps, Callbacks
    <3> QED
      BY <3>1, <3>2
  <2>2. ASSUME NEW s \in Sessions, SessionStep(t, s)
        PROVE  UNCHANGED known /\ \E l \in Own : \E N : Turn(t, s, l, N)
    BY <1>1, <2>2, StepTurns
  <2> QED
    BY <2>1, <2>2
<1>5. PICK s \in Sessions, l \in Own : \E N : Turn(t, s, l, N)
  BY <1>4
<1>6. PICK N : Turn(t, s, l, N)
  BY <1>5
<1>7. l \notin {"addSession", "releaseSession"}
  BY DEF Own
<1>8. /\ known' = known \cup (IF l = "addSession" THEN {s} ELSE {})
      /\ released' = released \cup (IF l = "releaseSession" THEN {s} ELSE {})
      /\ swept' = swept /\ serviceLock' = serviceLock
      /\ sessions' = (sessions \cup (IF l = "addSession" THEN {s} ELSE {}))
                        \ (IF l = "releaseSession" THEN {s} ELSE {})
      /\ l = "addSession" => serviceLock = None
  BY <1>4, <1>7 DEF serviceVars
<1>9. Sane /\ BroadcastsInOneOrder
  BY DEF Serving
<1>10. Sane' /\ BroadcastsInOneOrder'
  BY <1>1, <1>6, <1>8, <1>9, TurnKeeps
<1>11. Shallow => Shallow'
  BY <1>6, TurnShallow DEF Serving
<1> QED
  BY <1>2, <1>3, <1>10, <1>11 DEF Serving

LEMMA AddOK ==
    ASSUME NEW C, CallsFor(C), Serving(C), NEW t \in Threads, NEW s \in Sessions, ServiceAdd(t, s)
    PROVE  Serving(C)' /\ (Shallow => Shallow')
<1>1. CallsOf(C) /\ CallsIn(C) /\ SessionState(C) /\ SessionsOK
  BY DEF CallsFor, CallsOf, Serving
<1>2. /\ AddSession(t, s) /\ serviceLock = None /\ sessionCount' = sessionCount + 1
      /\ sessions' = sessions \cup {s} /\ UNCHANGED <<serviceLock, released, swept>>
      /\ known' = known \cup {s}
  BY DEF ServiceAdd, AddSession
<1>3. SessionState(C)' /\ SessionsOK'
  BY <1>1, <1>2, StepKeeps, StepTyped DEF ServiceStep
<1>4. Turn(t, s, "addSession", {})
  BY <1>1, <1>2, AddTurns
<1>5. Sane /\ BroadcastsInOneOrder /\ Parted /\ ServiceTyped /\ CountDrift
  BY DEF Serving, Sane
<1>6. Sane' /\ BroadcastsInOneOrder' /\ s \notin known
  BY <1>1, <1>2, <1>4, <1>5, TurnKeeps
<1>7. CountDrift'
  BY <1>2, <1>5, <1>6, CountKept
<1>8. ServiceTyped'
  BY <1>2, <1>5 DEF ServiceTyped
<1>9. Shallow => Shallow'
  BY <1>4, TurnShallow DEF Serving
<1> QED
  BY <1>3, <1>6, <1>7, <1>8, <1>9 DEF Serving

LEMMA ReleaseOK ==
    ASSUME NEW C, CallsFor(C), Serving(C), NEW t \in Threads, NEW s \in Sessions, ServiceRelease(t, s)
    PROVE  Serving(C)' /\ (Shallow => Shallow')
<1>1. CallsOf(C) /\ CallsIn(C) /\ SessionState(C) /\ SessionsOK
  BY DEF CallsFor, CallsOf, Serving
<1>2. /\ ReleaseSession(t, s) /\ serviceLock = None /\ sessionCount' = sessionCount - 1
      /\ sessions' = sessions \ {s} /\ released' = released \cup {s}
      /\ UNCHANGED <<serviceLock, swept>>
  BY DEF ServiceRelease
<1>3. SessionState(C)' /\ SessionsOK'
  BY <1>1, <1>2, StepKeeps, StepTyped DEF ServiceStep
<1>4. Turn(t, s, "releaseSession", {}) /\ UNCHANGED known
  BY <1>1, <1>2, ReleaseTurns
<1>5. Sane /\ BroadcastsInOneOrder /\ Parted /\ ServiceTyped /\ CountDrift
  BY DEF Serving, Sane
<1>6. Sane' /\ BroadcastsInOneOrder' /\ s \in known /\ s \notin released
  BY <1>1, <1>2, <1>4, <1>5, TurnKeeps
<1>7. CountDrift'
  BY <1>2, <1>5, <1>6, CountKept
<1>8. ServiceTyped'
  BY <1>2, <1>5 DEF ServiceTyped
<1>9. Shallow => Shallow'
  BY <1>4, TurnShallow DEF Serving
<1> QED
  BY <1>3, <1>6, <1>7, <1>8, <1>9 DEF Serving

LEMMA EndOK ==
    ASSUME NEW C, CallsFor(C), Serving(C), NEW t \in Threads, EndBroadcast(t) \/ ClearSessions(t)
    PROVE  Serving(C)' /\ (Shallow => Shallow')
<1>1. SessionState(C) /\ SessionsOK /\ Sane /\ ServiceTyped /\ CountDrift /\ BroadcastsInOneOrder
  BY DEF Serving
<1>2. PICK l \in Marks :
         /\ At(t, None, l) /\ Return(t)
         /\ UNCHANGED <<connected, owner, op, refused, SendVars, UserVars>>
         /\ serviceLock' = None /\ UNCHANGED released
         /\ \/ UNCHANGED <<sessions, sessionCount, swept>>
            \/ /\ l = "clearSessions" /\ swept' = (swept \ released) \cup sessions
               /\ sessions' = {} /\ sessionCount' = 0
  BY DEF EndBroadcast, ClearSessions, Marks
<1>3. UNCHANGED <<connected, op, accepted, unsent, known, released>>
  BY <1>2 DEF SendVars, UserVars
<1>4. Sane' /\ (Shallow => Shallow') /\ \A r \in Sessions : Mine(r)' = Mine(r)
  BY <1>1, <1>2, <1>3, EndKeeps
<1>5. SessionsOK'
  BY <1>1, <1>2, <1>4, SessionsSame
<1>6. SessionState(C)'
  <2>1. <<>> \in Seq(C) /\ todo[t] # <<>> /\ Then(t, <<>>)
    BY <1>2 DEF At, Return
  <2>2. todo' \in [Threads -> Seq(C)]
    BY <1>1, <2>1, ThenTyped DEF SessionState
  <2> QED
    BY <1>1, <1>2, <2>2 DEF SessionState, SessionTypes, SendVars, UserVars
<1>7. CountDrift'
  <2>1. CASE UNCHANGED <<sessions, sessionCount, swept>>
    BY <1>1, <1>2, <2>1, CountSame
  <2>2. CASE /\ swept' = (swept \ released) \cup sessions /\ sessions' = {} /\ sessionCount' = 0
    BY <1>1, <1>2, <2>2, ClearCounts DEF Sane
  <2> QED
    BY <1>2, <2>1, <2>2
<1>8. ServiceTyped'
  BY <1>1, <1>2 DEF ServiceTyped
<1>9. BroadcastsInOneOrder'
  BY <1>1, <1>3, OrderSame
<1> QED
  BY <1>4, <1>5, <1>6, <1>7, <1>8, <1>9 DEF Serving

LEMMA ShallowSame == ASSUME Shallow, UNCHANGED todo PROVE Shallow'
BY DEF Shallow, Frames

(* What leaves the service alone. *)
LEMMA AloneOK ==
    ASSUME NEW C, Serving(C), SessionState(C)', SessionsOK', Sane', UNCHANGED accepted,
           UNCHANGED serviceVars
    PROVE  Serving(C)'
<1>1. BroadcastsInOneOrder' /\ CountDrift' /\ ServiceTyped'
  BY OrderSame, CountSame DEF Serving, ServiceTyped, serviceVars
<1> QED
  BY <1>1 DEF Serving

LEMMA DispatchOK ==
    ASSUME NEW C, CallsFor(C), Serving(C), NEW t \in Threads, NEW s \in Sessions, NEW k \in Kinds,
           ServiceDispatch(t, s, k)
    PROVE  Serving(C)' /\ (Shallow => Shallow')
<1>1. CallsIn(C) /\ SessionState(C) /\ SessionsOK /\ Sane
  BY DEF CallsFor, CallsOf, Serving
<1>2. Dispatch(t, s, k) /\ UNCHANGED serviceVars /\ UNCHANGED accepted
  BY DEF ServiceDispatch, Dispatch, SendVars
<1>3. SessionState(C)' /\ SessionsOK' /\ Sane' /\ (Shallow => Shallow')
  BY <1>1, <1>2, DispatchKeeps, DispatchTyped, DispatchSane
<1> QED
  BY <1>2, <1>3, AloneOK

LEMMA CompleteOK ==
    ASSUME NEW C, CallsFor(C), Serving(C), NEW s \in Sessions, NEW k \in Kinds, ServiceComplete(s, k)
    PROVE  Serving(C)' /\ (Shallow => Shallow')
<1>1. CallsIn(C) /\ SessionState(C) /\ SessionsOK /\ Sane
  BY DEF CallsFor, CallsOf, Serving
<1>2. /\ Complete(s, k) /\ UNCHANGED serviceVars
      /\ UNCHANGED <<todo, connected, known, unsent, accepted>>
      /\ op[s][k] = "pending" /\ \E x \in {"ok", "zero"} : op' = [op EXCEPT ![s][k] = x]
      /\ op \in [Sessions -> [Kinds -> {"idle", "pending", "ok", "zero"}]]
  BY <1>1 DEF ServiceComplete, Complete, SendVars, UserVars, SessionState, SessionTypes
<1>3. SessionState(C)' /\ SessionsOK'
  BY <1>1, <1>2, CompleteKeeps, CompleteTyped
<1>4. \A r \in Sessions : \A j \in Kinds : op'[r][j] = "idle" <=> op[r][j] = "idle"
  BY <1>2
<1>5. Sane'
  <2>1. UNCHANGED <<sessions, serviceLock, released, swept>>
    BY <1>2 DEF serviceVars
  <2> QED
    BY <1>1, <1>2, <1>4, <2>1, QuietKeeps DEF Kinds
<1> QED
  BY <1>2, <1>3, <1>5, AloneOK, ShallowSame

LEMMA UserOK ==
    ASSUME NEW C, CallsFor(C), Serving(C), NEW t \in Threads, NEW s \in Sessions,
           UserStep(t, s), UNCHANGED serviceVars
    PROVE  Serving(C)' /\ (Shallow => Shallow')
<1>1. CallsOf(C) /\ CallsIn(C) /\ SessionState(C) /\ SessionsOK /\ Sane
  BY DEF CallsFor, CallsOf, Serving
<1>2. SessionState(C)' /\ SessionsOK'
  BY <1>1, UserKeeps, UserTyped
<1>3. UNCHANGED accepted
  BY DEF UserStep, Connect, CallDisconnect, CallSend, SendVars
<1>4. CASE CallDisconnect(t, s)
  BY <1>1, <1>2, <1>3, <1>4, CallDisconnectSane, AloneOK
<1>5. ASSUME NEW b \in Buffers, CallSend(t, s, b) PROVE Serving(C)' /\ (Shallow => Shallow')
  <2>1. Sane' /\ (Shallow => Shallow')
    BY <1>1, <1>5, CallSendSane
  <2> QED
    BY <1>2, <1>3, <2>1, AloneOK
<1>6. CASE Connect(t, s)
  <2>1. /\ op' = [op EXCEPT ![s]["connect"] = "pending"] \/ op' = op
        /\ UNCHANGED <<todo, connected, known, unsent, accepted>>
        /\ op \in [Sessions -> [Kinds -> {"idle", "pending", "ok", "zero"}]]
    BY <1>1, <1>6 DEF Connect, SendVars, SessionState, SessionTypes
  <2>2. \A r \in Sessions : \A k \in {"recv", "send", "disconnect"} : op'[r][k] = op[r][k]
    <3>1. CASE op' = op
      BY <3>1
    <3>2. CASE op' = [op EXCEPT ![s]["connect"] = "pending"]
      <4>1. \A r \in Sessions, j \in Kinds : op'[r][j] = op[r][j] \/ (r = s /\ j = "connect")
        BY <2>1, <3>2, OpPending DEF Kinds
      <4> QED
        BY <4>1 DEF Kinds
    <3> QED
      BY <2>1, <3>1, <3>2
  <2>3. Sane'
    <3>1. UNCHANGED <<sessions, serviceLock, released, swept>>
      BY DEF serviceVars
    <3> QED
      BY <1>1, <2>1, <2>2, <3>1, QuietKeeps
  <2> QED
    BY <1>2, <1>3, <2>1, <2>3, AloneOK, ShallowSame
<1> QED
  BY <1>4, <1>5, <1>6 DEF UserStep

(* The calls that ForEach makes: each on a session that was added. *)
LEMMA EachSessionsOK ==
    ASSUME SessionsOK, Sane, NEW t \in Threads, NEW l \in {"send", "disconnect"}, NEW arg,
           NEW last, NEW N, NEW e, Each(t, l, arg, last, N, e),
           UNCHANGED <<connected, owner, op, fresh, known, refused, SendVars>>
    PROVE  SessionsOK'
<1>1. /\ Frames' = Frames \cup N /\ e.session = None
      /\ \A n \in N : n # e => n.at = l /\ n.session \in sessions
  BY DEF Each
<1>2. sessions \subseteq known
  BY DEF Sane, Parted
<1>3. \A r \in Sessions :
         Mine(r) \subseteq Mine(r)' /\ \A f \in Mine(r)' \ Mine(r) : r \in sessions /\ f.at = l
  BY <1>1, ServiceAssumption DEF Mine, On
<1> QED
  BY <1>2, <1>3, UserCallsKeep

LEMMA BroadcastCalls ==
    ASSUME NEW C, CallsFor(C), Serving(C), NEW t \in Threads, NEW b \in Buffers, Broadcast(t, b)
    PROVE  /\ \E N : \E e : Each(t, "send", b, "endBroadcast", N, e)
           /\ InUserCode(t) /\ todo' \in [Threads -> Seq(C)]
<1> DEFINE calls == [s \in Sessions |-> With("send", s, b)]
<1>1. CallsIn(C) /\ ServiceTyped /\ todo \in [Threads -> Seq(C)] /\ Step("endBroadcast", None) \in C
  BY DEF CallsFor, CallsOf, Serving, SessionState, ServiceCalls
<1>2. \A s \in Sessions : /\ calls[s] \in C /\ calls[s].at = "send" /\ calls[s].session = s
                          /\ calls[s].arg = b
  <2>1. \A s \in Sessions : With("send", s, b) \in C
    BY <1>1, StepCalls
  <2> QED
    BY <2>1 DEF With
<1>3. ForEach(t, calls, "endBroadcast")
  BY DEF Broadcast
<1> HIDE DEF calls
<1>4. Alike(calls, C, "send", b)
  BY <1>2 DEF Alike
<1>5. \E N : \E e : Each(t, "send", b, "endBroadcast", N, e)
  BY <1>1, <1>3, <1>4, EachCalled
<1>6. \E q \in Seq(C) : Call(t, q)
  BY <1>1, <1>3, <1>4, EachCalled
<1> QED
  BY <1>1, <1>5, <1>6, CallTyped DEF Call

LEMMA CloseCalls ==
    ASSUME NEW C, CallsFor(C), Serving(C), NEW t \in Threads, CloseService(t)
    PROVE  /\ \E N : \E e : Each(t, "disconnect", None, "clearSessions", N, e)
           /\ InUserCode(t) /\ todo' \in [Threads -> Seq(C)]
<1> DEFINE calls == [s \in Sessions |-> Step("disconnect", s)]
<1>1. CallsIn(C) /\ ServiceTyped /\ todo \in [Threads -> Seq(C)] /\ Step("clearSessions", None) \in C
  BY DEF CallsFor, CallsOf, Serving, SessionState, ServiceCalls
<1>2. \A s \in Sessions : /\ calls[s] \in C /\ calls[s].at = "disconnect" /\ calls[s].session = s
                          /\ calls[s].arg = None
  <2>1. \A s \in Sessions : Step("disconnect", s) \in C
    BY <1>1, StepCalls DEF Steps
  <2> QED
    BY <2>1 DEF Step
<1>3. ForEach(t, calls, "clearSessions")
  BY DEF CloseService
<1> HIDE DEF calls
<1>4. Alike(calls, C, "disconnect", None)
  BY <1>2 DEF Alike
<1>5. \E N : \E e : Each(t, "disconnect", None, "clearSessions", N, e)
  BY <1>1, <1>3, <1>4, EachCalled
<1>6. \E q \in Seq(C) : Call(t, q)
  BY <1>1, <1>3, <1>4, EachCalled
<1> QED
  BY <1>1, <1>5, <1>6, CallTyped DEF Call

LEMMA BroadcastOK ==
    ASSUME NEW C, CallsFor(C), Serving(C), NEW t \in Threads, NEW b \in Buffers, Broadcast(t, b)
    PROVE  Serving(C)' /\ (Shallow => Shallow')
<1>1. /\ CallsOf(C) /\ SessionState(C) /\ SessionsOK /\ Sane /\ ServiceTyped
      /\ BroadcastsInOneOrder /\ CountDrift /\ todo \in [Threads -> Seq(C)]
  BY DEF CallsFor, CallsOf, Serving, SessionState
<1>2. /\ b \in unsent /\ unsent' = unsent \ {b} /\ serviceLock = None /\ serviceLock' = t
      /\ UNCHANGED <<connected, owner, op, fresh, known, refused, SendVars, accepted>>
      /\ UNCHANGED <<sessions, sessionCount, released, swept>>
  BY DEF Broadcast, ForEach, SendVars
<1>3. /\ \E N : \E e : Each(t, "send", b, "endBroadcast", N, e)
      /\ InUserCode(t) /\ todo' \in [Threads -> Seq(C)]
  BY BroadcastCalls
<1>4. PICK N : \E e : Each(t, "send", b, "endBroadcast", N, e)
  BY <1>3
<1>5. PICK e : Each(t, "send", b, "endBroadcast", N, e)
  BY <1>4
<1>6. SessionState(C)'
  BY <1>1, <1>2, <1>3 DEF SessionState, SessionTypes, SendVars
<1>7. SessionsOK'
  BY <1>1, <1>2, <1>5, EachSessionsOK
<1>8. Sane'
  <2>1. UNCHANGED <<connected, known, op, accepted, sessions, released, swept>>
    BY <1>2
  <2> QED
    BY <1>1, <1>2, <1>3, <1>5, <2>1, BroadcastSane
<1>9. Shallow => Shallow'
  <2>1. "endBroadcast" \in Marks /\ "send" \in {"send", "disconnect"}
    BY DEF Marks
  <2> QED
    BY <1>1, <1>3, <1>5, <2>1, EachShallow
<1>10. ServiceTyped' /\ CountDrift' /\ BroadcastsInOneOrder'
  BY <1>1, <1>2, CountSame, OrderSame DEF ServiceTyped
<1> QED
  BY <1>6, <1>7, <1>8, <1>9, <1>10 DEF Serving

LEMMA CloseOK ==
    ASSUME NEW C, CallsFor(C), Serving(C), NEW t \in Threads, CloseService(t)
    PROVE  Serving(C)' /\ (Shallow => Shallow')
<1>1. /\ SessionState(C) /\ SessionsOK /\ Sane /\ ServiceTyped
      /\ BroadcastsInOneOrder /\ CountDrift /\ todo \in [Threads -> Seq(C)]
  BY DEF Serving, SessionState
<1>2. /\ serviceLock = None /\ serviceLock' = t
      /\ UNCHANGED <<connected, owner, op, fresh, known, unsent, refused, SendVars, accepted>>
      /\ UNCHANGED <<sessions, sessionCount, released, swept>>
  BY DEF CloseService, ForEach, SendVars, UserVars
<1>3. /\ \E N : \E e : Each(t, "disconnect", None, "clearSessions", N, e)
      /\ InUserCode(t) /\ todo' \in [Threads -> Seq(C)]
  BY CloseCalls
<1>4. PICK N : \E e : Each(t, "disconnect", None, "clearSessions", N, e)
  BY <1>3
<1>5. PICK e : Each(t, "disconnect", None, "clearSessions", N, e)
  BY <1>4
<1>6. SessionState(C)'
  BY <1>1, <1>2, <1>3 DEF SessionState, SessionTypes, SendVars
<1>7. SessionsOK'
  BY <1>1, <1>2, <1>5, EachSessionsOK
<1>8. Sane'
  <2>1. UNCHANGED <<connected, known, op, accepted, unsent, sessions, released, swept>>
    BY <1>2
  <2> QED
    BY <1>1, <1>2, <1>3, <1>5, <2>1, CloseSane
<1>9. Shallow => Shallow'
  <2>1. "clearSessions" \in Marks /\ "disconnect" \in {"send", "disconnect"}
    BY DEF Marks
  <2> QED
    BY <1>1, <1>3, <1>5, <2>1, EachShallow
<1>10. ServiceTyped' /\ CountDrift' /\ BroadcastsInOneOrder'
  BY <1>1, <1>2, CountSame, OrderSame DEF ServiceTyped
<1> QED
  BY <1>6, <1>7, <1>8, <1>9, <1>10 DEF Serving

LEMMA StutterOK ==
    ASSUME NEW C, CallsFor(C), Serving(C), UNCHANGED allVars
    PROVE  Serving(C)' /\ (Shallow => Shallow')
<1>1. SessionState(C) /\ SessionsOK /\ Sane
  BY DEF Serving
<1>2. /\ UNCHANGED serviceVars /\ UNCHANGED todo /\ UNCHANGED accepted
      /\ UNCHANGED <<connected, owner, op, refused, SendVars, UserVars>>
      /\ UNCHANGED <<todo, connected, known, unsent, accepted>>
      /\ UNCHANGED <<sessions, serviceLock, released, swept>>
  BY DEF allVars, vars, serviceVars, SendVars, UserVars
<1>3. \A r \in Sessions : Mine(r)' = Mine(r)
  BY <1>2, SameFrames
<1>4. SessionsOK'
  BY <1>1, <1>2, <1>3, SessionsSame
<1>5. SessionState(C)'
  BY <1>1, <1>2 DEF SessionState, SessionTypes, SendVars, UserVars
<1>6. Sane'
  <2>1. \A r \in Sessions : \A k \in {"recv", "send", "disconnect"} :
           op'[r][k] = "idle" <=> op[r][k] = "idle"
    BY <1>2
  <2> QED
    BY <1>1, <1>2, <2>1, QuietKeeps
<1> QED
  BY <1>2, <1>4, <1>5, <1>6, AloneOK, ShallowSame

LEMMA TopKnown ==
    ASSUME todo \in [Threads -> Seq(ServiceCalls)], NEW t \in Threads, todo[t] # <<>>
    PROVE  Top(t) \in Frames /\ Top(t).depth = Len(todo[t]) /\ Top(t).at \in Steps \cup Marks
<1>1. todo[t] \in Seq(ServiceCalls) /\ Len(todo[t]) \in Nat /\ Len(todo[t]) >= 1
  BY Lengths
<1>2. 1 \in 1 .. Len(todo[t]) /\ Len(todo[t]) + 1 - 1 = Len(todo[t])
  BY <1>1
<1>3. todo[t][1] \in ServiceCalls
  BY <1>1, <1>2
<1>4. Top(t) \in FramesIn(t, todo[t])
  BY <1>2 DEF Top, FramesIn
<1>5. todo[t][1].at \in Steps \cup Marks
  <2>1. \A c \in Calls : c.at \in Steps
    BY DEF Calls
  <2>2. Step("endBroadcast", None).at \in Marks /\ Step("clearSessions", None).at \in Marks
    BY StepIs DEF Marks
  <2> QED
    BY <1>3, <2>1, <2>2 DEF ServiceCalls
<1> QED
  BY <1>4, <1>5, FrameFields DEF Top, Frames, FramesOf

LEMMA ServiceStepOK ==
    ASSUME NEW C, CallsFor(C), Serving(C), [ServiceNext]_allVars
    PROVE  Serving(C)' /\ (Shallow => Shallow')
<1>1. ASSUME NEW t \in Threads, ServiceThreadStep(t) PROVE Serving(C)' /\ (Shallow => Shallow')
  <2>1. CASE \E s \in Sessions : ServiceAdd(t, s) \/ ServiceRelease(t, s)
    BY <2>1, AddOK, ReleaseOK
  <2>2. CASE EndBroadcast(t) \/ ClearSessions(t)
    BY <2>2, EndOK
  <2>3. CASE /\ CallbackReturns(t) \/ \E s \in Sessions : SessionStep(t, s)
             /\ UNCHANGED serviceVars
    BY <2>3, OwnStepOK
  <2> QED
    BY <1>1, <2>1, <2>2, <2>3 DEF ServiceThreadStep
<1>2. ASSUME NEW t \in Threads, ServiceUser(t) PROVE Serving(C)' /\ (Shallow => Shallow')
  <2>1. CASE \E b \in Buffers : Broadcast(t, b)
    BY <2>1, BroadcastOK
  <2>2. CASE CloseService(t)
    BY <2>2, CloseOK
  <2>3. CASE (\E s \in Sessions : UserStep(t, s)) /\ UNCHANGED serviceVars
    BY <2>3, UserOK
  <2> QED
    BY <1>2, <2>1, <2>2, <2>3 DEF ServiceUser
<1>3. CASE \E t \in Threads, s \in Sessions, k \in Kinds : ServiceDispatch(t, s, k)
  BY <1>3, DispatchOK
<1>4. CASE \E s \in Sessions, k \in Kinds : ServiceComplete(s, k)
  BY <1>4, CompleteOK
<1>5. CASE UNCHANGED allVars
  BY <1>5, StutterOK
<1> QED
  BY <1>1, <1>2, <1>3, <1>4, <1>5 DEF ServiceNext

LEMMA ServiceInvHolds == ServiceSpec => []ServiceInv
<1>1. ServiceInv /\ [ServiceNext]_allVars => ServiceInv'
  BY ServiceStepOK, ServiceCallsAre DEF ServiceInv
<1> QED
  BY <1>1, ServiceInitOK, PTL DEF ServiceSpec

(* The invariant says what the runs check, whatever else the call stacks hold. *)
LEMMA ServiceFacts ==
    ASSUME NEW C, Serving(C)
    PROVE  /\ CountDrift /\ ReleasedOnce /\ ConnectedInService /\ BroadcastsInOneOrder
           /\ EventsNotShared /\ KeptWhileInUse /\ SendsInOrder /\ NothingStranded /\ StaysArmed
<1>1. SessionState(C) /\ SessionsOK /\ Sane /\ todo \in [Threads -> Seq(C)]
  BY DEF Serving, SessionState
<1>2. ReleasedOnce
  <2>1. \A s : Doing(s, UsesEvent["disconnect"]) # {} => Some(s, UsesEvent["disconnect"])
    BY <1>1, DoingSome
  <2> QED
    BY <1>1, <2>1 DEF Sane, Ending, ReleasedOnce
<1>3. ConnectedInService
  <2> SUFFICES ASSUME NEW s \in connected
               PROVE  s \in sessions \/ Doing(s, {"addSession"}) # {}
    BY DEF ConnectedInService
  <2>1. s \in Sessions /\ Parted /\ Entering(s)
    BY <1>1 DEF Sane, SessionState, SessionTypes
  <2>2. CASE s \in known
    BY <2>1, <2>2 DEF Parted
  <2>3. CASE s \notin known
    <3>1. Some(s, {"addSession"})
      BY <2>1, <2>3 DEF Entering, Some
    <3>2. Doing(s, {"addSession"}) # {}
      BY <1>1, <3>1, DoingSome
    <3> QED
      BY <3>2
  <2> QED
    BY <2>2, <2>3
<1>4. EventsNotShared /\ KeptWhileInUse /\ SendsInOrder /\ NothingStranded /\ StaysArmed
  BY <1>1, SessionFacts
<1> QED
  BY <1>2, <1>3, <1>4 DEF Serving

------------------------------------------------------------------------------
(* The properties of the runs *)

(* Every variable keeps its type, and no call stack grows past the calls that
   nest and one call for every session of a broadcast or a close. *)
THEOREM StacksBounded == ServiceSpec => []ServiceTypeOK
<1>1. ServiceInv => ServiceTypeOK
  <2> SUFFICES ASSUME ServiceInv PROVE ServiceTypeOK
    OBVIOUS
  <2>1. SessionTypes /\ ServiceTyped /\ todo \in [Threads -> Seq(ServiceCalls)] /\ Shallow
    BY DEF ServiceInv, Serving, SessionState
  <2>2. Cardinality(Sessions) \in Nat
    BY ServiceAssumption, FS_CardinalityType
  <2>3. ASSUME NEW t \in Threads PROVE Len(todo[t]) <= MaxCalls + Cardinality(Sessions) + 1
    <3>1. Len(todo[t]) \in Nat
      BY <2>1
    <3>2. CASE todo[t] = <<>>
      BY <2>2, <3>2 DEF MaxCalls
    <3>3. CASE todo[t] # <<>>
      <4>1. Top(t) \in Frames /\ Top(t).depth = Len(todo[t]) /\ Top(t).at \in Steps \cup Marks
        BY <2>1, <3>3, TopKnown
      <4>2. Height[Top(t).at] \in Nat /\ Height[Top(t).at] >= 1
        BY <2>2, <4>1 DEF Height
      <4>3. Top(t).depth + Height[Top(t).at] <= Cardinality(Sessions) + 6
        BY <2>1, <4>1 DEF Shallow
      <4> QED
        BY <2>2, <3>1, <4>1, <4>2, <4>3 DEF MaxCalls
    <3> QED
      BY <3>2, <3>3
  <2> QED
    BY <2>1, <2>3 DEF ServiceTypeOK, ServiceTyped
<1> QED
  BY <1>1, ServiceInvHolds, PTL

(* The session count is off only by the sessions that a close took off the
   set and that were released since. *)
THEOREM CountKnown == ServiceSpec => []CountDrift
<1>1. ServiceInv => CountDrift
  BY ServiceFacts DEF ServiceInv
<1> QED
  BY <1>1, ServiceInvHolds, PTL

(* Whatever ends a session, and however often, it is released once, and only
   after it was added. *)
THEOREM ReleasesOnce == ServiceSpec => []ReleasedOnce
<1>1. ServiceInv => ReleasedOnce
  BY ServiceFacts DEF ServiceInv
<1> QED
  BY <1>1, ServiceInvHolds, PTL

(* No session is connected outside the set, but for the one whose connect is
   about to add it: a close never forgets one. *)
THEOREM ConnectedFound == ServiceSpec => []ConnectedInService
<1>1. ServiceInv => ConnectedInService
  BY ServiceFacts DEF ServiceInv
<1> QED
  BY <1>1, ServiceInvHolds, PTL

(* Broadcasts of any threads reach all the sessions in one order. *)
THEOREM OneOrder == ServiceSpec => []BroadcastsInOneOrder
<1>1. ServiceInv => BroadcastsInOneOrder
  BY ServiceFacts DEF ServiceInv
<1> QED
  BY <1>1, ServiceInvHolds, PTL

(* In a service too, whatever broadcasts and closes come between, a session's
   events have one user each and keep their session, its send queue reaches
   WSASend in order and complete, nothing queued is stranded, and a connected
   session keeps a receive. *)
THEOREM SessionsInService ==
    ServiceSpec =>
        [](EventsNotShared /\ KeptWhileInUse /\ SendsInOrder /\ NothingStranded /\ StaysArmed)
<1>1. ServiceInv => EventsNotShared /\ KeptWhileInUse /\ SendsInOrder /\ NothingStranded /\ StaysArmed
  BY ServiceFacts DEF ServiceInv
<1> QED
  BY <1>1, ServiceInvHolds, PTL

------------------------------------------------------------------------------
(***************************************************************************)
(* The service behind a listener                                           *)
(*                                                                         *)
(* The invariant, Listening, says where the session of each slot is: new,  *)
(* with nothing that works on it, until ProcessAccept connects it, then    *)
(* entering the service above the frame that arms the slot again, and then *)
(* known.  Serving, the invariant of the service, is kept by the steps of  *)
(* the service as before, and by those of the listener because their       *)
(* frames are on no session, but for the connect of a new one.             *)
(***************************************************************************)

AcceptSteps == {"newSlot", "registerAccept", "acceptEx", "processAccept"}

(* The frames of the listener, and those for slot e. *)
Accepts == {f \in Frames : f.at \in AcceptSteps}
For(e) == {f \in Accepts : f.arg = e}

(* Nothing has happened to s, but that it was created. *)
New(s) ==
    /\ s \in Sessions /\ s \notin fresh /\ s \notin known /\ s \notin connected
    /\ s \notin registered /\ sendQueue[s] = <<>>
    /\ \A k \in Kinds : op[s][k] = "idle"
    /\ Mine(s) = {}

(* s enters the service before slot e is armed again. *)
Joining(s, e) ==
    \E g \in For(e) : \E h \in Mine(s) :
        g.at = "registerAccept" /\ h.at \in {"processConnect", "addSession"} /\ Under(g, h)

(* An event has one user, an AcceptEx or one frame, once it is in the list. *)
Armed(e) ==
    /\ \A f, g \in For(e) : f = g
    /\ acceptOp[e] # "idle" => For(e) = {}
    /\ e \in acceptEvents =>
          /\ acceptOp[e] # "idle" \/ For(e) # {}
          /\ \A f \in For(e) : f.at # "newSlot"
    /\ e \notin acceptEvents =>
          acceptOp[e] = "idle" /\ slot[e] = None /\ \A f \in For(e) : f.at = "newSlot"

(* Its session is nobody else's, and new while it waits for a client. *)
Waiting(e) == acceptOp[e] # "idle" \/ \E f \in For(e) : f.at \in {"acceptEx", "processAccept"}

Slotted(e) ==
    /\ Waiting(e) => slot[e] # None
    /\ \A s \in Sessions :
          slot[e] = s =>
             /\ s \notin fresh
             /\ \A f \in Slots : slot[f] = s => f = e
             /\ Waiting(e) => New(s)
             /\ New(s) \/ s \in known \/ Joining(s, e)

ListenerTyped ==
    /\ acceptEvents \subseteq Slots
    /\ slot \in [Slots -> Sessions \cup {None}]
    /\ acceptOp \in [Slots -> {"idle", "pending", "ok"}]

Listening ==
    /\ ListenerTyped
    /\ phase = "created" => acceptEvents = {} /\ \A t \in Threads : todo[t] = <<>>
    /\ \A e \in Slots : Armed(e) /\ Slotted(e)

ListenerCalls ==
    ServiceCalls \cup {With(p[1], None, p[2]) : p \in AcceptSteps \X Slots}

ListenerInv == Serving(ListenerCalls) /\ Listening
------------------------------------------------------------------------------
(* The calls *)

LEMMA AcceptStepsApart == AcceptSteps \cap (Steps \cup Marks) = {}
BY DEF AcceptSteps, Steps, Callbacks, Marks

LEMMA ListenerCallsAre == CallsFor(ListenerCalls)
<1>1. CallsOf(ServiceCalls)
  BY ServiceCallsAre DEF CallsFor
<1>2. ASSUME NEW c \in ListenerCalls, c \notin ServiceCalls PROVE c.at \in AcceptSteps
  <2>1. PICK p \in AcceptSteps \X Slots : c = With(p[1], None, p[2])
    BY <1>2 DEF ListenerCalls
  <2> QED
    BY <2>1 DEF With
<1>3. \A c \in ListenerCalls : c \in ServiceCalls \/ c.at \in AcceptSteps
  BY <1>2
<1>4. {"send", "push"} \subseteq Steps
  BY DEF Steps
<1>5. ServiceCalls \subseteq ListenerCalls
  BY DEF ListenerCalls
<1> QED
  BY <1>1, <1>3, <1>4, <1>5, AcceptStepsApart DEF CallsFor, CallsOf, CallsIn

LEMMA AcceptCall ==
    ASSUME NEW l \in AcceptSteps, NEW e \in Slots
    PROVE  /\ With(l, None, e) \in ListenerCalls
           /\ With(l, None, e).at = l /\ With(l, None, e).session = None /\ With(l, None, e).arg = e
<1>1. <<l, e>> \in AcceptSteps \X Slots /\ <<l, e>>[1] = l /\ <<l, e>>[2] = e
  OBVIOUS
<1> QED
  BY <1>1 DEF ListenerCalls, With

(* A frame is the listener's if its argument is a slot, and only then. *)
LEMMA FrameCall ==
    ASSUME todo \in [Threads -> Seq(ListenerCalls)], NEW f \in Frames
    PROVE  /\ f.arg \in Slots <=> f.at \in AcceptSteps
           /\ f.at \in AcceptSteps => f.session = None
           /\ f.at \in Steps => f.session \in Sessions
           /\ f.at \in AcceptSteps \cup Steps \cup Marks
<1>1. PICK t \in Threads : f \in FramesIn(t, todo[t])
  BY DEF Frames, FramesOf
<1>2. PICK i \in 1 .. Len(todo[t]) : f = Frame(t, Len(todo[t]) + 1 - i, todo[t][i])
  BY <1>1 DEF FramesIn
<1>3. todo[t][i] \in ListenerCalls
  <2>1. todo[t] \in Seq(ListenerCalls)
    OBVIOUS
  <2> QED
    BY <2>1
<1>4. f.at = todo[t][i].at /\ f.session = todo[t][i].session /\ f.arg = todo[t][i].arg
  BY <1>2, FrameFields
<1>5. ASSUME NEW c \in ListenerCalls, c \notin ServiceCalls
      PROVE  c.at \in AcceptSteps /\ c.session = None /\ c.arg \in Slots
  <2>1. PICK p \in AcceptSteps \X Slots : c = With(p[1], None, p[2])
    BY <1>5 DEF ListenerCalls
  <2> QED
    BY <2>1 DEF With
<1>6. ASSUME NEW c \in ServiceCalls
      PROVE  /\ c.at \in Steps \cup Marks /\ c.arg \notin Slots
             /\ c.at \in Steps => c.session \in Sessions
  <2>1. CASE c \in Calls
    <3>1. c.at \in Steps /\ c.session \in Sessions /\ c.arg \in Buffers \cup {None, "ok", "zero"}
      BY <2>1 DEF Calls
    <3> QED
      BY <3>1, SlotsAssumption
  <2>2. CASE c \in {Step("endBroadcast", None), Step("clearSessions", None)}
    <3>1. c.at \in Marks /\ c.arg = None
      BY <2>2 DEF Step, Marks
    <3> QED
      BY <3>1, SlotsAssumption, FollowSteps
  <2> QED
    BY <2>1, <2>2 DEF ServiceCalls
<1> QED
  BY <1>3, <1>4, <1>5, <1>6, AcceptStepsApart
------------------------------------------------------------------------------
(* The steps of the service *)

(* They leave the listener's frames and the new sessions alone, and bring
   those that join further. *)
Elsewhere ==
    /\ Accepts' = Accepts /\ fresh' = fresh /\ known \subseteq known'
    /\ \A s : New(s) => New(s)'
    /\ \A s, e : Joining(s, e) => Joining(s, e)' \/ s \in known'

LEMMA ElsewhereKeeps ==
    ASSUME Listening, Elsewhere, UNCHANGED listenerVars, phase = "created" => UNCHANGED todo
    PROVE  Listening'
<1>1. \A e : For(e)' = For(e)
  BY DEF Elsewhere, For
<1>2. \A e \in Slots : Armed(e)'
  BY <1>1 DEF Listening, Armed, listenerVars
<1>3. ASSUME NEW e \in Slots PROVE Slotted(e)'
  <2>1. Slotted(e)
    BY DEF Listening
  <2>2. Waiting(e)' <=> Waiting(e)
    BY <1>1 DEF Waiting, listenerVars
  <2>3. slot' = slot /\ fresh' = fresh
    BY DEF Elsewhere, listenerVars
  <2>4. \A s : New(s) \/ s \in known \/ Joining(s, e) => New(s)' \/ s \in known' \/ Joining(s, e)'
    BY DEF Elsewhere
  <2>5. \A s : New(s) => New(s)'
    BY DEF Elsewhere
  <2> QED
    BY <2>1, <2>2, <2>3, <2>4, <2>5 DEF Slotted
<1> QED
  BY <1>2, <1>3 DEF Listening, ListenerTyped, listenerVars

(* What a step on s does to the send queues of the others. *)
QueuesKept(s) ==
    \A r \in Sessions \ {s} : /\ r \in registered' => r \in registered
                              /\ sendQueue'[r] = sendQueue[r]

LEMMA StepQueues ==
    ASSUME NEW C, SessionState(C), NEW t, NEW s, SessionStep(t, s) \/ ServiceStep(t, s)
    PROVE  QueuesKept(s) /\ fresh' = fresh
<1>1. sendQueue \in [Sessions -> Seq(Buffers)]
  BY DEF SessionState, SessionTypes
<1>2. CASE \/ ProcessConnect(t, s) \/ ProcessDisconnect(t, s) \/ Disconnect(t, s)
           \/ RegisterDisconnect(t, s) \/ ProcessRecv(t, s) \/ AfterRecv(t, s)
           \/ RegisterRecv(t, s) \/ WSARecv(t, s) \/ UndoRecv(t, s) \/ Send(t, s)
           \/ RegisterSend(t, s) \/ ServiceStep(t, s)
  <2>1. UNCHANGED <<registered, sendQueue, fresh>>
    BY <1>2 DEF ProcessConnect, ProcessDisconnect, Disconnect, RegisterDisconnect, ProcessRecv,
             AfterRecv, RegisterRecv, WSARecv, UndoRecv, Send, RegisterSend, ServiceStep, AddSession,
             ReleaseSession, SendVars, UserVars
  <2> QED
    BY <2>1 DEF QueuesKept
<1>3. CASE WSASend(t, s) \/ UndoSend(t, s) \/ Unregister(t, s) \/ ProcessSend(t, s)
           \/ Resume(t, s) \/ Unlock(t, s)
  <2>1. /\ UNCHANGED <<sendQueue, fresh>> /\ registered' \subseteq registered
    BY <1>3 DEF WSASend, UndoSend, Unregister, ProcessSend, Resume, Unlock, UserVars
  <2> QED
    BY <2>1 DEF QueuesKept
<1>4. CASE Push(t, s) \/ Collect(t, s)
  <2>1. /\ registered' \subseteq registered \cup {s} /\ UNCHANGED fresh
        /\ \E q : sendQueue' = [sendQueue EXCEPT ![s] = q]
    BY <1>4 DEF Push, Collect, UserVars
  <2> QED
    BY <1>1, <2>1 DEF QueuesKept
<1> QED
  BY <1>2, <1>3, <1>4 DEF SessionStep

LEMMA TurnElsewhere ==
    ASSUME todo \in [Threads -> Seq(ListenerCalls)], NEW t \in Threads, NEW s \in Sessions,
           NEW l, NEW N, Turn(t, s, l, N), QueuesKept(s), fresh' = fresh,
           known' = known \cup (IF l = "addSession" THEN {s} ELSE {})
    PROVE  Elsewhere
<1>1. Took(t, s, l, N) /\ Turned(t, s, l)
  BY DEF Turn
<1>2. /\ l \in Steps /\ Top(t) \in Frames /\ Frames' = (Frames \ {Top(t)}) \cup N
      /\ Top(t).thread = t /\ Top(t).session = s /\ Top(t).at = l /\ Top(t).depth = Len(todo[t])
      /\ \A n \in N : /\ n.session = s /\ n.thread = t /\ n.at \in Follow[l]
                      /\ n.depth \in Nat /\ n.depth >= Top(t).depth
  BY <1>1, TurnFrames
<1>3. Accepts' = Accepts
  <2>1. Top(t).at \notin AcceptSteps /\ \A n \in N : n.at \notin AcceptSteps
    BY <1>2, FollowSteps, AcceptStepsApart
  <2> QED
    BY <1>2, <2>1 DEF Accepts
<1>4. ASSUME NEW r, New(r) PROVE New(r)'
  <2>1. r # s
    BY <1>2, <1>4 DEF New, Mine, On
  <2>2. Mine(r)' = Mine(r)
    BY <1>2, <2>1 DEF Mine, On
  <2>3. r \in Sessions /\ \A k \in Kinds : op'[r][k] = op[r][k]
    BY <1>1, <1>4, <2>1 DEF Turned, New
  <2>4. r \notin connected' /\ r \notin known' /\ r \notin fresh'
    BY <1>1, <1>4, <2>1 DEF Turned, New
  <2>5. r \notin registered' /\ sendQueue'[r] = sendQueue[r]
    BY <1>4, <2>1 DEF QueuesKept, New
  <2> QED
    BY <1>4, <2>2, <2>3, <2>4, <2>5 DEF New
<1>5. ASSUME NEW r, NEW e, Joining(r, e) PROVE Joining(r, e)' \/ r \in known'
  <2>1. PICK g \in For(e) : \E h \in Mine(r) :
           g.at = "registerAccept" /\ h.at \in {"processConnect", "addSession"} /\ Under(g, h)
    BY <1>5 DEF Joining
  <2>2. PICK h \in Mine(r) :
           g.at = "registerAccept" /\ h.at \in {"processConnect", "addSession"} /\ Under(g, h)
    BY <2>1
  <2>3. g \in For(e)' /\ g \in Frames
    BY <1>3 DEF For, Accepts
  <2>4. CASE h # Top(t)
    <3>1. h \in Mine(r)'
      BY <1>2, <2>4 DEF Mine, On
    <3> QED
      BY <2>2, <2>3, <3>1 DEF Joining
  <2>5. CASE h = Top(t) /\ l = "processConnect"
    <3>1. PICK n \in N : n.at = "addSession"
      BY <2>5 DEF Turn
    <3>2. r = s /\ n \in Mine(r)'
      BY <1>2, <2>5 DEF Mine, On
    <3>3. Under(g, n)
      <4>1. g.depth \in Nat /\ h.depth \in Nat /\ h \in Frames
        BY <2>3, TopHighest DEF Mine, On
      <4> QED
        BY <1>2, <2>2, <2>5, <4>1 DEF Under
    <3> QED
      BY <2>2, <2>3, <3>1, <3>2, <3>3 DEF Joining
  <2>6. CASE h = Top(t) /\ l # "processConnect"
    <3>1. r = s /\ l = "addSession"
      BY <1>2, <2>2, <2>6 DEF Mine, On
    <3> QED
      BY <3>1
  <2> QED
    BY <2>4, <2>5, <2>6
<1> QED
  BY <1>3, <1>4, <1>5 DEF Elsewhere

(* Calls of user code, dispatches and the ends of broadcasts and closes. *)
LEMMA FramesElsewhere ==
    ASSUME \A f \in Frames : f.at \notin Marks => f \in Frames',
           \A f \in Frames' : f \in Frames \/ (f.at \notin AcceptSteps /\ ~New(f.session)),
           UNCHANGED <<connected, registered, sendQueue, known, fresh>>,
           \A s \in Sessions, k \in Kinds : op[s][k] = "idle" => op'[s][k] = "idle"
    PROVE  Elsewhere
<1>1. Accepts' = Accepts
  BY AcceptStepsApart DEF Accepts
<1>2. ASSUME NEW r, New(r) PROVE New(r)'
  <2>1. Mine(r)' = {}
    BY <1>2 DEF Mine, On, New
  <2> QED
    BY <1>2, <2>1 DEF New
<1>3. ASSUME NEW r, NEW e, Joining(r, e) PROVE Joining(r, e)'
  <2>1. For(e)' = For(e)
    BY <1>1 DEF For
  <2>2. \A h \in Mine(r) : h.at \in {"processConnect", "addSession"} => h \in Mine(r)'
    BY DEF Mine, On, Marks
  <2> QED
    BY <1>3, <2>1, <2>2 DEF Joining, Under
<1> QED
  BY <1>1, <1>2, <1>3 DEF Elsewhere

LEMMA ThreadElsewhere ==
    ASSUME Serving(ListenerCalls), NEW t \in Threads, ServiceThreadStep(t)
    PROVE  Elsewhere
<1> DEFINE C == ListenerCalls
<1>1. /\ SessionState(C) /\ todo \in [Threads -> Seq(C)] /\ LockHeld /\ Broadcasting
      /\ \A c \in C : c.at \in Steps => c.session \in Sessions
  BY ListenerCallsAre DEF Serving, SessionState, Sane, CallsFor, CallsOf
<1> HIDE DEF C
<1>2. ASSUME NEW s \in Sessions, SessionStep(t, s) PROVE Elsewhere
  <2>1. QueuesKept(s) /\ fresh' = fresh
    BY <1>1, <1>2, StepQueues
  <2>2. (\E l \in Own : \E N : Turn(t, s, l, N)) /\ UNCHANGED known
    BY <1>1, <1>2, StepTurns
  <2>3. PICK l \in Own : \E N : Turn(t, s, l, N)
    BY <2>2
  <2>4. PICK N : Turn(t, s, l, N)
    BY <2>3
  <2>5. known' = known \cup (IF l = "addSession" THEN {s} ELSE {})
    BY <2>2 DEF Own
  <2> QED
    BY <1>1, <2>1, <2>4, <2>5, TurnElsewhere DEF C
<1>3. CASE CallbackReturns(t)
  <2>1. PICK s \in Sessions, l \in Callbacks : Turn(t, s, l, {})
    BY <1>1, <1>3, CallbackTurns
  <2>2. UNCHANGED <<registered, sendQueue, fresh, known>> /\ l # "addSession"
    BY <1>3 DEF CallbackReturns, SendVars, UserVars, Callbacks
  <2>3. QueuesKept(s) /\ fresh' = fresh /\ known' = known \cup (IF l = "addSession" THEN {s} ELSE {})
    BY <2>2 DEF QueuesKept
  <2> QED
    BY <1>1, <2>1, <2>3, TurnElsewhere DEF C
<1>4. ASSUME NEW s \in Sessions, ServiceAdd(t, s) \/ ServiceRelease(t, s) PROVE Elsewhere
  <2>1. ServiceStep(t, s)
    BY <1>4 DEF ServiceAdd, ServiceRelease, ServiceStep
  <2>2. QueuesKept(s) /\ fresh' = fresh
    BY <1>1, <2>1, StepQueues
  <2>3. CASE AddSession(t, s)
    <3>1. Turn(t, s, "addSession", {}) /\ known' = known \cup {s}
      BY <1>1, <2>3, AddTurns DEF AddSession
    <3>2. known' = known \cup (IF "addSession" = "addSession" THEN {s} ELSE {})
      BY <3>1
    <3> QED
      BY <1>1, <2>2, <3>1, <3>2, TurnElsewhere DEF C
  <2>4. CASE ReleaseSession(t, s)
    <3>1. Turn(t, s, "releaseSession", {}) /\ UNCHANGED known
      BY <1>1, <2>4, ReleaseTurns
    <3>2. known' = known \cup (IF "releaseSession" = "addSession" THEN {s} ELSE {})
      BY <3>1
    <3> QED
      BY <1>1, <2>2, <3>1, <3>2, TurnElsewhere DEF C
  <2> QED
    BY <2>1, <2>3, <2>4 DEF ServiceStep
<1>5. CASE EndBroadcast(t) \/ ClearSessions(t)
  <2>1. PICK l \in Marks :
           /\ At(t, None, l) /\ Return(t)
           /\ UNCHANGED <<connected, registered, sendQueue, known, fresh>> /\ UNCHANGED op
    BY <1>5 DEF EndBroadcast, ClearSessions, SendVars, UserVars, Marks
  <2>2. Frames' = Frames \ {Top(t)} /\ Top(t).at = l
    BY <1>1, <2>1, MarkGone
  <2> QED
    BY <2>1, <2>2, FramesElsewhere
<1> QED
  BY <1>2, <1>3, <1>4, <1>5 DEF ServiceThreadStep

LEMMA DispatchElsewhere ==
    ASSUME Serving(ListenerCalls), NEW t \in Threads, NEW s \in Sessions, NEW k \in Kinds,
           ServiceDispatch(t, s, k)
    PROVE  Elsewhere
<1> DEFINE a == With(Processing[k], s, op[s][k])
<1>1. /\ todo[t] = <<>> /\ op[s][k] # "idle" /\ op' = [op EXCEPT ![s][k] = "idle"]
      /\ todo' = [todo EXCEPT ![t] = <<a>>]
      /\ UNCHANGED <<connected, registered, sendQueue, known, fresh>>
  BY DEF ServiceDispatch, Dispatch, SendVars, UserVars
<1>2. todo \in [Threads -> Seq(ListenerCalls)]
      /\ op \in [Sessions -> [Kinds -> {"idle", "pending", "ok", "zero"}]]
  BY DEF Serving, SessionState, SessionTypes
<1>3. a.at \in Steps /\ a.session = s
  BY DEF With, Processing, Kinds, Steps
<1> HIDE DEF a
<1>4. PICK n : Frames' = Frames \cup {n} /\ n.at = a.at /\ n.session = s
  <2>1. <<a>> \o <<>> = <<a>>
    OBVIOUS
  <2>2. todo' = [todo EXCEPT ![t] = <<a>> \o @]
    BY <1>1, <2>1
  <2>3. Frames' = Frames \cup {Frame(t, Len(todo[t]) + 1, a)}
    BY <1>2, <2>2, PushedOne
  <2> QED
    BY <1>3, <2>3, FrameFields
<1>5. n.at \notin AcceptSteps /\ ~New(n.session)
  BY <1>1, <1>3, <1>4, AcceptStepsApart DEF New
<1>6. \A r \in Sessions, j \in Kinds : op[r][j] = "idle" => op'[r][j] = "idle"
  BY <1>1, <1>2
<1> QED
  BY <1>1, <1>4, <1>5, <1>6, FramesElsewhere

LEMMA CompleteElsewhere ==
    ASSUME Serving(ListenerCalls), NEW s \in Sessions, NEW k \in Kinds, ServiceComplete(s, k)
    PROVE  Elsewhere
<1>1. /\ UNCHANGED <<connected, registered, sendQueue, known, fresh>> /\ UNCHANGED todo
      /\ op[s][k] = "pending" /\ \E x \in {"ok", "zero"} : op' = [op EXCEPT ![s][k] = x]
  BY DEF ServiceComplete, Complete, SendVars, UserVars
<1>2. op \in [Sessions -> [Kinds -> {"idle", "pending", "ok", "zero"}]]
  BY DEF Serving, SessionState, SessionTypes
<1>3. \A r \in Sessions, j \in Kinds : op[r][j] = "idle" => op'[r][j] = "idle"
  BY <1>1, <1>2
<1>4. Frames' = Frames
  BY <1>1 DEF Frames
<1> QED
  BY <1>1, <1>3, <1>4, FramesElsewhere

LEMMA CallElsewhere ==
    ASSUME Serving(ListenerCalls), NEW t \in Threads, NEW s \in Sessions,
           CallDisconnect(t, s) \/ \E b \in Buffers : CallSend(t, s, b)
    PROVE  Elsewhere
<1>1. PICK a : /\ todo' = [todo EXCEPT ![t] = <<a>> \o @]
               /\ a.at \in {"send", "disconnect"} /\ a.session = s /\ s \in known
  <2>1. ASSUME NEW b \in Buffers, CallSend(t, s, b)
        PROVE  /\ todo' = [todo EXCEPT ![t] = <<With("send", s, b)>> \o @]
               /\ With("send", s, b).at = "send" /\ With("send", s, b).session = s /\ s \in known
    BY <2>1, StepIs DEF CallSend, Call
  <2>2. ASSUME CallDisconnect(t, s)
        PROVE  /\ todo' = [todo EXCEPT ![t] = <<Step("disconnect", s)>> \o @]
               /\ Step("disconnect", s).at = "disconnect" /\ Step("disconnect", s).session = s
               /\ s \in known
    BY <2>2, StepIs DEF CallDisconnect, Call
  <2> QED
    BY <2>1, <2>2
<1>2. UNCHANGED <<connected, registered, sendQueue, known, fresh>> /\ UNCHANGED op
  BY DEF CallDisconnect, CallSend, SendVars, UserVars
<1>3. PICK n : Frames' = Frames \cup {n} /\ n.at = a.at /\ n.session = s
  <2>1. todo \in [Threads -> Seq(ListenerCalls)]
    BY DEF Serving, SessionState
  <2>2. Frames' = Frames \cup {Frame(t, Len(todo[t]) + 1, a)}
    BY <1>1, <2>1, PushedOne
  <2> QED
    BY <1>1, <2>2, FrameFields
<1>4. n.at \notin AcceptSteps /\ ~New(n.session)
  BY <1>1, <1>3 DEF AcceptSteps, New
<1> QED
  BY <1>2, <1>3, <1>4, FramesElsewhere

LEMMA EachElsewhere ==
    ASSUME Serving(ListenerCalls), NEW t \in Threads,
           (\E b \in Buffers : Broadcast(t, b)) \/ CloseService(t)
    PROVE  Elsewhere
<1>1. UNCHANGED <<connected, registered, sendQueue, known, fresh>> /\ UNCHANGED op
  BY DEF Broadcast, CloseService, ForEach, SendVars, UserVars
<1>2. \E l \in {"send", "disconnect"}, last \in Marks : \E arg, N : \E e : Each(t, l, arg, last, N, e)
  <2>1. "endBroadcast" \in Marks /\ "clearSessions" \in Marks
    BY DEF Marks
  <2>2. ASSUME NEW b \in Buffers, Broadcast(t, b)
        PROVE  \E N : \E e : Each(t, "send", b, "endBroadcast", N, e)
    BY <2>2, ListenerCallsAre, BroadcastCalls
  <2>3. ASSUME CloseService(t)
        PROVE  \E N : \E e : Each(t, "disconnect", None, "clearSessions", N, e)
    BY <2>3, ListenerCallsAre, CloseCalls
  <2> QED
    BY <2>1, <2>2, <2>3
<1>3. PICK l \in {"send", "disconnect"}, last \in Marks :
         \E arg, N : \E e : Each(t, l, arg, last, N, e)
  BY <1>2
<1>4. PICK arg, N : \E e : Each(t, l, arg, last, N, e)
  BY <1>3
<1>5. PICK e : Each(t, l, arg, last, N, e)
  BY <1>4
<1>6. \A n \in N : n.at \notin AcceptSteps /\ n.session \in known \cup {None}
  <2>1. sessions \subseteq known
    BY DEF Serving, Sane, Parted
  <2> QED
    BY <1>5, <2>1 DEF Each, AcceptSteps, Marks
<1>7. Frames' = Frames \cup N
  BY <1>5 DEF Each
<1>8. ~New(None)
  BY ServiceAssumption DEF New
<1>9. \A n \in N : ~New(n.session)
  BY <1>6, <1>8 DEF New
<1> QED
  BY <1>1, <1>6, <1>7, <1>9, FramesElsewhere
------------------------------------------------------------------------------
(* The steps of the listener, as far as the service is concerned: no session
   has a frame more, but for a new one that is connected. *)

LEMMA AcceptSane ==
    ASSUME Sane,
           \A f \in Frames : f.at \notin AcceptSteps => f \in Frames',
           \A f \in Frames' : f \in Frames \/ f.at \in AcceptSteps \cup {"processConnect"},
           UNCHANGED <<connected, op, known, unsent, accepted>>,
           UNCHANGED <<sessions, serviceLock, released, swept>>,
           \A r \in Sessions : \/ Mine(r)' = Mine(r)
                               \/ New(r) /\ \A f \in Mine(r)' : f.at = "processConnect"
    PROVE  Sane'
<1>1. /\ LockHeld /\ Parted /\ Closing /\ Broadcasting
      /\ \A r \in Sessions : Entering(r) /\ Ending(r)
      /\ \A b \in Buffers : SentOnce(b)
  BY DEF Sane
<1>2. /\ \A e \in Frames : e.at \in Marks => e \in Frames'
      /\ \A e \in Frames' : e.at \in Marks => e \in Frames
  BY AcceptStepsApart DEF Marks
<1>3. \A b : Sending(b)' = Sending(b)
  BY DEF Sending, AcceptSteps
<1>4. \A b \in Buffers : SentOnce(b)' /\ Reach(b)' = Reach(b)
  BY <1>1, <1>3, SentSame
<1>5. Broadcasting'
  BY <1>1, <1>2, <1>3, <1>4, BroadcastingSame
<1>6. LockHeld' /\ Parted'
  BY <1>1, <1>2 DEF LockHeld, Parted
<1>7. Closing'
  <2> SUFFICES ASSUME NEW e \in Frames', e.at = "clearSessions", NEW s \in sessions, s \in connected
               PROVE  \E g \in Mine(s)' : g.at = "disconnect" /\ Under(e, g)
    BY DEF Closing, Under
  <2>1. PICK g \in Mine(s) : g.at = "disconnect" /\ Under(e, g)
    BY <1>1, <1>2 DEF Closing, Marks
  <2>2. g \in Mine(s)'
    BY <2>1 DEF Mine, On, AcceptSteps
  <2> QED
    BY <2>1, <2>2
<1>8. ASSUME NEW r \in Sessions PROVE Entering(r)' /\ Ending(r)'
  <2>1. CASE Mine(r)' = Mine(r)
    BY <1>1, <2>1, EnteringSame, EndingSame
  <2>2. CASE New(r) /\ \A f \in Mine(r)' : f.at = "processConnect"
    <3>1. Entering(r)'
      BY <2>2 DEF Entering, New, Kinds
    <3>2. Ending(r)'
      BY <2>2, Uses DEF Ending, Some, New, Kinds
    <3> QED
      BY <3>1, <3>2
  <2> QED
    BY <2>1, <2>2
<1> QED
  BY <1>4, <1>5, <1>6, <1>7, <1>8 DEF Sane

(* What a new session is, and where it stays: made, forgotten or connected. *)
LEMMA AcceptSession ==
    ASSUME NEW r \in Sessions, SessionOK(r),
           UNCHANGED <<connected, owner, op, refused, SendVars, known>>,
           \/ Mine(r)' = Mine(r) /\ (r \in fresh' => r \in fresh \/ New(r))
           \/ /\ New(r) /\ r \notin fresh' /\ \A f \in Mine(r)' : f.at = "processConnect"
              /\ \A f, g \in Mine(r)' : f = g
    PROVE  SessionOK(r)'
<1>1. CASE Mine(r)' = Mine(r) /\ (r \in fresh' => r \in fresh \/ New(r))
  <2>1. RecvSide(r)' /\ SendSide(r)' /\ EndSide(r)'
    <3>1. \A k \in Kinds : /\ op'[r][k] = "idle" <=> op[r][k] = "idle"
                           /\ k \in owner[r] => k \in owner'[r]
      OBVIOUS
    <3> QED
      BY <1>1, <3>1, SameSides
  <2>2. Begins(r)'
    <3>1. Begins(r) /\ (Some(r, {"processConnect"})' <=> Some(r, {"processConnect"}))
      BY <1>1 DEF SessionOK, Some
    <3> QED
      BY <1>1, <3>1 DEF Begins, Young, New, Kinds, SendVars
  <2> QED
    BY <2>1, <2>2 DEF SessionOK
<1>2. CASE /\ New(r) /\ r \notin fresh' /\ \A f \in Mine(r)' : f.at = "processConnect"
           /\ \A f, g \in Mine(r)' : f = g
  <2>1. \A k \in Kinds : op'[r][k] = "idle" /\ op[r][k] = "idle"
    BY <1>2 DEF New
  <2>2. Users(r, "send")' = Users(r, "send") /\ Users(r, "disconnect")' = Users(r, "disconnect")
    BY <1>2, Uses DEF Users, New
  <2>3. Begins(r)'
    BY <1>2, <2>1 DEF Begins, Young, New, Kinds, SendVars
  <2>4. SendSide(r)' /\ EndSide(r)'
    <3>1. SendSide(r)'
      <4>1. Ends(r) /\ Ends(r)'
        BY <1>2 DEF Ends, New
      <4> QED
        BY <2>1, <2>2, <4>1, SendSideStays DEF SessionOK, Kinds, SendVars
    <3>2. EndSide(r)'
      BY <2>1, <2>2, EndSideStays DEF SessionOK, Kinds
    <3> QED
      BY <3>1, <3>2
  <2>5. RecvSide(r)'
    <3>1. r \notin connected' /\ op'[r]["recv"] = "idle"
      BY <1>2, <2>1 DEF New, Kinds
    <3> QED
      BY <1>2, <3>1 DEF RecvSide, UsedOnce, One, Ends, Some
  <2> QED
    BY <2>3, <2>4, <2>5 DEF SessionOK
<1> QED
  BY <1>1, <1>2

LEMMA AcceptServing ==
    ASSUME Serving(ListenerCalls), todo' \in [Threads -> Seq(ListenerCalls)], fresh' \subseteq Sessions,
           \A f \in Frames : f.at \notin AcceptSteps => f \in Frames',
           \A f \in Frames' : f \in Frames \/ f.at \in AcceptSteps \cup {"processConnect"},
           UNCHANGED <<known, unsent, SessionVars>>,
           \A r \in Sessions :
              \/ Mine(r)' = Mine(r) /\ (r \in fresh' => r \in fresh \/ New(r))
              \/ /\ New(r) /\ r \notin fresh' /\ \A f \in Mine(r)' : f.at = "processConnect"
                 /\ \A f, g \in Mine(r)' : f = g
    PROVE  Serving(ListenerCalls)'
<1> DEFINE C == ListenerCalls
<1>1. SessionState(C) /\ SessionsOK /\ Sane
  BY DEF Serving
<1>2. /\ UNCHANGED <<connected, owner, op, refused, SendVars, known>>
      /\ UNCHANGED <<connected, op, known, unsent, accepted>>
      /\ UNCHANGED <<sessions, serviceLock, released, swept>>
      /\ UNCHANGED serviceVars /\ UNCHANGED accepted
  BY DEF SessionVars, SendVars, serviceVars
<1>3. SessionsOK'
  BY <1>1, <1>2, AcceptSession DEF SessionsOK
<1>4. Sane'
  BY <1>1, <1>2, AcceptSane
<1>5. SessionState(C)'
  BY <1>1, <1>2 DEF SessionState, SessionTypes, SendVars
<1> HIDE DEF C
<1>6. Serving(C)
  BY DEF C
<1>7. Serving(C)'
  BY <1>2, <1>3, <1>4, <1>5, <1>6, AloneOK
<1> QED
  BY <1>7 DEF C
------------------------------------------------------------------------------
(* The steps of the listener, as far as the slots are concerned *)

(* A step for slot e leaves the others as they are. *)
LEMMA OneSlot ==
    ASSUME Listening, NEW e \in Slots, ListenerTyped', phase' # "created",
           \A x \in Slots \ {e} : /\ For(x)' = For(x)
                                  /\ slot'[x] = slot[x] /\ acceptOp'[x] = acceptOp[x]
                                  /\ x \in acceptEvents' <=> x \in acceptEvents,
           \A s \in Sessions : Mine(s) \subseteq Mine(s)',
           known' = known,
           \A s : New(s) /\ slot[e] # s => New(s)',
           fresh' \subseteq fresh \cup {slot[e]},
           slot'[e] \in {slot[e], None} \cup fresh,
           Armed(e)', Slotted(e)'
    PROVE  Listening'
<1>1. ASSUME NEW x \in Slots \ {e} PROVE Armed(x)'
  BY <1>1 DEF Listening, Armed
<1>2. ASSUME NEW x \in Slots \ {e} PROVE Slotted(x)'
  <2>1. Slotted(x) /\ slot'[x] = slot[x]
    BY DEF Listening
  <2>2. Waiting(x)' <=> Waiting(x)
    BY DEF Waiting
  <2> SUFFICES ASSUME NEW s \in Sessions, slot[x] = s
               PROVE  /\ s \notin fresh'
                      /\ \A f \in Slots : slot'[f] = s => f = x
                      /\ Waiting(x) => New(s)'
                      /\ New(s)' \/ s \in known' \/ Joining(s, x)'
    BY <2>1, <2>2 DEF Slotted
  <2>3. /\ s \notin fresh /\ \A f \in Slots : slot[f] = s => f = x
        /\ Waiting(x) => New(s)
        /\ New(s) \/ s \in known \/ Joining(s, x)
    BY <2>1 DEF Slotted
  <2>4. slot[e] # s /\ s # None
    BY <2>3, ServiceAssumption
  <2>5. Joining(s, x) => Joining(s, x)'
    BY DEF Joining, Under
  <2> QED
    BY <2>3, <2>4, <2>5
<1> QED
  BY <1>1, <1>2 DEF Listening

(* The frame that takes a step for slot e is its only user. *)
LEMMA SlotTop ==
    ASSUME todo \in [Threads -> Seq(ListenerCalls)], Listening, NEW t \in Threads, NEW e \in Slots,
           NEW l \in AcceptSteps, AtSlot(t, l, e)
    PROVE  /\ todo[t] # <<>> /\ Top(t) \in Frames /\ Top(t).at = l /\ Top(t).session = None
           /\ Top(t).thread = t /\ Top(t).depth = Len(todo[t]) /\ Len(todo[t]) \in Nat
           /\ \A f \in Frames : ~Under(Top(t), f)
           /\ For(e) = {Top(t)} /\ acceptOp[e] = "idle" /\ phase # "created"
           /\ e \in acceptEvents <=> l # "newSlot"
<1>1. todo[t] # <<>> /\ todo[t][1].at = l /\ todo[t][1].session = None /\ todo[t][1].arg = e
  BY DEF AtSlot, At, Arg
<1>2. Top(t) \in Frames
  <2>1. todo[t] \in Seq(ListenerCalls)
    OBVIOUS
  <2>2. Top(t) \in FramesIn(t, todo[t])
    BY <1>1, <2>1, TopFrame DEF Top
  <2> QED
    BY <2>2 DEF Frames, FramesOf
<1>3. /\ Top(t).at = l /\ Top(t).session = None /\ Top(t).arg = e
      /\ Top(t).thread = t /\ Top(t).depth = Len(todo[t])
  BY <1>1, FrameFields DEF Top
<1>4. \A f \in Frames : ~Under(Top(t), f)
  BY <1>3, TopIsTop
<1>5. Top(t) \in For(e)
  BY <1>2, <1>3 DEF For, Accepts
<1>6. Armed(e)
  BY DEF Listening
<1>7. For(e) = {Top(t)}
  BY <1>5, <1>6 DEF Armed
<1>8. acceptOp[e] = "idle" /\ (e \in acceptEvents <=> l # "newSlot")
  BY <1>3, <1>5, <1>6 DEF Armed
<1> QED
  BY <1>1, <1>2, <1>3, <1>4, <1>7, <1>8 DEF Listening

(* It goes on with frames for e, on no session. *)
SlotMoves(t, e, N) ==
    /\ Frames' = (Frames \ {Top(t)}) \cup N
    /\ \A n \in N : n.at \in AcceptSteps /\ n.session = None /\ n.arg = e
    /\ todo' \in [Threads -> Seq(ListenerCalls)]

LEMMA SlotGoesOn ==
    ASSUME todo \in [Threads -> Seq(ListenerCalls)], NEW t \in Threads, NEW e \in Slots,
           todo[t] # <<>>, NEW k \in AcceptSteps, Then(t, <<With(k, None, e)>>)
    PROVE  \E n : SlotMoves(t, e, {n}) /\ n.at = k
<1> DEFINE a == With(k, None, e)
<1>1. a \in ListenerCalls /\ a.at = k /\ a.session = None /\ a.arg = e
  BY AcceptCall
<1> HIDE DEF a
<1>2. <<a>> \in Seq(ListenerCalls) /\ Then(t, <<a>>) /\ Len(todo[t]) - 1 \in Int
  <2>1. Len(todo[t]) \in Nat
    BY Lengths
  <2> QED
    BY <1>1, <2>1 DEF a
<1>3. todo' \in [Threads -> Seq(ListenerCalls)]
  BY <1>2, ThenTyped
<1>4. Frames' = (Frames \ {Top(t)}) \cup Pushed(t, Len(todo[t]) - 1, <<a>>)
  BY <1>2, ThenFrames DEF Frames
<1>5. Pushed(t, Len(todo[t]) - 1, <<a>>) = {Frame(t, Len(todo[t]) - 1 + 1, a)}
  BY <1>2, Pushed1
<1> DEFINE n == Frame(t, Len(todo[t]) - 1 + 1, a)
<1>6. n.at = k /\ n.session = None /\ n.arg = e
  BY <1>1, FrameFields
<1>7. Frames' = (Frames \ {Top(t)}) \cup {n}
  BY <1>4, <1>5
<1> HIDE DEF n
<1>8. SlotMoves(t, e, {n})
  BY <1>3, <1>6, <1>7 DEF SlotMoves
<1> QED
  BY <1>6, <1>8

LEMMA SlotReturns ==
    ASSUME todo \in [Threads -> Seq(ListenerCalls)], NEW t \in Threads, NEW e \in Slots,
           todo[t] # <<>>, Return(t)
    PROVE  SlotMoves(t, e, {})
<1>1. <<>> \in Seq(ListenerCalls) /\ <<>> \in Seq({}) /\ Then(t, <<>>)
  BY DEF Return
<1>2. todo' \in [Threads -> Seq(ListenerCalls)]
  BY <1>1, ThenTyped
<1>3. Frames' = (Frames \ {Top(t)}) \cup {}
  BY <1>1, ThenFrames, Pushed0 DEF Frames
<1> QED
  BY <1>2, <1>3 DEF SlotMoves

(* What such a step leaves alone. *)
LEMMA SlotMoved ==
    ASSUME Serving(ListenerCalls), Listening, NEW t \in Threads, NEW e \in Slots,
           NEW l \in AcceptSteps, AtSlot(t, l, e), NEW N, SlotMoves(t, e, N)
    PROVE  /\ For(e)' = N
           /\ \A x : x # e => For(x)' = For(x)
           /\ \A r \in Sessions : Mine(r)' = Mine(r)
           /\ \A f \in Frames : f.at \notin AcceptSteps => f \in Frames'
           /\ \A f \in Frames' : f \in Frames \/ f.at \in AcceptSteps
           /\ phase # "created"
<1>1. todo \in [Threads -> Seq(ListenerCalls)]
  BY DEF Serving, SessionState
<1>2. /\ Top(t) \in Frames /\ Top(t).at = l /\ Top(t).session = None
      /\ For(e) = {Top(t)} /\ phase # "created"
  BY <1>1, SlotTop
<1>3. For(e)' = N
  BY <1>2 DEF For, Accepts, SlotMoves
<1>4. ASSUME NEW x, x # e PROVE For(x)' = For(x)
  <2>1. Top(t) \notin For(x)
    BY <1>2, <1>4 DEF For
  <2> QED
    BY <1>4, <2>1 DEF For, Accepts, SlotMoves
<1>5. \A r \in Sessions : Mine(r)' = Mine(r)
  BY <1>2, ServiceAssumption DEF SlotMoves, Mine, On
<1> QED
  BY <1>2, <1>3, <1>4, <1>5 DEF SlotMoves

LEMMA NewStays ==
    ASSUME NEW s, New(s), Mine(s)' = Mine(s), s \notin fresh', UNCHANGED <<known, SessionVars>>
    PROVE  New(s)'
BY DEF New, SessionVars, SendVars

(* A slot is handed on, to a frame that will arm it or to AcceptEx. *)
LEMMA HandedOn ==
    ASSUME ListenerInv, NEW t \in Threads, NEW e \in Slots, NEW l \in AcceptSteps, AtSlot(t, l, e),
           NEW N, SlotMoves(t, e, N),
           UNCHANGED <<fresh, known, unsent, SessionVars>>, UNCHANGED <<phase, slot>>,
           acceptEvents' = acceptEvents \cup {e},
           \A x \in Slots : x # e => acceptOp'[x] = acceptOp[x],
           acceptOp' \in [Slots -> {"idle", "pending", "ok"}],
           \/ acceptOp'[e] = "idle" /\ \E n : N = {n} /\ n.at = "registerAccept"
           \/ acceptOp'[e] = "pending" /\ N = {} /\ l = "acceptEx"
    PROVE  ListenerInv'
<1>1. Serving(ListenerCalls) /\ Listening /\ todo \in [Threads -> Seq(ListenerCalls)]
  BY DEF ListenerInv, Serving, SessionState
<1>2. /\ For(e)' = N
      /\ \A x : x # e => For(x)' = For(x)
      /\ \A r \in Sessions : Mine(r)' = Mine(r)
      /\ \A f \in Frames : f.at \notin AcceptSteps => f \in Frames'
      /\ \A f \in Frames' : f \in Frames \/ f.at \in AcceptSteps
      /\ phase # "created"
  BY <1>1, SlotMoved
<1>3. Serving(ListenerCalls)'
  <2>1. todo' \in [Threads -> Seq(ListenerCalls)] /\ fresh' \subseteq Sessions
    BY <1>1 DEF SlotMoves, Serving, SessionState, SessionTypes
  <2>2. \A r \in Sessions : Mine(r)' = Mine(r) /\ (r \in fresh' => r \in fresh \/ New(r))
    BY <1>2
  <2>3. \A f \in Frames' : f \in Frames \/ f.at \in AcceptSteps \cup {"processConnect"}
    BY <1>2
  <2>4. UNCHANGED <<known, unsent, SessionVars>>
    OBVIOUS
  <2> QED
    BY <1>1, <1>2, <2>1, <2>2, <2>3, <2>4, AcceptServing
<1>4. \A s : New(s) => New(s)'
  <2>1. UNCHANGED <<known, SessionVars>>
    OBVIOUS
  <2>2. \A s : New(s) => s \in Sessions /\ s \notin fresh'
    BY DEF New
  <2> QED
    BY <1>2, <2>1, <2>2, NewStays
<1>5. Armed(e)'
  BY <1>2 DEF Armed, AcceptSteps
<1>6. Slotted(e)'
  <2>1. Slotted(e) /\ For(e) = {Top(t)} /\ Top(t).at = l
    BY <1>1, SlotTop DEF Listening
  <2>2. Waiting(e)' => l = "acceptEx"
    BY <1>2 DEF Waiting
  <2>3. Waiting(e)' => Waiting(e)
    BY <2>1, <2>2 DEF Waiting
  <2>4. \A s : ~Joining(s, e)
    <3>1. \A f \in Frames : ~Under(Top(t), f)
      BY <1>1, SlotTop
    <3> QED
      BY <2>1, <3>1 DEF Joining, Mine, On
  <2> QED
    BY <1>4, <2>1, <2>3, <2>4 DEF Slotted
<1>7. ListenerTyped'
  BY <1>1 DEF Listening, ListenerTyped
<1>8. Listening'
  BY <1>1, <1>2, <1>4, <1>5, <1>6, <1>7, OneSlot
<1> QED
  BY <1>3, <1>8 DEF ListenerInv

LEMMA NewSlotOK ==
    ASSUME ListenerInv, NEW t \in Threads, NEW e \in Slots, NewSlot(t, e)
    PROVE  ListenerInv'
<1>1. /\ AtSlot(t, "newSlot", e) /\ Then(t, <<With("registerAccept", None, e)>>)
      /\ UNCHANGED <<fresh, known, unsent, SessionVars>> /\ UNCHANGED <<phase, slot>>
      /\ acceptEvents' = acceptEvents \cup {e} /\ UNCHANGED acceptOp
  BY DEF NewSlot, UserVars
<1>2. /\ todo \in [Threads -> Seq(ListenerCalls)] /\ Listening
      /\ "newSlot" \in AcceptSteps /\ "registerAccept" \in AcceptSteps
  BY DEF ListenerInv, Serving, SessionState, AcceptSteps
<1>3. todo[t] # <<>> /\ acceptOp[e] = "idle" /\ acceptOp \in [Slots -> {"idle", "pending", "ok"}]
  BY <1>1, <1>2, SlotTop DEF Listening, ListenerTyped
<1>4. PICK n : SlotMoves(t, e, {n}) /\ n.at = "registerAccept"
  BY <1>1, <1>2, <1>3, SlotGoesOn
<1> DEFINE N == {n}
<1>5. SlotMoves(t, e, N) /\ acceptOp'[e] = "idle" /\ \E m : N = {m} /\ m.at = "registerAccept"
  BY <1>1, <1>3, <1>4
<1> HIDE DEF N
<1>6. /\ \A x \in Slots : x # e => acceptOp'[x] = acceptOp[x]
      /\ acceptOp' \in [Slots -> {"idle", "pending", "ok"}]
  BY <1>1, <1>3
<1> QED
  BY <1>1, <1>2, <1>5, <1>6, HandedOn

LEMMA AcceptExRefusedOK ==
    ASSUME ListenerInv, NEW t \in Threads, NEW e \in Slots, AcceptExRefused(t, e)
    PROVE  ListenerInv'
<1>1. /\ AtSlot(t, "acceptEx", e) /\ Then(t, <<With("registerAccept", None, e)>>)
      /\ UNCHANGED <<fresh, known, unsent, SessionVars>> /\ UNCHANGED <<phase, slot>>
      /\ UNCHANGED <<acceptEvents, acceptOp>>
  BY DEF AcceptExRefused, UserVars
<1>2. /\ todo \in [Threads -> Seq(ListenerCalls)] /\ Listening
      /\ "acceptEx" \in AcceptSteps /\ "registerAccept" \in AcceptSteps
  BY DEF ListenerInv, Serving, SessionState, AcceptSteps
<1>3. /\ todo[t] # <<>> /\ acceptOp[e] = "idle" /\ acceptOp \in [Slots -> {"idle", "pending", "ok"}]
      /\ e \in acceptEvents
  BY <1>1, <1>2, SlotTop DEF Listening, ListenerTyped
<1>4. PICK n : SlotMoves(t, e, {n}) /\ n.at = "registerAccept"
  BY <1>1, <1>2, <1>3, SlotGoesOn
<1> DEFINE N == {n}
<1>5. SlotMoves(t, e, N) /\ acceptOp'[e] = "idle" /\ \E m : N = {m} /\ m.at = "registerAccept"
  BY <1>1, <1>3, <1>4
<1> HIDE DEF N
<1>6. /\ \A x \in Slots : x # e => acceptOp'[x] = acceptOp[x]
      /\ acceptOp' \in [Slots -> {"idle", "pending", "ok"}] /\ acceptEvents' = acceptEvents \cup {e}
  BY <1>1, <1>3
<1> QED
  BY <1>1, <1>2, <1>5, <1>6, HandedOn

LEMMA AcceptExOK ==
    ASSUME ListenerInv, NEW t \in Threads, NEW e \in Slots, AcceptEx(t, e)
    PROVE  ListenerInv'
<1>1. /\ AtSlot(t, "acceptEx", e) /\ Return(t)
      /\ UNCHANGED <<fresh, known, unsent, SessionVars>> /\ UNCHANGED <<phase, slot>>
      /\ UNCHANGED acceptEvents /\ acceptOp' = [acceptOp EXCEPT ![e] = "pending"]
  BY DEF AcceptEx, UserVars
<1>2. todo \in [Threads -> Seq(ListenerCalls)] /\ Listening /\ "acceptEx" \in AcceptSteps
  BY DEF ListenerInv, Serving, SessionState, AcceptSteps
<1>3. /\ todo[t] # <<>> /\ acceptOp \in [Slots -> {"idle", "pending", "ok"}] /\ e \in acceptEvents
  BY <1>1, <1>2, SlotTop DEF Listening, ListenerTyped
<1>4. SlotMoves(t, e, {})
  BY <1>1, <1>2, <1>3, SlotReturns
<1>5. /\ \A x \in Slots : x # e => acceptOp'[x] = acceptOp[x]
      /\ acceptOp' \in [Slots -> {"idle", "pending", "ok"}] /\ acceptEvents' = acceptEvents \cup {e}
      /\ acceptOp'[e] = "pending"
  BY <1>1, <1>3
<1> QED
  BY <1>1, <1>2, <1>4, <1>5, HandedOn

LEMMA MadeNew ==
    ASSUME NEW s \in Sessions, SessionOK(s), s \in fresh \/ New(s), s \notin fresh',
           Mine(s)' = Mine(s), UNCHANGED <<known, SessionVars>>
    PROVE  New(s)'
<1>1. CASE s \in fresh
  <2>1. /\ s \notin connected /\ s \notin known /\ s \notin registered /\ sendQueue[s] = <<>>
        /\ \A k \in Kinds : op[s][k] = "idle"
        /\ Mine(s) = {}
    BY <1>1 DEF SessionOK, Begins, Young
  <2> QED
    BY <2>1 DEF New, SessionVars, SendVars
<1>2. CASE New(s)
  BY <1>2, NewStays
<1> QED
  BY <1>1, <1>2

LEMMA RegisterAcceptOK ==
    ASSUME ListenerInv, NEW t \in Threads, NEW e \in Slots, RegisterAccept(t, e)
    PROVE  ListenerInv'
<1>1. /\ AtSlot(t, "registerAccept", e) /\ Then(t, <<With("acceptEx", None, e)>>)
      /\ UNCHANGED <<known, unsent, SessionVars>> /\ UNCHANGED <<known, SessionVars>>
      /\ UNCHANGED <<phase, acceptEvents, acceptOp>>
  BY DEF RegisterAccept
<1>2. PICK s \in Sessions :
         /\ s \in fresh \cup ({slot[e]} \ (known \cup {None}))
         /\ fresh' = (fresh \cup ({slot[e]} \ (known \cup {None}))) \ {s}
         /\ slot' = [slot EXCEPT ![e] = s]
  BY DEF RegisterAccept, CreateSession
<1>3. /\ Serving(ListenerCalls) /\ Listening /\ todo \in [Threads -> Seq(ListenerCalls)]
      /\ "acceptEx" \in AcceptSteps /\ "registerAccept" \in AcceptSteps /\ SessionsOK
      /\ fresh \subseteq Sessions
  BY DEF ListenerInv, Serving, SessionState, SessionTypes, AcceptSteps
<1>4. /\ todo[t] # <<>> /\ For(e) = {Top(t)} /\ Top(t).at = "registerAccept"
      /\ acceptOp[e] = "idle" /\ e \in acceptEvents
      /\ \A f \in Frames : ~Under(Top(t), f)
  BY <1>1, <1>3, SlotTop
<1>5. PICK n : SlotMoves(t, e, {n}) /\ n.at = "acceptEx"
  BY <1>1, <1>3, <1>4, SlotGoesOn
<1> DEFINE N == {n}
<1>6. SlotMoves(t, e, N) /\ \A m \in N : m.at = "acceptEx"
  BY <1>5
<1>7. \E m : N = {m}
  OBVIOUS
<1> HIDE DEF N
<1>8. /\ For(e)' = N
      /\ \A x : x # e => For(x)' = For(x)
      /\ \A r \in Sessions : Mine(r)' = Mine(r)
      /\ \A f \in Frames : f.at \notin AcceptSteps => f \in Frames'
      /\ \A f \in Frames' : f \in Frames \/ f.at \in AcceptSteps
      /\ phase # "created"
  BY <1>1, <1>3, <1>6, SlotMoved
<1>9. ListenerTyped /\ Slotted(e) /\ Armed(e)
  BY <1>3 DEF Listening
<1>10. ASSUME NEW r, r = slot[e], r # None, r \notin known
       PROVE  r \in Sessions /\ New(r)
  <2>1. r \in Sessions
    BY <1>9, <1>10 DEF ListenerTyped
  <2>2. ~Joining(r, e)
    BY <1>4 DEF Joining, Mine, On
  <2> QED
    BY <1>9, <1>10, <2>1, <2>2 DEF Slotted
<1>11. \A r \in fresh' : r \in Sessions /\ (r \in fresh \/ New(r))
  BY <1>2, <1>3, <1>10
<1>12. Serving(ListenerCalls)'
  <2>1. todo' \in [Threads -> Seq(ListenerCalls)] /\ fresh' \subseteq Sessions
    BY <1>6, <1>11 DEF SlotMoves
  <2>2. \A r \in Sessions : Mine(r)' = Mine(r) /\ (r \in fresh' => r \in fresh \/ New(r))
    BY <1>8, <1>11
  <2>3. \A f \in Frames' : f \in Frames \/ f.at \in AcceptSteps \cup {"processConnect"}
    BY <1>8
  <2> QED
    BY <1>1, <1>3, <1>8, <2>1, <2>2, <2>3, AcceptServing
<1>13. New(s)'
  <2>1. s \in fresh \/ New(s)
    BY <1>2, <1>10
  <2>2. SessionOK(s) /\ s \notin fresh' /\ Mine(s)' = Mine(s)
    BY <1>2, <1>3, <1>8 DEF SessionsOK
  <2> QED
    BY <1>1, <2>1, <2>2, MadeNew
<1>14. ASSUME NEW r, New(r), slot[e] # r PROVE New(r)'
  <2>1. r \in Sessions /\ r \notin fresh' /\ Mine(r)' = Mine(r)
    BY <1>2, <1>8, <1>14 DEF New
  <2> QED
    BY <1>1, <1>14, <2>1, NewStays
<1>15. ListenerTyped'
  BY <1>1, <1>2, <1>9 DEF ListenerTyped
<1>16. slot'[e] = s /\ \A x \in Slots : x # e => slot'[x] = slot[x]
  BY <1>2, <1>9 DEF ListenerTyped
<1>17. Armed(e)'
  <2>1. \A f, g \in N : f = g
    BY <1>7
  <2>2. N # {} /\ acceptOp'[e] = "idle" /\ e \in acceptEvents'
    BY <1>1, <1>4, <1>7
  <2> QED
    BY <1>6, <1>8, <2>1, <2>2 DEF Armed
<1>18. Slotted(e)'
  <2>1. ASSUME NEW x \in Slots, slot'[x] = s PROVE x = e
    <3> SUFFICES ASSUME x # e PROVE FALSE
      OBVIOUS
    <3>1. slot[x] = s /\ Slotted(x)
      BY <1>3, <1>16, <2>1 DEF Listening
    <3>2. s \notin fresh
      BY <3>1 DEF Slotted
    <3>3. s = slot[e]
      BY <1>2, <3>2
    <3> QED
      BY <3>1, <3>3 DEF Slotted
  <2>2. s \notin fresh' /\ s # None
    BY <1>2, ServiceAssumption
  <2> QED
    BY <1>13, <1>16, <2>1, <2>2 DEF Slotted
<1>19. Listening'
  <2>1. fresh' \subseteq fresh \cup {slot[e]}
    BY <1>2
  <2>2. slot'[e] \in {slot[e], None} \cup fresh
    BY <1>2, <1>16
  <2>3. phase' # "created" /\ known' = known
    BY <1>1, <1>8
  <2>4. \A x \in Slots \ {e} : /\ For(x)' = For(x)
                               /\ slot'[x] = slot[x] /\ acceptOp'[x] = acceptOp[x]
                               /\ x \in acceptEvents' <=> x \in acceptEvents
    BY <1>1, <1>8, <1>16
  <2> QED
    BY <1>3, <1>8, <1>14, <1>15, <1>17, <1>18, <2>1, <2>2, <2>3, <2>4, OneSlot
<1> QED
  BY <1>12, <1>19 DEF ListenerInv

(* ProcessAccept calls ProcessConnect of the session that waited. *)
LEMMA ConnectFrames ==
    ASSUME todo \in [Threads -> Seq(ListenerCalls)], NEW t \in Threads, NEW e \in Slots,
           todo[t] # <<>>, NEW s \in Sessions,
           Then(t, <<Step("processConnect", s), With("registerAccept", None, e)>>)
    PROVE  /\ todo' \in [Threads -> Seq(ListenerCalls)]
           /\ \E g, h : /\ Frames' = (Frames \ {Top(t)}) \cup {g, h}
                        /\ g.at = "registerAccept" /\ g.session = None /\ g.arg = e
                        /\ h.at = "processConnect" /\ h.session = s /\ Under(g, h)
<1> DEFINE a == Step("processConnect", s)  b == With("registerAccept", None, e)
<1>1. a \in ListenerCalls /\ a.at = "processConnect" /\ a.session = s
  <2>1. CallsIn(ListenerCalls) /\ "processConnect" \in Steps \ {"send", "push"}
    BY ListenerCallsAre DEF CallsFor, CallsOf, Steps
  <2> QED
    BY <2>1, StepCalls, StepIs
<1>2. b \in ListenerCalls /\ b.at = "registerAccept" /\ b.session = None /\ b.arg = e
  BY AcceptCall DEF AcceptSteps
<1> HIDE DEF a, b
<1>3. Len(todo[t]) \in Nat
  BY Lengths
<1>4. <<a, b>> \in Seq(ListenerCalls) /\ Then(t, <<a, b>>)
  BY <1>1, <1>2 DEF a, b
<1>5. todo' \in [Threads -> Seq(ListenerCalls)]
  BY <1>4, ThenTyped
<1>6. Frames' = (Frames \ {Top(t)}) \cup Pushed(t, Len(todo[t]) - 1, <<a, b>>)
  BY <1>4, ThenFrames DEF Frames
<1> DEFINE m == Len(todo[t]) - 1  g == Frame(t, m + 1, b)  h == Frame(t, m + 2, a)
<1>7. Pushed(t, m, <<a, b>>) = {h, g} /\ m + 1 < m + 2
  <2>1. m \in Int
    BY <1>3
  <2> HIDE DEF m
  <2> QED
    BY <2>1, Pushed2
<1>8. /\ g.at = "registerAccept" /\ g.session = None /\ g.arg = e
      /\ h.at = "processConnect" /\ h.session = s
      /\ g.thread = h.thread /\ g.depth = m + 1 /\ h.depth = m + 2
  BY <1>1, <1>2, FrameFields
<1> HIDE DEF g, h
<1>9. Under(g, h)
  BY <1>7, <1>8 DEF Under
<1>10. Frames' = (Frames \ {Top(t)}) \cup {g, h}
  BY <1>6, <1>7
<1> QED
  BY <1>5, <1>8, <1>9, <1>10

LEMMA ConnectsNew ==
    ASSUME ListenerInv, NEW t \in Threads, NEW e \in Slots, AtSlot(t, "processAccept", e),
           Then(t, <<Step("processConnect", slot[e]), With("registerAccept", None, e)>>),
           UNCHANGED <<phase, acceptEvents, slot, acceptOp, UserVars, SessionVars>>
    PROVE  ListenerInv'
<1>1. /\ Serving(ListenerCalls) /\ Listening /\ todo \in [Threads -> Seq(ListenerCalls)]
      /\ "processAccept" \in AcceptSteps /\ fresh \subseteq Sessions
  BY DEF ListenerInv, Serving, SessionState, SessionTypes, AcceptSteps
<1>2. /\ todo[t] # <<>> /\ Top(t) \in Frames /\ Top(t).at = "processAccept" /\ Top(t).session = None
      /\ For(e) = {Top(t)} /\ acceptOp[e] = "idle" /\ phase # "created" /\ e \in acceptEvents
  BY <1>1, SlotTop
<1>3. Slotted(e) /\ ListenerTyped /\ Waiting(e)
  BY <1>1, <1>2 DEF Listening, Waiting
<1>4. slot[e] \in Sessions
  BY <1>3 DEF Slotted, ListenerTyped
<1>5. PICK s \in Sessions : s = slot[e]
  BY <1>4
<1>6. New(s) /\ s \notin fresh /\ s # None
  BY <1>3, <1>5, ServiceAssumption DEF Slotted
<1>7. /\ Then(t, <<Step("processConnect", s), With("registerAccept", None, e)>>)
      /\ UNCHANGED <<known, unsent, SessionVars>> /\ UNCHANGED fresh /\ UNCHANGED slot
      /\ UNCHANGED <<known, SessionVars>> /\ UNCHANGED <<phase, acceptEvents, acceptOp>>
  BY <1>5 DEF UserVars
<1>8. /\ todo' \in [Threads -> Seq(ListenerCalls)]
      /\ \E g, h : /\ Frames' = (Frames \ {Top(t)}) \cup {g, h}
                   /\ g.at = "registerAccept" /\ g.session = None /\ g.arg = e
                   /\ h.at = "processConnect" /\ h.session = s /\ Under(g, h)
  <2>1. Then(t, <<Step("processConnect", s), With("registerAccept", None, e)>>)
    BY <1>7
  <2>2. todo \in [Threads -> Seq(ListenerCalls)] /\ todo[t] # <<>>
    BY <1>1, <1>2
  <2>3. todo' \in [Threads -> Seq(ListenerCalls)]
    BY <2>1, <2>2, ConnectFrames
  <2>4. \E g, h : /\ Frames' = (Frames \ {Top(t)}) \cup {g, h}
                  /\ g.at = "registerAccept" /\ g.session = None /\ g.arg = e
                  /\ h.at = "processConnect" /\ h.session = s /\ Under(g, h)
    BY <2>1, <2>2, ConnectFrames
  <2> QED
    BY <2>3, <2>4
<1>9. PICK g, h : /\ Frames' = (Frames \ {Top(t)}) \cup {g, h}
                  /\ g.at = "registerAccept" /\ g.session = None /\ g.arg = e
                  /\ h.at = "processConnect" /\ h.session = s /\ Under(g, h)
  BY <1>8
<1>10. Mine(s)' = {h} /\ \A r \in Sessions : r # s => Mine(r)' = Mine(r)
  BY <1>2, <1>6, <1>9, ServiceAssumption DEF Mine, On, New
<1>11. Serving(ListenerCalls)'
  <2>1. fresh' \subseteq Sessions
    BY <1>1, <1>7
  <2>2. \A f \in Frames : f.at \notin AcceptSteps => f \in Frames'
    BY <1>1, <1>2, <1>9
  <2>3. \A f \in Frames' : f \in Frames \/ f.at \in AcceptSteps \cup {"processConnect"}
    BY <1>9 DEF AcceptSteps
  <2>4. \A r \in Sessions :
           \/ Mine(r)' = Mine(r) /\ (r \in fresh' => r \in fresh \/ New(r))
           \/ /\ New(r) /\ r \notin fresh' /\ \A f \in Mine(r)' : f.at = "processConnect"
              /\ \A f, d \in Mine(r)' : f = d
    BY <1>6, <1>7, <1>9, <1>10
  <2> QED
    BY <1>1, <1>7, <1>8, <2>1, <2>2, <2>3, <2>4, AcceptServing
<1>12. For(e)' = {g}
  BY <1>2, <1>9 DEF For, Accepts, AcceptSteps
<1>13. ASSUME NEW x, x # e PROVE For(x)' = For(x)
  <2>1. Top(t) \notin For(x) /\ h.at \notin AcceptSteps
    BY <1>2, <1>9, <1>13 DEF For, AcceptSteps
  <2> QED
    BY <1>9, <1>13, <2>1 DEF For, Accepts
<1>14. ASSUME NEW r, New(r), slot[e] # r PROVE New(r)'
  <2>1. r \in Sessions /\ r \notin fresh' /\ Mine(r)' = Mine(r)
    BY <1>5, <1>7, <1>10, <1>14 DEF New
  <2> QED
    BY <1>7, <1>14, <2>1, NewStays
<1>15. Armed(e)'
  BY <1>2, <1>7, <1>9, <1>12 DEF Armed
<1>16. Slotted(e)'
  <2>1. Joining(s, e)'
    BY <1>9, <1>10, <1>12 DEF Joining
  <2>2. ~Waiting(e)'
    BY <1>2, <1>7, <1>9, <1>12 DEF Waiting
  <2>3. \A r \in Sessions : slot[e] = r => r = s
    BY <1>5
  <2> QED
    BY <1>3, <1>5, <1>6, <1>7, <2>1, <2>2, <2>3 DEF Slotted
<1>17. Listening'
  <2>1. ListenerTyped'
    BY <1>3, <1>7 DEF ListenerTyped
  <2>2. \A r \in Sessions : Mine(r) \subseteq Mine(r)'
    BY <1>6, <1>10 DEF New
  <2>3. /\ fresh' \subseteq fresh \cup {slot[e]} /\ slot'[e] \in {slot[e], None} \cup fresh
        /\ phase' # "created" /\ known' = known
    BY <1>2, <1>7
  <2>4. \A x \in Slots \ {e} : /\ For(x)' = For(x)
                               /\ slot'[x] = slot[x] /\ acceptOp'[x] = acceptOp[x]
                               /\ x \in acceptEvents' <=> x \in acceptEvents
    BY <1>7, <1>13
  <2> QED
    BY <1>1, <1>14, <1>15, <1>16, <2>1, <2>2, <2>3, <2>4, OneSlot
<1> QED
  BY <1>11, <1>17 DEF ListenerInv

LEMMA ProcessAcceptOK ==
    ASSUME ListenerInv, NEW t \in Threads, NEW e \in Slots, ProcessAccept(t, e)
    PROVE  ListenerInv'
<1>1. CASE Then(t, <<Step("processConnect", slot[e]), With("registerAccept", None, e)>>)
  BY <1>1, ConnectsNew DEF ProcessAccept
<1>2. CASE Then(t, <<With("registerAccept", None, e)>>)
  <2>1. /\ AtSlot(t, "processAccept", e)
        /\ UNCHANGED <<fresh, known, unsent, SessionVars>> /\ UNCHANGED <<phase, slot>>
        /\ UNCHANGED <<acceptEvents, acceptOp>>
    BY DEF ProcessAccept, UserVars
  <2>2. /\ todo \in [Threads -> Seq(ListenerCalls)] /\ Listening
        /\ "processAccept" \in AcceptSteps /\ "registerAccept" \in AcceptSteps
    BY DEF ListenerInv, Serving, SessionState, AcceptSteps
  <2>3. /\ todo[t] # <<>> /\ acceptOp[e] = "idle" /\ acceptOp \in [Slots -> {"idle", "pending", "ok"}]
        /\ e \in acceptEvents
    BY <2>1, <2>2, SlotTop DEF Listening, ListenerTyped
  <2>4. PICK n : SlotMoves(t, e, {n}) /\ n.at = "registerAccept"
    BY <1>2, <2>2, <2>3, SlotGoesOn
  <2> DEFINE N == {n}
  <2>5. SlotMoves(t, e, N) /\ acceptOp'[e] = "idle" /\ \E m : N = {m} /\ m.at = "registerAccept"
    BY <2>1, <2>3, <2>4
  <2> HIDE DEF N
  <2>6. /\ \A x \in Slots : x # e => acceptOp'[x] = acceptOp[x]
        /\ acceptOp' \in [Slots -> {"idle", "pending", "ok"}] /\ acceptEvents' = acceptEvents \cup {e}
    BY <2>1, <2>3
  <2> QED
    BY <2>1, <2>2, <2>5, <2>6, HandedOn
<1> QED
  BY <1>1, <1>2 DEF ProcessAccept
------------------------------------------------------------------------------
(* Start, and the steps without a frame of the listener *)

LEMMA StartFrames ==
    ASSUME todo \in [Threads -> Seq(ListenerCalls)], NEW t \in Threads, \A u \in Threads : todo[u] = <<>>,
           StartAccept(t)
    PROVE  /\ todo' \in [Threads -> Seq(ListenerCalls)] /\ Frames = {}
           /\ \A g \in Frames' : g.at = "newSlot" /\ g.session = None
           /\ \A g, h \in Frames' : g.arg = h.arg => g = h
<1>1. Frames = {}
  BY DEF Frames, FramesOf, FramesIn
<1>2. CASE UNCHANGED todo
  BY <1>1, <1>2 DEF Frames
<1>3. ASSUME NEW f \in [1 .. Cardinality(Slots) -> Slots], IsInjective(f),
             todo' = [todo EXCEPT ![t] = [i \in DOMAIN f |-> With("newSlot", None, f[i])]]
      PROVE  /\ todo' \in [Threads -> Seq(ListenerCalls)]
             /\ \A g \in Frames' : g.at = "newSlot" /\ g.session = None
             /\ \A g, h \in Frames' : g.arg = h.arg => g = h
  <2>1. PICK m : m = Cardinality(Slots)
    OBVIOUS
  <2>2. m \in Nat /\ f \in [1 .. m -> Slots]
    BY <2>1, SlotsAssumption, FS_CardinalityType
  <2>3. PICK q : q = [i \in 1 .. m |-> With("newSlot", None, f[i])]
    OBVIOUS
  <2>4. \A i \in 1 .. m : /\ q[i] \in ListenerCalls
                          /\ q[i].at = "newSlot" /\ q[i].session = None /\ q[i].arg = f[i]
    <3>1. \A i \in 1 .. m : f[i] \in Slots /\ q[i] = With("newSlot", None, f[i])
      BY <2>2, <2>3
    <3> QED
      BY <3>1, AcceptCall DEF AcceptSteps
  <2>5. q \in Seq(ListenerCalls) /\ Len(q) = m /\ q \o <<>> = q
    <3>1. q \in [1 .. m -> ListenerCalls]
      BY <2>3, <2>4
    <3> QED
      BY <2>2, <3>1
  <2>6. todo' = [todo EXCEPT ![t] = q \o @]
    <3>1. todo' = [todo EXCEPT ![t] = q]
      BY <1>3, <2>2, <2>3
    <3> QED
      BY <2>5, <3>1
  <2>7. todo' \in [Threads -> Seq(ListenerCalls)]
    BY <2>5, <2>6
  <2>8. Frames' = Pushed(t, Len(todo[t]), q)
    <3>1. FramesOf(todo') = Frames \cup Pushed(t, Len(todo[t]), q)
      BY <2>5, <2>6, CallFrames
    <3>2. Frames' = FramesOf(todo')
      BY DEF Frames
    <3> QED
      BY <1>1, <3>1, <3>2
  <2>9. \A g \in Frames' : \E j \in 1 .. m :
           g = Frame(t, Len(todo[t]) + m + 1 - j, q[j])
    BY <2>5, <2>8 DEF Pushed
  <2>10. ASSUME NEW g \in Frames'
         PROVE  \E j \in 1 .. m : /\ g = Frame(t, Len(todo[t]) + m + 1 - j, q[j])
                                  /\ g.at = "newSlot" /\ g.session = None /\ g.arg = f[j]
    <3>1. PICK j \in 1 .. m : g = Frame(t, Len(todo[t]) + m + 1 - j, q[j])
      BY <2>9
    <3>2. g.at = q[j].at /\ g.session = q[j].session /\ g.arg = q[j].arg
      BY <3>1, FrameFields
    <3> QED
      BY <2>4, <3>1, <3>2
  <2>11. ASSUME NEW g \in Frames', NEW h \in Frames', g.arg = h.arg PROVE g = h
    <3>1. PICK j \in 1 .. m : g = Frame(t, Len(todo[t]) + m + 1 - j, q[j]) /\ g.arg = f[j]
      BY <2>10
    <3>2. PICK k \in 1 .. m : h = Frame(t, Len(todo[t]) + m + 1 - k, q[k]) /\ h.arg = f[k]
      BY <2>10
    <3>3. j = k
      BY <1>3, <2>2, <2>11, <3>1, <3>2 DEF IsInjective
    <3> QED
      BY <3>1, <3>2, <3>3
  <2> QED
    BY <2>7, <2>10, <2>11
<1> QED
  BY <1>1, <1>2, <1>3 DEF StartAccept

LEMMA StartOK ==
    ASSUME ListenerInv, NEW t \in Threads, Start(t)
    PROVE  ListenerInv'
<1>1. /\ Serving(ListenerCalls) /\ Listening /\ todo \in [Threads -> Seq(ListenerCalls)]
      /\ fresh \subseteq Sessions
  BY DEF ListenerInv, Serving, SessionState, SessionTypes
<1>2. /\ phase = "created" /\ phase' = "started" /\ StartAccept(t)
      /\ UNCHANGED <<known, unsent, SessionVars>> /\ UNCHANGED fresh
      /\ UNCHANGED <<acceptEvents, slot, acceptOp>>
  BY DEF Start, UserVars
<1>3. acceptEvents = {} /\ \A u \in Threads : todo[u] = <<>>
  BY <1>1, <1>2 DEF Listening
<1>4. /\ todo' \in [Threads -> Seq(ListenerCalls)] /\ Frames = {}
      /\ \A g \in Frames' : g.at = "newSlot" /\ g.session = None
      /\ \A g, h \in Frames' : g.arg = h.arg => g = h
  BY <1>1, <1>2, <1>3, StartFrames
<1>5. \A r \in Sessions : Mine(r)' = Mine(r)
  BY <1>4, ServiceAssumption DEF Mine, On
<1>6. Serving(ListenerCalls)'
  <2>1. \A f \in Frames' : f \in Frames \/ f.at \in AcceptSteps \cup {"processConnect"}
    BY <1>4 DEF AcceptSteps
  <2>2. \A r \in Sessions : Mine(r)' = Mine(r) /\ (r \in fresh' => r \in fresh \/ New(r))
    BY <1>2, <1>5
  <2>3. fresh' \subseteq Sessions /\ \A f \in Frames : f.at \notin AcceptSteps => f \in Frames'
    BY <1>1, <1>2, <1>4
  <2> QED
    BY <1>1, <1>2, <1>4, <2>1, <2>2, <2>3, AcceptServing
<1>7. \A e : /\ \A g, h \in For(e)' : g = h
             /\ \A g \in For(e)' : g.at = "newSlot"
  BY <1>4 DEF For, Accepts
<1>8. ASSUME NEW e \in Slots PROVE Armed(e)' /\ Slotted(e)'
  <2>1. acceptOp[e] = "idle" /\ slot[e] = None
    BY <1>1, <1>3 DEF Listening, Armed
  <2>2. Armed(e)'
    BY <1>2, <1>3, <1>7, <2>1 DEF Armed
  <2>3. ~Waiting(e)'
    BY <1>2, <1>7, <2>1 DEF Waiting
  <2> QED
    BY <1>2, <2>1, <2>2, <2>3, ServiceAssumption DEF Slotted
<1>9. Listening'
  BY <1>1, <1>2, <1>8 DEF Listening, ListenerTyped
<1> QED
  BY <1>6, <1>9 DEF ListenerInv

LEMMA QuietFrames ==
    ASSUME UNCHANGED todo
    PROVE  Frames' = Frames /\ \A e : For(e)' = For(e) /\ Mine(e)' = Mine(e)
BY DEF Frames, For, Accepts, Mine, On

LEMMA QuietServing ==
    ASSUME Serving(ListenerCalls), UNCHANGED <<todo, UserVars, SessionVars>>
    PROVE  Serving(ListenerCalls)'
<1>1. UNCHANGED allVars
  BY DEF UserVars, SessionVars, allVars, vars, serviceVars, SendVars
<1> QED
  BY <1>1, ListenerCallsAre, StutterOK

LEMMA LaunchOK ==
    ASSUME ListenerInv, Launch
    PROVE  ListenerInv'
<1>1. /\ UNCHANGED <<todo, UserVars, SessionVars>> /\ UNCHANGED <<acceptEvents, slot, acceptOp>>
      /\ UNCHANGED <<todo, known, fresh>> /\ UNCHANGED <<known, SessionVars>> /\ phase' = "running"
  BY DEF Launch, UserVars
<1>2. Serving(ListenerCalls)' /\ Listening
  BY <1>1, QuietServing DEF ListenerInv
<1>3. \A e : For(e)' = For(e) /\ Mine(e)' = Mine(e)
  BY <1>1, QuietFrames
<1>4. ASSUME NEW s, New(s) PROVE New(s)'
  BY <1>1, <1>3, <1>4, NewStays DEF New
<1>5. \A s, e : Joining(s, e) => Joining(s, e)'
  BY <1>3 DEF Joining, Under
<1>6. ASSUME NEW e \in Slots PROVE Armed(e)' /\ Slotted(e)'
  <2>1. Armed(e)'
    BY <1>1, <1>2, <1>3 DEF Listening, Armed
  <2>2. Waiting(e)' <=> Waiting(e)
    BY <1>1, <1>3 DEF Waiting
  <2> QED
    BY <1>1, <1>2, <1>4, <1>5, <2>1, <2>2 DEF Listening, Slotted
<1>7. Listening'
  BY <1>1, <1>2, <1>6 DEF Listening, ListenerTyped
<1> QED
  BY <1>2, <1>7 DEF ListenerInv

LEMMA AcceptCompletesOK ==
    ASSUME ListenerInv, NEW e \in Slots, AcceptCompletes(e)
    PROVE  ListenerInv'
<1>1. /\ UNCHANGED <<todo, UserVars, SessionVars>> /\ UNCHANGED <<phase, acceptEvents, slot>>
      /\ UNCHANGED <<todo, known, fresh>> /\ UNCHANGED <<known, SessionVars>>
      /\ acceptOp[e] = "pending" /\ acceptOp' = [acceptOp EXCEPT ![e] = "ok"]
  BY DEF AcceptCompletes, UserVars
<1>2. Serving(ListenerCalls)' /\ Listening /\ ListenerTyped
  BY <1>1, QuietServing DEF ListenerInv, Listening
<1>3. \A x : For(x)' = For(x) /\ Mine(x)' = Mine(x)
  BY <1>1, QuietFrames
<1>4. ASSUME NEW s, New(s) PROVE New(s)'
  BY <1>1, <1>3, <1>4, NewStays DEF New
<1>5. /\ acceptOp'[e] = "ok" /\ \A x \in Slots : x # e => acceptOp'[x] = acceptOp[x]
      /\ ListenerTyped'
  BY <1>1, <1>2 DEF ListenerTyped
<1>6. Armed(e) /\ Slotted(e)
  BY <1>2 DEF Listening
<1>7. Armed(e)'
  BY <1>1, <1>3, <1>5, <1>6 DEF Armed
<1>8. Slotted(e)'
  <2>1. Waiting(e)
    BY <1>1 DEF Waiting
  <2> QED
    BY <1>1, <1>4, <1>6, <2>1 DEF Slotted
<1>9. phase' # "created"
  BY <1>1, <1>2, <1>6 DEF Listening, Armed
<1>10. Listening'
  <2>1. /\ \A s \in Sessions : Mine(s) \subseteq Mine(s)'
        /\ known' = known /\ fresh' \subseteq fresh \cup {slot[e]}
        /\ slot'[e] \in {slot[e], None} \cup fresh
    BY <1>1, <1>3
  <2>2. \A x \in Slots \ {e} : /\ For(x)' = For(x)
                               /\ slot'[x] = slot[x] /\ acceptOp'[x] = acceptOp[x]
                               /\ x \in acceptEvents' <=> x \in acceptEvents
    BY <1>1, <1>3, <1>5
  <2> QED
    BY <1>2, <1>4, <1>5, <1>7, <1>8, <1>9, <2>1, <2>2, OneSlot
<1> QED
  BY <1>2, <1>10 DEF ListenerInv

LEMMA DispatchAcceptOK ==
    ASSUME ListenerInv, NEW t \in Threads, NEW e \in Slots, DispatchAccept(t, e)
    PROVE  ListenerInv'
<1> DEFINE a == With("processAccept", None, e)
<1>1. /\ todo[t] = <<>> /\ phase = "running" /\ acceptOp[e] = "ok"
      /\ acceptOp' = [acceptOp EXCEPT ![e] = "idle"]
      /\ todo' = [todo EXCEPT ![t] = <<a>>]
      /\ UNCHANGED <<phase, acceptEvents, slot>> /\ UNCHANGED <<known, fresh>>
      /\ UNCHANGED <<known, unsent, SessionVars>> /\ UNCHANGED <<known, SessionVars>>
  BY DEF DispatchAccept, UserVars
<1>2. /\ Serving(ListenerCalls) /\ Listening /\ ListenerTyped /\ Armed(e) /\ Slotted(e)
      /\ todo \in [Threads -> Seq(ListenerCalls)] /\ fresh \subseteq Sessions
  BY DEF ListenerInv, Listening, Serving, SessionState, SessionTypes
<1>3. a \in ListenerCalls /\ a.at = "processAccept" /\ a.session = None /\ a.arg = e
  BY AcceptCall DEF AcceptSteps
<1> HIDE DEF a
<1>4. todo' \in [Threads -> Seq(ListenerCalls)]
  BY <1>1, <1>2, <1>3
<1>5. PICK n : /\ Frames' = Frames \cup {n}
               /\ n.at = "processAccept" /\ n.session = None /\ n.arg = e
  <2>1. <<a>> \o <<>> = <<a>>
    OBVIOUS
  <2>2. todo' = [todo EXCEPT ![t] = <<a>> \o @]
    BY <1>1, <2>1
  <2>3. Frames' = Frames \cup {Frame(t, Len(todo[t]) + 1, a)}
    BY <1>2, <2>2, PushedOne
  <2> QED
    BY <1>3, <2>3, FrameFields
<1>6. /\ For(e)' = For(e) \cup {n}
      /\ \A x : x # e => For(x)' = For(x)
      /\ \A r \in Sessions : Mine(r)' = Mine(r)
  BY <1>5, ServiceAssumption DEF For, Accepts, AcceptSteps, Mine, On
<1>7. Serving(ListenerCalls)'
  <2>1. \A f \in Frames' : f \in Frames \/ f.at \in AcceptSteps \cup {"processConnect"}
    BY <1>5 DEF AcceptSteps
  <2>2. \A r \in Sessions : Mine(r)' = Mine(r) /\ (r \in fresh' => r \in fresh \/ New(r))
    BY <1>1, <1>6
  <2>3. fresh' \subseteq Sessions /\ \A f \in Frames : f.at \notin AcceptSteps => f \in Frames'
    BY <1>1, <1>2, <1>5
  <2> QED
    BY <1>1, <1>2, <1>4, <2>1, <2>2, <2>3, AcceptServing
<1>8. For(e) = {} /\ For(e)' = {n} /\ e \in acceptEvents
  BY <1>1, <1>2, <1>6 DEF Armed
<1>9. /\ acceptOp'[e] = "idle" /\ \A x \in Slots : x # e => acceptOp'[x] = acceptOp[x]
      /\ ListenerTyped'
  BY <1>1, <1>2 DEF ListenerTyped
<1>10. Armed(e)'
  BY <1>1, <1>5, <1>8, <1>9 DEF Armed
<1>11. ASSUME NEW s, New(s) PROVE New(s)'
  <2>1. Mine(s)' = Mine(s) /\ s \notin fresh'
    BY <1>1, <1>6, <1>11 DEF New
  <2> QED
    BY <1>1, <1>11, <2>1, NewStays
<1>12. Slotted(e)'
  <2>1. Waiting(e)
    BY <1>1 DEF Waiting
  <2> QED
    BY <1>1, <1>2, <1>11, <2>1 DEF Slotted
<1>13. Listening'
  <2>1. /\ \A s \in Sessions : Mine(s) \subseteq Mine(s)'
        /\ known' = known /\ fresh' \subseteq fresh \cup {slot[e]}
        /\ slot'[e] \in {slot[e], None} \cup fresh /\ phase' # "created"
    BY <1>1, <1>6
  <2>2. \A x \in Slots \ {e} : /\ For(x)' = For(x)
                               /\ slot'[x] = slot[x] /\ acceptOp'[x] = acceptOp[x]
                               /\ x \in acceptEvents' <=> x \in acceptEvents
    BY <1>1, <1>6, <1>9
  <2> QED
    BY <1>2, <1>9, <1>10, <1>11, <1>12, <2>1, <2>2, OneSlot
<1> QED
  BY <1>7, <1>13 DEF ListenerInv
------------------------------------------------------------------------------
(* The steps together *)

LEMMA ThreadBusy ==
    ASSUME NEW t, ServiceThreadStep(t)
    PROVE  todo[t] # <<>>
BY DEF ServiceThreadStep, ServiceAdd, ServiceRelease, AddSession, ReleaseSession, EndBroadcast,
       ClearSessions, CallbackReturns, SessionStep, ProcessConnect, ProcessDisconnect, Disconnect,
       RegisterDisconnect, ProcessRecv, AfterRecv, RegisterRecv, WSARecv, UndoRecv, Send, Push,
       RegisterSend, Collect, WSASend, UndoSend, Unregister, ProcessSend, Resume, Unlock, At

(* The steps that are the service's. *)
LEMMA ServiceOK ==
    ASSUME ListenerInv, ServiceNext, Elsewhere, UNCHANGED listenerVars,
           phase = "created" => UNCHANGED todo
    PROVE  ListenerInv'
<1>1. Serving(ListenerCalls)'
  BY ListenerCallsAre, ServiceStepOK DEF ListenerInv
<1>2. Listening'
  BY ElsewhereKeeps DEF ListenerInv
<1> QED
  BY <1>1, <1>2 DEF ListenerInv

LEMMA ListenerThreadOK ==
    ASSUME ListenerInv, NEW t \in Threads, ListenerThreadStep(t)
    PROVE  ListenerInv'
<1>1. ASSUME NEW e \in Slots,
             \/ NewSlot(t, e) \/ RegisterAccept(t, e) \/ AcceptEx(t, e) \/ AcceptExRefused(t, e)
             \/ ProcessAccept(t, e)
      PROVE  ListenerInv'
  BY <1>1, NewSlotOK, RegisterAcceptOK, AcceptExOK, AcceptExRefusedOK, ProcessAcceptOK
<1>2. CASE ServiceThreadStep(t) /\ UNCHANGED listenerVars
  <2>1. ServiceNext
    BY <1>2 DEF ServiceNext
  <2>2. Elsewhere
    BY <1>2, ThreadElsewhere DEF ListenerInv
  <2>3. phase # "created"
    BY <1>2, ThreadBusy DEF ListenerInv, Listening
  <2> QED
    BY <1>2, <2>1, <2>2, <2>3, ServiceOK
<1> QED
  BY <1>1, <1>2 DEF ListenerThreadStep

LEMMA ListenerUserOK ==
    ASSUME ListenerInv, NEW t \in Threads, ListenerUser(t)
    PROVE  ListenerInv'
<1>1. phase = "running" /\ UNCHANGED listenerVars
  BY DEF ListenerUser
<1>2. CASE (\E b \in Buffers : Broadcast(t, b)) \/ CloseService(t)
  <2>1. ServiceNext
    BY <1>2 DEF ServiceNext, ServiceUser
  <2>2. Elsewhere
    BY <1>2, EachElsewhere DEF ListenerInv
  <2> QED
    BY <1>1, <2>1, <2>2, ServiceOK
<1>3. ASSUME NEW s \in Sessions, CallDisconnect(t, s) \/ \E b \in Buffers : CallSend(t, s, b),
             UNCHANGED serviceVars
      PROVE  ListenerInv'
  <2>1. ServiceNext
    <3>1. UserStep(t, s)
      BY <1>3 DEF UserStep
    <3> QED
      BY <1>3, <3>1 DEF ServiceNext, ServiceUser
  <2>2. Elsewhere
    BY <1>3, CallElsewhere DEF ListenerInv
  <2> QED
    BY <1>1, <2>1, <2>2, ServiceOK
<1> QED
  BY <1>2, <1>3 DEF ListenerUser

LEMMA CompletionsOK ==
    ASSUME ListenerInv, NEW s \in Sessions, NEW k \in Kinds,
           ListenerComplete(s, k) \/ \E t \in Threads : ListenerDispatch(t, s, k)
    PROVE  ListenerInv'
<1>1. CASE ListenerComplete(s, k)
  <2>1. ServiceNext /\ UNCHANGED todo /\ UNCHANGED listenerVars
    BY <1>1 DEF ListenerComplete, ServiceNext, ServiceComplete, Complete
  <2>2. Elsewhere
    BY <1>1, CompleteElsewhere DEF ListenerInv, ListenerComplete
  <2> QED
    BY <2>1, <2>2, ServiceOK
<1>2. ASSUME NEW t \in Threads, ListenerDispatch(t, s, k) PROVE ListenerInv'
  <2>1. ServiceNext /\ phase = "running" /\ UNCHANGED listenerVars
    BY <1>2 DEF ListenerDispatch, ServiceNext
  <2>2. Elsewhere
    BY <1>2, DispatchElsewhere DEF ListenerInv, ListenerDispatch
  <2> QED
    BY <2>1, <2>2, ServiceOK
<1> QED
  BY <1>1, <1>2

LEMMA ListenerStutterOK ==
    ASSUME ListenerInv, UNCHANGED listenerAllVars
    PROVE  ListenerInv'
<1>1. /\ UNCHANGED <<todo, UserVars, SessionVars>> /\ UNCHANGED listenerVars
      /\ UNCHANGED <<connected, registered, sendQueue, known, fresh>> /\ UNCHANGED op
  BY DEF listenerAllVars, vars, UserVars, SessionVars, SendVars, serviceVars
<1>2. Serving(ListenerCalls)'
  BY <1>1, QuietServing DEF ListenerInv
<1>3. Elsewhere
  <2>1. Frames' = Frames
    BY <1>1, QuietFrames
  <2> QED
    BY <1>1, <2>1, FramesElsewhere
<1>4. Listening'
  BY <1>1, <1>3, ElsewhereKeeps DEF ListenerInv
<1> QED
  BY <1>2, <1>4 DEF ListenerInv

LEMMA ListenerInitOK == ListenerInit => ListenerInv
<1> SUFFICES ASSUME ListenerInit PROVE ListenerInv
  OBVIOUS
<1>1. ServiceInit /\ Init
  BY DEF ListenerInit, ServiceInit
<1>2. todo = [t \in Threads |-> <<>>]
  BY <1>1 DEF Init
<1>3. Serving(ListenerCalls)
  <2>1. Serving(ServiceCalls)
    BY <1>1, ServiceInitOK DEF ServiceInv
  <2>2. todo \in [Threads -> Seq(ListenerCalls)]
    BY <1>2
  <2> QED
    BY <2>1, <2>2 DEF Serving, SessionState
<1>4. Frames = {}
  BY <1>2, NoFrames
<1>5. /\ phase = "created" /\ acceptEvents = {}
      /\ \A e \in Slots : slot[e] = None /\ acceptOp[e] = "idle" /\ For(e) = {}
      /\ ListenerTyped
  BY <1>4 DEF ListenerInit, For, Accepts, ListenerTyped
<1>6. \A e \in Slots : Armed(e) /\ Slotted(e)
  BY <1>5, ServiceAssumption DEF Armed, Slotted, Waiting
<1> QED
  BY <1>2, <1>3, <1>5, <1>6 DEF ListenerInv, Listening

LEMMA ListenerInvHolds == ListenerSpec => []ListenerInv
<1>1. ListenerInit => ListenerInv
  BY ListenerInitOK
<1>2. ListenerInv /\ [ListenerNext]_listenerAllVars => ListenerInv'
  <2> SUFFICES ASSUME ListenerInv, [ListenerNext]_listenerAllVars PROVE ListenerInv'
    OBVIOUS
  <2>1. CASE \E t \in Threads : Start(t) \/ ListenerThreadStep(t) \/ ListenerUser(t)
    BY <2>1, StartOK, ListenerThreadOK, ListenerUserOK
  <2>2. CASE Launch
    BY <2>2, LaunchOK
  <2>3. CASE \/ \E t \in Threads, e \in Slots : DispatchAccept(t, e)
             \/ \E e \in Slots : AcceptCompletes(e)
    BY <2>3, DispatchAcceptOK, AcceptCompletesOK
  <2>4. CASE \/ \E t \in Threads, s \in Sessions, k \in Kinds : ListenerDispatch(t, s, k)
             \/ \E s \in Sessions, k \in Kinds : ListenerComplete(s, k)
    BY <2>4, CompletionsOK
  <2>5. CASE UNCHANGED listenerAllVars
    BY <2>5, ListenerStutterOK
  <2> QED
    BY <2>1, <2>2, <2>3, <2>4, <2>5 DEF ListenerNext
<1> QED
  BY <1>1, <1>2, PTL DEF ListenerSpec
------------------------------------------------------------------------------
(* The properties of the runs *)

(* The steps for a slot, as SlotsStayArmed counts them. *)
LEMMA SlotStepsAre ==
    ASSUME todo \in [Threads -> Seq(ListenerCalls)], NEW e \in Slots, \A f, g \in For(e) : f = g
    PROVE  /\ For(e) = {} => Cardinality(SlotSteps(e)) = 0
           /\ For(e) # {} => Cardinality(SlotSteps(e)) = 1
<1>1. ASSUME NEW t \in Threads, NEW i \in DOMAIN todo[t], todo[t][i].arg = e
      PROVE  Frame(t, Len(todo[t]) + 1 - i, todo[t][i]) \in For(e)
  <2> DEFINE f == Frame(t, Len(todo[t]) + 1 - i, todo[t][i])
  <2>1. DOMAIN todo[t] = 1 .. Len(todo[t])
    OBVIOUS
  <2>2. f \in Frames
    BY <2>1 DEF Frames, FramesOf, FramesIn
  <2>3. f.arg = e
    BY <1>1, FrameFields
  <2> HIDE DEF f
  <2>4. f.at \in AcceptSteps
    BY <2>2, <2>3, FrameCall
  <2> QED
    BY <2>2, <2>3, <2>4 DEF For, Accepts, f
<1>2. ASSUME NEW t \in Threads, NEW i \in DOMAIN todo[t], todo[t][i].arg = e,
             NEW u \in Threads, NEW j \in DOMAIN todo[u], todo[u][j].arg = e
      PROVE  t = u /\ i = j
  <2>1. Frame(t, Len(todo[t]) + 1 - i, todo[t][i]) = Frame(u, Len(todo[u]) + 1 - j, todo[u][j])
    BY <1>1, <1>2
  <2>2. t = u /\ Len(todo[t]) + 1 - i = Len(todo[u]) + 1 - j
    BY <2>1 DEF Frame
  <2>3. Len(todo[t]) \in Int /\ i \in Int /\ j \in Int
    OBVIOUS
  <2> QED
    BY <2>2, <2>3
<1>3. \A p, q \in SlotSteps(e) : p = q
  BY <1>2 DEF SlotSteps
<1>4. SlotSteps(e) # {} => For(e) # {}
  BY <1>1 DEF SlotSteps
<1>5. ASSUME NEW f \in For(e) PROVE SlotSteps(e) # {}
  <2>1. f \in Frames /\ f.arg = e
    BY DEF For, Accepts
  <2>2. PICK t \in Threads : f \in FramesIn(t, todo[t])
    BY <2>1 DEF Frames, FramesOf
  <2>3. PICK i \in 1 .. Len(todo[t]) : f = Frame(t, Len(todo[t]) + 1 - i, todo[t][i])
    BY <2>2 DEF FramesIn
  <2>4. i \in DOMAIN todo[t] /\ todo[t][i].arg = e
    BY <2>1, <2>3, FrameFields
  <2>5. <<t, i>> \in {<<t, x>> : x \in {j \in DOMAIN todo[t] : todo[t][j].arg = e}}
    BY <2>4
  <2>6. <<t, i>> \in SlotSteps(e)
    BY <2>5 DEF SlotSteps
  <2> QED
    BY <2>6
<1>6. CASE SlotSteps(e) = {}
  BY <1>5, <1>6, FS_EmptySet
<1>7. CASE SlotSteps(e) # {}
  <2>1. PICK p : SlotSteps(e) = {p}
    BY <1>3, <1>7
  <2>2. Cardinality(SlotSteps(e)) = 1
    BY <2>1, FS_Singleton
  <2> QED
    BY <1>4, <1>7, <2>2
<1> QED
  BY <1>6, <1>7

(* However AcceptEx fails and clients come and go while the listener accepts,
   no slot is lost, none is armed twice, and none waits with a session that
   another slot, the service or a worker has. *)
THEOREM SlotsArmed == ListenerSpec => []SlotsStayArmed
<1>1. ListenerInv => SlotsStayArmed
  <2> SUFFICES ASSUME ListenerInv, NEW e \in acceptEvents
               PROVE  /\ Cardinality(SlotSteps(e)) + (IF acceptOp[e] # "idle" THEN 1 ELSE 0) = 1
                      /\ acceptOp[e] # "idle" =>
                            /\ slot[e] \notin known \cup connected \cup fresh
                            /\ \A f \in acceptEvents \ {e} : slot[f] # slot[e]
    BY DEF SlotsStayArmed
  <2>1. /\ todo \in [Threads -> Seq(ListenerCalls)] /\ ListenerTyped
        /\ e \in Slots /\ acceptEvents \subseteq Slots
    BY DEF ListenerInv, Listening, ListenerTyped, Serving, SessionState
  <2>2. Armed(e) /\ Slotted(e)
    BY <2>1 DEF ListenerInv, Listening
  <2>3. Cardinality(SlotSteps(e)) + (IF acceptOp[e] # "idle" THEN 1 ELSE 0) = 1
    BY <2>1, <2>2, SlotStepsAre DEF Armed
  <2>4. ASSUME acceptOp[e] # "idle"
        PROVE  /\ slot[e] \notin known \cup connected \cup fresh
               /\ \A f \in acceptEvents \ {e} : slot[f] # slot[e]
    <3>1. slot[e] # None
      BY <2>2, <2>4 DEF Slotted, Waiting
    <3>2. PICK s \in Sessions : s = slot[e]
      BY <2>1, <3>1 DEF ListenerTyped
    <3>3. New(s) /\ \A f \in Slots : slot[f] = s => f = e
      BY <2>2, <2>4, <3>2 DEF Slotted, Waiting
    <3> QED
      BY <2>1, <3>2, <3>3 DEF New
  <2> QED
    BY <2>3, <2>4
<1> QED
  BY <1>1, ListenerInvHolds, PTL

(* What is proved of a service whose sessions connect by themselves holds for
   the sessions that the listener makes and accepts, too: the count, the one
   release, the set that broadcasts and closes traverse and their order. *)
THEOREM ServiceBehindListener ==
    ListenerSpec => [](CountDrift /\ ReleasedOnce /\ ConnectedInService /\ BroadcastsInOneOrder)
<1>1. ListenerInv => CountDrift /\ ReleasedOnce /\ ConnectedInService /\ BroadcastsInOneOrder
  BY ServiceFacts DEF ListenerInv
<1> QED
  BY <1>1, ListenerInvHolds, PTL

(* And so does what is proved of a session by itself. *)
THEOREM SessionsBehindListener ==
    ListenerSpec =>
        [](EventsNotShared /\ KeptWhileInUse /\ SendsInOrder /\ NothingStranded /\ StaysArmed)
<1>1. ListenerInv =>
         EventsNotShared /\ KeptWhileInUse /\ SendsInOrder /\ NothingStranded /\ StaysArmed
  BY ServiceFacts DEF ListenerInv
<1> QED
  BY <1>1, ListenerInvHolds, PTL
==============================================================================
