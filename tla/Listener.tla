------------------------------ MODULE Listener ------------------------------
(***************************************************************************)
(* The listener of a server (Listener.cpp), in front of the Service that   *)
(* its sessions join.  Each of its slots is an AcceptEvent that is used    *)
(* again and again: a session is created, AcceptEx waits for a client, the *)
(* worker that dequeues the completion runs the session's ProcessConnect,  *)
(* and only then, in the same call, arms the slot with the next session.   *)
(*                                                                         *)
(* A session that is created and never connects is destroyed when its slot *)
(* gets the next one, which may then go by its name; `fresh' are the names *)
(* of no session.                                                          *)
(***************************************************************************)
EXTENDS Service

CONSTANT Slots   (* the accept events of StartAccept, _maxSessionCount many *)

ASSUME SlotsAssumption ==
    IsFiniteSet(Slots) /\ None \notin Slots /\ Slots \cap (Buffers \cup {"ok", "zero"}) = {}

VARIABLES
    phase,         (* main's: before Start, in Start, with workers launched *)
    acceptEvents,  (* _acceptEvents                                         *)
    slot,          (* slot[e]: AcceptEvent::session                         *)
    acceptOp       (* acceptOp[e]: the AcceptEx that uses the event         *)

listenerVars == <<phase, acceptEvents, slot, acceptOp>>

ListenerInit ==
    /\ ServiceInit
    /\ phase = "created" /\ acceptEvents = {}
    /\ slot = [e \in Slots |-> None]
    /\ acceptOp = [e \in Slots |-> "idle"]

AtSlot(t, at, e) == At(t, None, at) /\ Arg(t) = e
SessionVars == <<connected, owner, op, refused, SendVars, serviceVars>>
------------------------------------------------------------------------------
(* StartAccept sets up the listening socket and makes the slots, or returns
   false without any. *)
StartAccept(t) ==
    \/ \E f \in [1 .. Cardinality(Slots) -> Slots] :
          /\ IsInjective(f)
          /\ todo' = [todo EXCEPT ![t] = [i \in DOMAIN f |-> With("newSlot", None, f[i])]]
    \/ UNCHANGED todo

(* ServerService::Start in main, which ignores the result. *)
Start(t) ==
    /\ phase = "created" /\ phase' = "started"
    /\ StartAccept(t)
    /\ UNCHANGED <<acceptEvents, slot, acceptOp, UserVars, SessionVars>>

(* Launch of the worker threads. *)
Launch ==
    /\ phase = "started" /\ \A t \in Threads : todo[t] = <<>>
    /\ phase' = "running"
    /\ UNCHANGED <<todo, acceptEvents, slot, acceptOp, UserVars, SessionVars>>

(* A turn of StartAccept's loop. *)
NewSlot(t, e) ==
    /\ AtSlot(t, "newSlot", e)
    /\ acceptEvents' = acceptEvents \cup {e}
    /\ Then(t, <<With("registerAccept", None, e)>>)
    /\ UNCHANGED <<phase, slot, acceptOp, UserVars, SessionVars>>

(* CreateSession makes s, as the slot lets go of its last session, which
   nobody else keeps unless it has connected. *)
CreateSession(e, s) ==
    LET free == fresh \cup ({slot[e]} \ (known \cup {None})) IN
    s \in free /\ fresh' = free \ {s}

(* Mistake: the session of the last accept is used again. *)
RegisterAcceptAgain(t, e) ==
    /\ AtSlot(t, "registerAccept", e)
    /\ \E s \in Sessions :
          /\ IF slot[e] = None THEN CreateSession(e, s) ELSE s = slot[e] /\ UNCHANGED fresh
          /\ slot' = [slot EXCEPT ![e] = s]
    /\ Then(t, <<With("acceptEx", None, e)>>)
    /\ UNCHANGED <<phase, acceptEvents, acceptOp, known, unsent, SessionVars>>

(* RegisterAccept as far as AcceptEx. *)
RegisterAccept(t, e) ==
    /\ AtSlot(t, "registerAccept", e)
    /\ \E s \in Sessions : CreateSession(e, s) /\ slot' = [slot EXCEPT ![e] = s]
    /\ Then(t, <<With("acceptEx", None, e)>>)
    /\ UNCHANGED <<phase, acceptEvents, acceptOp, known, unsent, SessionVars>>

AcceptEx(t, e) ==
    /\ AtSlot(t, "acceptEx", e)
    /\ acceptOp' = [acceptOp EXCEPT ![e] = "pending"]
    /\ Return(t)
    /\ UNCHANGED <<phase, acceptEvents, slot, UserVars, SessionVars>>

(* AcceptEx is refused, and RegisterAccept calls itself. *)
AcceptExRefused(t, e) ==
    /\ "abort" \in Events
    /\ AtSlot(t, "acceptEx", e)
    /\ Then(t, <<With("registerAccept", None, e)>>)
    /\ UNCHANGED <<phase, acceptEvents, slot, acceptOp, UserVars, SessionVars>>

(* A client has come, while there is a session for the next one. *)
AcceptCompletes(e) ==
    /\ acceptOp[e] = "pending" /\ acceptOp' = [acceptOp EXCEPT ![e] = "ok"]
    /\ Cardinality(fresh) > Cardinality({f \in acceptEvents : acceptOp[f] # "pending"})
    /\ UNCHANGED <<todo, phase, acceptEvents, slot, UserVars, SessionVars>>

DispatchAccept(t, e) ==
    /\ phase = "running" /\ todo[t] = <<>>
    /\ acceptOp[e] = "ok" /\ acceptOp' = [acceptOp EXCEPT ![e] = "idle"]
    /\ todo' = [todo EXCEPT ![t] = <<With("processAccept", None, e)>>]
    /\ UNCHANGED <<phase, acceptEvents, slot, UserVars, SessionVars>>

(* Mistake: an accept that came to nothing leaves the slot as it is. *)
ProcessAcceptOnce(t, e) ==
    /\ AtSlot(t, "processAccept", e)
    /\ \/ Then(t, <<Step("processConnect", slot[e]), With("registerAccept", None, e)>>)
       \/ "abort" \in Events /\ Return(t)
    /\ UNCHANGED <<phase, acceptEvents, slot, acceptOp, UserVars, SessionVars>>

(* The session joins the service, unless its client has gone already. *)
ProcessAccept(t, e) ==
    /\ AtSlot(t, "processAccept", e)
    /\ \/ Then(t, <<Step("processConnect", slot[e]), With("registerAccept", None, e)>>)
       \/ "abort" \in Events /\ Then(t, <<With("registerAccept", None, e)>>)
    /\ UNCHANGED <<phase, acceptEvents, slot, acceptOp, UserVars, SessionVars>>
------------------------------------------------------------------------------
ListenerThreadStep(t) ==
    \/ \E e \in Slots :
          \/ NewSlot(t, e) \/ RegisterAccept(t, e) \/ AcceptEx(t, e) \/ AcceptExRefused(t, e)
          \/ ProcessAccept(t, e)
    \/ ServiceThreadStep(t) /\ UNCHANGED listenerVars

ListenerDispatch(t, s, k) ==
    phase = "running" /\ ServiceDispatch(t, s, k) /\ UNCHANGED listenerVars

ListenerComplete(s, k) == ServiceComplete(s, k) /\ UNCHANGED listenerVars

(* User code of a server does not connect. *)
ListenerUser(t) ==
    /\ phase = "running"
    /\ \/ \E b \in Buffers : Broadcast(t, b)
       \/ CloseService(t)
       \/ /\ \E s \in Sessions : CallDisconnect(t, s) \/ \E b \in Buffers : CallSend(t, s, b)
          /\ UNCHANGED serviceVars
    /\ UNCHANGED listenerVars

ListenerNext ==
    \/ \E t \in Threads : Start(t) \/ ListenerThreadStep(t) \/ ListenerUser(t)
    \/ Launch
    \/ \E t \in Threads, e \in Slots : DispatchAccept(t, e)
    \/ \E e \in Slots : AcceptCompletes(e)
    \/ \E t \in Threads, s \in Sessions, k \in Kinds : ListenerDispatch(t, s, k)
    \/ \E s \in Sessions, k \in Kinds : ListenerComplete(s, k)

listenerAllVars == <<vars, serviceVars, listenerVars>>

ListenerSpec == ListenerInit /\ [][ListenerNext]_listenerAllVars

(* As for Service; AcceptEx is not refused for ever, and some worker dequeues
   the completions. *)
ListenerFairness ==
    /\ WF_listenerAllVars(Launch)
    /\ \A t \in Threads : SF_listenerAllVars(ListenerThreadStep(t))
    /\ \A e \in Slots :
          /\ SF_listenerAllVars(\E t \in Threads : AcceptEx(t, e))
          /\ SF_listenerAllVars(\E t \in Threads : DispatchAccept(t, e))

FairListenerSpec == ListenerSpec /\ ListenerFairness
------------------------------------------------------------------------------
SlotSteps(e) ==
    UNION {{<<t, i>> : i \in {j \in DOMAIN todo[t] : todo[t][j].arg = e}} : t \in Threads}

(* An accept event has one user at all times: an AcceptEx, or one thread that
   will arm it; and an AcceptEx waits with a session that nobody else has. *)
SlotsStayArmed ==
    \A e \in acceptEvents :
        /\ Cardinality(SlotSteps(e)) + (IF acceptOp[e] # "idle" THEN 1 ELSE 0) = 1
        /\ acceptOp[e] # "idle" =>
              /\ slot[e] \notin known \cup connected \cup fresh
              /\ \A f \in acceptEvents \ {e} : slot[f] # slot[e]

(* A client that has come is served and its slot armed again: neither clients
   that go at once nor a Broadcast or a CloseService of another thread, which
   holds the service's lock and may wait for a session's, keep it out. *)
AcceptsGoOn == \A e \in Slots : acceptOp[e] = "ok" ~> acceptOp[e] = "pending"
==============================================================================
