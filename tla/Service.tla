------------------------------ MODULE Service ------------------------------
(***************************************************************************)
(* A Service (Service.cpp) and its sessions.  The service keeps the set of *)
(* sessions under its lock; Broadcast and CloseService hold that lock      *)
(* while they call Send or Disconnect on every session of the set, so the  *)
(* session's lock is taken inside the service's.  The steps of the         *)
(* sessions are those of Session; here AddSession and ReleaseSession get   *)
(* their effect on the service.                                            *)
(***************************************************************************)
EXTENDS Session, Functions

CONSTANT MaxCloses   (* bound: how often CloseService is called *)

ASSUME ServiceAssumption == IsFiniteSet(Sessions) /\ None \notin Sessions \cup Threads

VARIABLES
    sessions,      (* _sessions                                            *)
    sessionCount,  (* _sessionCount                                        *)
    serviceLock,   (* the thread inside Broadcast or CloseService          *)
    released,      (* history, the sessions ReleaseSession was called for  *)
    swept,         (* history, the sessions CloseService took off the set, *)
                   (* without those released before its last call          *)
    closes         (* the calls of CloseService so far                     *)

serviceVars == <<sessions, sessionCount, serviceLock, released, swept, closes>>

ServiceInit ==
    /\ Init
    /\ sessions = {} /\ sessionCount = 0 /\ serviceLock = None
    /\ released = {} /\ swept = {} /\ closes = 0

------------------------------------------------------------------------------
(* Mistake: AddSession does without the lock. *)
ServiceAddUnlocked(t, s) ==
    /\ AddSession(t, s)
    /\ sessionCount' = sessionCount + 1
    /\ sessions' = sessions \cup {s}
    /\ UNCHANGED <<serviceLock, released, swept, closes>>

ServiceAdd(t, s) ==
    /\ AddSession(t, s) /\ serviceLock = None
    /\ sessionCount' = sessionCount + 1
    /\ sessions' = sessions \cup {s}
    /\ UNCHANGED <<serviceLock, released, swept, closes>>

(* Mistake: the count is left as it is. *)
ServiceReleaseUncounted(t, s) ==
    /\ ReleaseSession(t, s) /\ serviceLock = None
    /\ sessions' = sessions \ {s}
    /\ released' = released \cup {s}
    /\ UNCHANGED <<sessionCount, serviceLock, swept, closes>>

ServiceRelease(t, s) ==
    /\ ReleaseSession(t, s) /\ serviceLock = None
    /\ sessions' = sessions \ {s}
    /\ sessionCount' = sessionCount - 1
    /\ released' = released \cup {s}
    /\ UNCHANGED <<serviceLock, swept, closes>>

(* The set is traversed in the order of the sessions' addresses. *)
Traversals == {f \in [1 .. Cardinality(sessions) -> sessions] : IsInjective(f)}

(* Take the service's lock and make the call calls[s] to every session s. *)
ForEach(t, calls, last) ==
    /\ serviceLock = None /\ serviceLock' = t
    /\ \E f \in Traversals :
          Call(t, [i \in DOMAIN f |-> calls[f[i]]] \o <<Step(last, None)>>)
    /\ UNCHANGED <<sessions, sessionCount, released, swept>>

(* Mistake: Broadcast does without the lock. *)
BroadcastUnlocked(t, b) ==
    /\ b \in unsent /\ unsent' = unsent \ {b}
    /\ \E f \in Traversals : Call(t, [i \in DOMAIN f |-> With("send", f[i], b)])
    /\ UNCHANGED <<serviceLock, sessions, sessionCount, released, swept>>
    /\ UNCHANGED <<connected, owner, op, fresh, known, refused, closes, SendVars>>

Broadcast(t, b) ==
    /\ b \in unsent /\ unsent' = unsent \ {b}
    /\ ForEach(t, [s \in Sessions |-> With("send", s, b)], "endBroadcast")
    /\ UNCHANGED <<connected, owner, op, fresh, known, refused, closes, SendVars>>

EndBroadcast(t) ==
    /\ At(t, None, "endBroadcast")
    /\ Return(t)
    /\ serviceLock' = None
    /\ UNCHANGED <<connected, owner, op, refused, SendVars, UserVars>>
    /\ UNCHANGED <<sessions, sessionCount, released, swept, closes>>

CloseService(t) ==
    /\ closes < MaxCloses /\ closes' = closes + 1
    /\ ForEach(t, [s \in Sessions |-> Step("disconnect", s)], "clearSessions")
    /\ UNCHANGED <<connected, owner, op, refused, SendVars, UserVars>>

(* The end of CloseService: the set and the count are cleared. *)
ClearSessions(t) ==
    /\ At(t, None, "clearSessions")
    /\ Return(t)
    /\ swept' = (swept \ released) \cup sessions
    /\ sessions' = {} /\ sessionCount' = 0
    /\ serviceLock' = None
    /\ UNCHANGED <<connected, owner, op, refused, SendVars, UserVars>>
    /\ UNCHANGED <<released, closes>>

------------------------------------------------------------------------------
ServiceThreadStep(t) ==
    \/ \E s \in Sessions : ServiceAdd(t, s) \/ ServiceRelease(t, s)
    \/ EndBroadcast(t) \/ ClearSessions(t)
    \/ /\ CallbackReturns(t) \/ \E s \in Sessions : SessionStep(t, s)
       /\ UNCHANGED serviceVars

ServiceDispatch(t, s, k) == Dispatch(t, s, k) /\ UNCHANGED serviceVars

ServiceComplete(s, k) == Complete(s, k) /\ UNCHANGED serviceVars

ServiceUser(t) ==
    \/ \E b \in Buffers : Broadcast(t, b)
    \/ CloseService(t)
    \/ (\E s \in Sessions : UserStep(t, s)) /\ UNCHANGED serviceVars

ServiceNext ==
    \/ \E t \in Threads : ServiceThreadStep(t) \/ ServiceUser(t)
    \/ \E t \in Threads, s \in Sessions, k \in Kinds : ServiceDispatch(t, s, k)
    \/ \E s \in Sessions, k \in Kinds : ServiceComplete(s, k)

allVars == <<vars, serviceVars>>

ServiceSpec == ServiceInit /\ [][ServiceNext]_allVars

(* Threads are scheduled and callbacks return, and a lock that is given back
   again and again is obtained; Windows completes what it accepted, a receive
   at the latest when the session is disconnected; and some worker dequeues
   each completion. *)
ServiceFairness ==
    /\ \A t \in Threads : SF_allVars(ServiceThreadStep(t))
    /\ \A s \in Sessions : \A k \in Kinds :
          /\ WF_allVars((k = "recv" => s \notin connected) /\ ServiceComplete(s, k))
          /\ SF_allVars(\E t \in Threads : ServiceDispatch(t, s, k))

FairServiceSpec == ServiceSpec /\ ServiceFairness
------------------------------------------------------------------------------
(* Every variable has the type its declaration gives it; a broadcast may call
   every session, and each of those calls nests as any other does. *)
ServiceTypeOK ==
    /\ SessionTypes
    /\ \A t \in Threads : Len(todo[t]) <= MaxCalls + Cardinality(Sessions) + 1
    /\ sessions \subseteq Sessions /\ sessionCount \in Int
    /\ serviceLock \in Threads \cup {None}
    /\ released \subseteq Sessions /\ swept \subseteq Sessions

(* The count is the size of the set, less the sessions that CloseService took
   off the set and that were released afterwards all the same: after a
   CloseService the count drifts below 0 as their disconnects complete, and
   the next CloseService sets it right. *)
CountDrift == sessionCount = Cardinality(sessions) - Cardinality(swept \cap released)

(* A session is released after it was added, and only once. *)
ReleasedOnce ==
    \A s \in Sessions : Doing(s, UsesEvent["disconnect"]) # {} \/ op[s]["disconnect"] # "idle"
                            => s \in known \ released

(* A connected session is in the set, where Broadcast and CloseService find
   it, as soon as it is added: a close does not forget one that connects
   meanwhile. *)
ConnectedInService ==
    \A s \in connected : s \in sessions \/ Doing(s, {"addSession"}) # {}

Before(s, b, c) == \E i, j \in 1 .. Len(accepted[s]) :
                      i < j /\ accepted[s][i] = b /\ accepted[s][j] = c

(* Two broadcasts, also of two threads, reach all sessions in one order. *)
BroadcastsInOneOrder ==
    \A s, r \in Sessions : \A b, c \in Buffers : Before(s, b, c) => ~Before(r, c, b)

(* A session that is disconnected leaves the service, unless DisconnectEx was
   refused: then it stays in the set for ever. *)
DisconnectedLeaves ==
    \A s \in Sessions :
        s \in known \ connected ~> s \notin sessions \/ <<s, "disconnect">> \in refused
==============================================================================
