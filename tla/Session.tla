------------------------------- MODULE Session -------------------------------
(***************************************************************************)
(* Sessions and their overlapped I/O (Session.cpp), driven by the          *)
(* completions that worker threads dequeue (IocpCore::Dispatch).           *)
(*                                                                         *)
(* A session owns one event per kind of operation and uses it again for    *)
(* the next one, so two operations of a kind must never overlap: the       *)
(* send side guards that with _sendRegistered, the receive side by issuing *)
(* a WSARecv only from the handler of the last one.  An event keeps its    *)
(* session alive while the operation runs (IocpEvent::owner).              *)
(*                                                                         *)
(* todo[t] is the call stack of thread t as the steps it has yet to take,  *)
(* innermost call first; a step may push the steps of the function it      *)
(* calls.  User code runs in the callbacks and in a thread that is not     *)
(* dispatching, and may call Send and Disconnect there.  What the received *)
(* bytes are is left to RecvBuffer.                                        *)
(***************************************************************************)
EXTENDS Integers, Sequences, FiniteSets

CONSTANTS Threads,   (* the threads that dispatch and run jobs           *)
          Sessions,  (* the sessions                                     *)
          Buffers,   (* the SendBuffers; each is sent by one call        *)
          Events,    (* bound: what happens to the sessions of a run     *)
          None       (* nobody, nothing                                  *)

(* The peer sends data, and the receive buffer overflows or OnRecv returns a
   length out of bounds; Windows reports 0 bytes; it refuses an operation
   because the connection was reset or aborted, or for another reason; a
   connection is aborted while it is accepted; user code sends or disconnects. *)
ASSUME EventsAssumption ==
    Events \subseteq {"data", "overflow", "zero", "reset", "refused", "abort", "send",
                      "disconnect"}

VARIABLES
    connected,    (* the sessions whose _connected is true                  *)
    registered,   (* the sessions whose _sendRegistered is true             *)
    sendQueue,    (* sendQueue[s]: _sendQueue                               *)
    sendBuffers,  (* sendBuffers[s]: _sendEvent.sendBuffers                 *)
    lock,         (* lock[s]: the thread inside ProcessSend's WRITE_LOCK    *)
    owner,        (* owner[s]: the kinds of event whose owner is s          *)
    op,           (* op[s][k]: the operation that uses the event of kind k  *)
    todo,         (* todo[t]: the steps of t's calls                        *)
    fresh,        (* the sessions not connected yet                         *)
    known,        (* the sessions user code can reach                       *)
    unsent,       (* the buffers not yet sent                               *)
    accepted,     (* accepted[s]: history, the buffers Send has queued      *)
    handed,       (* handed[s]: history, the buffers given to WSASend       *)
    refused       (* history, operations refused without a disconnect       *)

vars == <<connected, registered, sendQueue, sendBuffers, lock, owner, op, todo,
          fresh, known, unsent, accepted, handed, refused>>

Kinds == {"connect", "disconnect", "recv", "send"}

Init ==
    /\ connected = {} /\ registered = {} /\ known = {} /\ refused = {}
    /\ sendQueue = [s \in Sessions |-> <<>>]
    /\ sendBuffers = [s \in Sessions |-> <<>>]
    /\ lock = [s \in Sessions |-> None]
    /\ owner = [s \in Sessions |-> {}]
    /\ op = [s \in Sessions |-> [k \in Kinds |-> "idle"]]
    /\ todo = [t \in Threads |-> <<>>]
    /\ fresh = Sessions
    /\ unsent = Buffers
    /\ accepted = [s \in Sessions |-> <<>>]
    /\ handed = [s \in Sessions |-> <<>>]

------------------------------------------------------------------------------
(* The step `at' of a call on session s, with the buffer or the result it
   is called with. *)
Step(at, s) == [at |-> at, session |-> s, arg |-> None]
With(at, s, arg) == [at |-> at, session |-> s, arg |-> arg]

At(t, s, l) == todo[t] # <<>> /\ todo[t][1].at = l /\ todo[t][1].session = s
Arg(t) == todo[t][1].arg

(* The step is done; the thread goes on with the given ones. *)
Then(t, steps) == todo' = [todo EXCEPT ![t] = steps \o Tail(@)]
Return(t) == Then(t, <<>>)

Callbacks == {"onConnected", "onRecv", "onSend", "onDisconnected"}
InUserCode(t) == todo[t] # <<>> => todo[t][1].at \in Callbacks

Call(t, steps) == InUserCode(t) /\ todo' = [todo EXCEPT ![t] = steps \o @]

LockFree(t, s) == lock[s] \in {None, t}

SendVars == <<registered, sendQueue, sendBuffers, lock, accepted, handed>>
UserVars == <<fresh, known, unsent>>
------------------------------------------------------------------------------
(* A client's session is created and connects: ConnectEx is pending, or the
   socket cannot be bound or ConnectEx is refused, and Start gives up. *)
Connect(t, s) ==
    /\ todo[t] = <<>> /\ s \in fresh
    /\ \/ /\ fresh' = fresh \ {s}
          /\ owner' = [owner EXCEPT ![s] = @ \cup {"connect"}]
          /\ op' = [op EXCEPT ![s]["connect"] = "pending"]
       \/ /\ "refused" \in Events
          /\ fresh' = {}
          /\ UNCHANGED <<owner, op>>
    /\ UNCHANGED <<connected, todo, known, unsent, refused, SendVars>>

(* User code calls Send or Disconnect. *)
CallSend(t, s, b) ==
    /\ "send" \in Events /\ s \in known /\ b \in unsent
    /\ Call(t, <<With("send", s, b)>>)
    /\ unsent' = unsent \ {b}
    /\ UNCHANGED <<connected, owner, op, fresh, known, refused, SendVars>>

CallDisconnect(t, s) ==
    /\ "disconnect" \in Events /\ s \in known \cap connected
    /\ Call(t, <<Step("disconnect", s)>>)
    /\ UNCHANGED <<connected, owner, op, refused, SendVars, UserVars>>

(* A callback returns. *)
CallbackReturns(t) ==
    /\ todo[t] # <<>> /\ todo[t][1].at \in Callbacks
    /\ Return(t)
    /\ UNCHANGED <<connected, owner, op, refused, SendVars, UserVars>>

(* Windows completes an operation.  A failed one is dispatched as well, with
   0 bytes; connects and disconnects are dispatched the same either way. *)
Complete(s, k) ==
    /\ op[s][k] = "pending"
    /\ \/ /\ k = "recv" => "data" \in Events
          /\ op' = [op EXCEPT ![s][k] = "ok"]
       \/ /\ k \in {"recv", "send"}
          /\ "zero" \in Events \/ s \notin connected
          /\ op' = [op EXCEPT ![s][k] = "zero"]
    /\ UNCHANGED <<connected, owner, todo, refused, SendVars, UserVars>>

Processing == [connect |-> "processConnect", disconnect |-> "processDisconnect",
               recv |-> "processRecv", send |-> "processSend"]

(* GetQueuedCompletionStatus returns the event to a worker, which calls the
   event's owner. *)
Dispatch(t, s, k) ==
    /\ todo[t] = <<>>
    /\ op[s][k] \in {"ok", "zero"}
    /\ op' = [op EXCEPT ![s][k] = "idle"]
    /\ todo' = [todo EXCEPT ![t] = <<With(Processing[k], s, op[s][k])>>]
    /\ UNCHANGED <<connected, owner, refused, SendVars, UserVars>>

------------------------------------------------------------------------------
Release(s, k) == owner' = [owner EXCEPT ![s] = @ \ {k}]

ProcessConnect(t, s) ==
    /\ At(t, s, "processConnect")
    /\ Release(s, "connect")
    /\ connected' = connected \cup {s}
    /\ Then(t, <<Step("addSession", s), Step("onConnected", s), Step("registerRecv", s)>>)
    /\ UNCHANGED <<op, refused, SendVars, UserVars>>

(* Service::AddSession; from now on the session can be reached. *)
AddSession(t, s) ==
    /\ At(t, s, "addSession")
    /\ known' = known \cup {s}
    /\ Return(t)
    /\ UNCHANGED <<connected, owner, op, fresh, unsent, refused, SendVars>>

(* Mistake: the session's lock is held while ReleaseSession is called. *)
ProcessDisconnectLocked(t, s) ==
    /\ At(t, s, "processDisconnect") /\ LockFree(t, s)
    /\ lock' = [lock EXCEPT ![s] = t]
    /\ Release(s, "disconnect")
    /\ Then(t, <<Step("onDisconnected", s), Step("releaseSession", s), Step("unlock", s)>>)
    /\ UNCHANGED <<connected, registered, sendQueue, sendBuffers, accepted, handed, op, refused,
                   UserVars>>

ProcessDisconnect(t, s) ==
    /\ At(t, s, "processDisconnect")
    /\ Release(s, "disconnect")
    /\ Then(t, <<Step("onDisconnected", s), Step("releaseSession", s)>>)
    /\ UNCHANGED <<connected, op, refused, SendVars, UserVars>>

(* Service::ReleaseSession *)
ReleaseSession(t, s) ==
    /\ At(t, s, "releaseSession")
    /\ Return(t)
    /\ UNCHANGED <<connected, owner, op, refused, SendVars, UserVars>>

(* Mistake: _connected is tested by the callers alone. *)
DisconnectAgain(t, s) ==
    /\ At(t, s, "disconnect")
    /\ connected' = connected \ {s}
    /\ Then(t, <<Step("registerDisconnect", s)>>)
    /\ UNCHANGED <<owner, op, refused, SendVars, UserVars>>

(* Disconnect: only the call that finds _connected true goes on. *)
Disconnect(t, s) ==
    /\ At(t, s, "disconnect")
    /\ connected' = connected \ {s}
    /\ Then(t, IF s \in connected THEN <<Step("registerDisconnect", s)>> ELSE <<>>)
    /\ UNCHANGED <<owner, op, refused, SendVars, UserVars>>

(* RegisterDisconnect: the event gets its owner, and DisconnectEx is pending
   or refused; then nobody will ever release the session. *)
RegisterDisconnect(t, s) ==
    /\ At(t, s, "registerDisconnect")
    /\ \/ /\ owner' = [owner EXCEPT ![s] = @ \cup {"disconnect"}]
          /\ op' = [op EXCEPT ![s]["disconnect"] = "pending"]
          /\ UNCHANGED refused
       \/ /\ "refused" \in Events
          /\ refused' = refused \cup {<<s, "disconnect">>}
          /\ UNCHANGED <<owner, op>>
    /\ Return(t)
    /\ UNCHANGED <<connected, SendVars, UserVars>>

------------------------------------------------------------------------------
(* RegisterRecv and RegisterSend return at once when not connected. *)
Register(t, s, k, next) ==
    IF s \in connected
      THEN owner' = [owner EXCEPT ![s] = @ \cup {k}] /\ Then(t, <<Step(next, s)>>)
      ELSE Return(t) /\ UNCHANGED owner

(* WSARecv or WSASend: pending; or refused with a reset, and HandlerError
   disconnects; or refused with another error, which HandlerError logs. *)
Issue(t, s, k, undo) ==
    \/ /\ op' = [op EXCEPT ![s][k] = "pending"]
       /\ Return(t)
       /\ UNCHANGED refused
    \/ /\ "reset" \in Events
       /\ Then(t, <<Step("disconnect", s), Step(undo, s)>>)
       /\ UNCHANGED <<op, refused>>
    \/ /\ "refused" \in Events
       /\ refused' = refused \cup {<<s, k>>}
       /\ Then(t, <<Step(undo, s)>>)
       /\ UNCHANGED op

RegisterRecv(t, s) ==
    /\ At(t, s, "registerRecv")
    /\ Register(t, s, "recv", "wsaRecv")
    /\ UNCHANGED <<connected, op, refused, SendVars, UserVars>>

WSARecv(t, s) ==
    /\ At(t, s, "wsaRecv")
    /\ Issue(t, s, "recv", "undoRecv")
    /\ UNCHANGED <<connected, owner, SendVars, UserVars>>

UndoRecv(t, s) ==
    /\ At(t, s, "undoRecv")
    /\ Release(s, "recv") /\ Return(t)
    /\ UNCHANGED <<connected, op, refused, SendVars, UserVars>>

(* Mistake: 0 bytes are taken for nothing received. *)
ProcessRecvNothing(t, s) ==
    /\ At(t, s, "processRecv")
    /\ Release(s, "recv")
    /\ \/ Arg(t) = "zero" /\ Return(t)
       \/ "overflow" \in Events /\ Then(t, <<Step("disconnect", s)>>)
       \/ Arg(t) = "ok" /\ Then(t, <<Step("onRecv", s), Step("afterRecv", s)>>)
    /\ UNCHANGED <<connected, op, refused, SendVars, UserVars>>

(* ProcessRecv: 0 bytes or an overflow of the buffer end the session. *)
ProcessRecv(t, s) ==
    /\ At(t, s, "processRecv")
    /\ Release(s, "recv")
    /\ \/ /\ Arg(t) = "zero" \/ "overflow" \in Events
          /\ Then(t, <<Step("disconnect", s)>>)
       \/ Arg(t) = "ok" /\ Then(t, <<Step("onRecv", s), Step("afterRecv", s)>>)
    /\ UNCHANGED <<connected, op, refused, SendVars, UserVars>>

(* OnRecv's result is out of bounds, or the buffer is cleaned for more. *)
AfterRecv(t, s) ==
    /\ At(t, s, "afterRecv")
    /\ \/ "overflow" \in Events /\ Then(t, <<Step("disconnect", s)>>)
       \/ Then(t, <<Step("registerRecv", s)>>)
    /\ UNCHANGED <<connected, owner, op, refused, SendVars, UserVars>>
------------------------------------------------------------------------------
(* Send, to its check of _connected. *)
Send(t, s) ==
    /\ At(t, s, "send")
    /\ Then(t, IF s \in connected THEN <<With("push", s, Arg(t))>> ELSE <<>>)
    /\ UNCHANGED <<connected, owner, op, refused, SendVars, UserVars>>

(* Mistake: every call registers. *)
PushAndRegister(t, s) ==
    /\ At(t, s, "push") /\ LockFree(t, s)
    /\ sendQueue' = [sendQueue EXCEPT ![s] = Append(@, Arg(t))]
    /\ accepted' = [accepted EXCEPT ![s] = Append(@, Arg(t))]
    /\ registered' = registered \cup {s}
    /\ Then(t, <<Step("registerSend", s)>>)
    /\ UNCHANGED <<connected, sendBuffers, lock, handed, owner, op, refused, UserVars>>

(* Its critical section: the call that turns _sendRegistered on registers. *)
Push(t, s) ==
    /\ At(t, s, "push") /\ LockFree(t, s)
    /\ sendQueue' = [sendQueue EXCEPT ![s] = Append(@, Arg(t))]
    /\ accepted' = [accepted EXCEPT ![s] = Append(@, Arg(t))]
    /\ registered' = registered \cup {s}
    /\ Then(t, IF s \in registered THEN <<>> ELSE <<Step("registerSend", s)>>)
    /\ UNCHANGED <<connected, sendBuffers, lock, handed, owner, op, refused, UserVars>>

RegisterSend(t, s) ==
    /\ At(t, s, "registerSend")
    /\ Register(t, s, "send", "collect")
    /\ UNCHANGED <<connected, op, refused, SendVars, UserVars>>

(* Mistake: the queue is copied. *)
CollectCopies(t, s) ==
    /\ At(t, s, "collect") /\ LockFree(t, s)
    /\ sendBuffers' = [sendBuffers EXCEPT ![s] = @ \o sendQueue[s]]
    /\ Then(t, <<Step("wsaSend", s)>>)
    /\ UNCHANGED <<sendQueue, connected, registered, lock, accepted, handed, owner, op, refused,
                   UserVars>>

(* Under the lock, the queue moves to the event. *)
Collect(t, s) ==
    /\ At(t, s, "collect") /\ LockFree(t, s)
    /\ sendBuffers' = [sendBuffers EXCEPT ![s] = @ \o sendQueue[s]]
    /\ sendQueue' = [sendQueue EXCEPT ![s] = <<>>]
    /\ Then(t, <<Step("wsaSend", s)>>)
    /\ UNCHANGED <<connected, registered, lock, accepted, handed, owner, op, refused, UserVars>>

WSASend(t, s) ==
    /\ At(t, s, "wsaSend")
    /\ Issue(t, s, "send", "undoSend")
    /\ handed' = [handed EXCEPT ![s] = @ \o sendBuffers[s]]
    /\ UNCHANGED <<connected, registered, sendQueue, sendBuffers, lock, accepted, owner, UserVars>>

ClearBuffers(s) == Release(s, "send") /\ sendBuffers' = [sendBuffers EXCEPT ![s] = <<>>]

(* Mistake: a refused send is tried again, in a call inside its own. *)
UndoSendRetries(t, s) ==
    /\ At(t, s, "undoSend")
    /\ ClearBuffers(s)
    /\ Then(t, <<Step("registerSend", s), Step("unregister", s)>>)
    /\ UNCHANGED <<connected, registered, sendQueue, lock, accepted, handed, op, refused, UserVars>>

(* The send was refused: its buffers are dropped ... *)
UndoSend(t, s) ==
    /\ At(t, s, "undoSend")
    /\ ClearBuffers(s)
    /\ Then(t, <<Step("unregister", s)>>)
    /\ UNCHANGED <<connected, registered, sendQueue, lock, accepted, handed, op, refused, UserVars>>

(* ... and then the next Send may register. *)
Unregister(t, s) ==
    /\ At(t, s, "unregister")
    /\ registered' = registered \ {s}
    /\ Return(t)
    /\ UNCHANGED <<connected, sendQueue, sendBuffers, lock, accepted, handed, owner, op, refused, UserVars>>

(* ProcessSend, to OnSend; 0 bytes end the session. *)
ProcessSend(t, s) ==
    /\ At(t, s, "processSend")
    /\ ClearBuffers(s)
    /\ Then(t, IF Arg(t) = "zero" THEN <<Step("disconnect", s)>>
               ELSE <<Step("onSend", s), Step("resume", s)>>)
    /\ UNCHANGED <<connected, registered, sendQueue, lock, accepted, handed, op, refused, UserVars>>

(* Mistakes: what was queued meanwhile is left to the next Send; a send is
   registered though nothing was queued. *)
ResumeNever(t, s) ==
    /\ At(t, s, "resume") /\ LockFree(t, s)
    /\ registered' = registered \ {s} /\ Return(t)
    /\ UNCHANGED <<lock, connected, sendQueue, sendBuffers, accepted, handed, owner, op, refused,
                   UserVars>>

ResumeAlways(t, s) ==
    /\ At(t, s, "resume") /\ LockFree(t, s)
    /\ lock' = [lock EXCEPT ![s] = t]
    /\ Then(t, <<Step("registerSend", s), Step("unlock", s)>>)
    /\ UNCHANGED <<registered, connected, sendQueue, sendBuffers, accepted, handed, owner, op,
                   refused, UserVars>>

(* Its critical section, which covers the RegisterSend it calls. *)
Resume(t, s) ==
    /\ At(t, s, "resume") /\ LockFree(t, s)
    /\ IF sendQueue[s] = <<>>
         THEN registered' = registered \ {s} /\ Return(t) /\ UNCHANGED lock
         ELSE /\ lock' = [lock EXCEPT ![s] = t]
              /\ Then(t, <<Step("registerSend", s), Step("unlock", s)>>)
              /\ UNCHANGED registered
    /\ UNCHANGED <<connected, sendQueue, sendBuffers, accepted, handed, owner, op, refused, UserVars>>

(* Mistake: the lock is taken and never given back. *)
UnlockForgotten(t, s) ==
    /\ At(t, s, "unlock")
    /\ Return(t)
    /\ UNCHANGED <<lock, connected, registered, sendQueue, sendBuffers, accepted, handed, owner,
                   op, refused, UserVars>>

Unlock(t, s) ==
    /\ At(t, s, "unlock")
    /\ lock' = [lock EXCEPT ![s] = None]
    /\ Return(t)
    /\ UNCHANGED <<connected, registered, sendQueue, sendBuffers, accepted, handed, owner, op,
                   refused, UserVars>>

------------------------------------------------------------------------------
(* The next step of t's calls, other than those that are the service's. *)
SessionStep(t, s) ==
    \/ ProcessConnect(t, s) \/ ProcessDisconnect(t, s)
    \/ Disconnect(t, s) \/ RegisterDisconnect(t, s)
    \/ ProcessRecv(t, s) \/ AfterRecv(t, s)
    \/ RegisterRecv(t, s) \/ WSARecv(t, s) \/ UndoRecv(t, s)
    \/ Send(t, s) \/ Push(t, s) \/ RegisterSend(t, s) \/ Collect(t, s) \/ WSASend(t, s)
    \/ UndoSend(t, s) \/ Unregister(t, s) \/ ProcessSend(t, s) \/ Resume(t, s) \/ Unlock(t, s)

ServiceStep(t, s) == AddSession(t, s) \/ ReleaseSession(t, s)

UserStep(t, s) ==
    Connect(t, s) \/ CallDisconnect(t, s) \/ \E b \in Buffers : CallSend(t, s, b)

ThreadStep(t) ==
    \/ \E s \in Sessions : SessionStep(t, s) \/ ServiceStep(t, s)
    \/ CallbackReturns(t)

Next ==
    \/ \E t \in Threads : ThreadStep(t)
    \/ \E t \in Threads, s \in Sessions : UserStep(t, s)
    \/ \E t \in Threads, s \in Sessions, k \in Kinds : Dispatch(t, s, k)
    \/ \E s \in Sessions, k \in Kinds : Complete(s, k)

Spec == Init /\ [][Next]_vars

------------------------------------------------------------------------------
Steps == {"processConnect", "addSession", "processDisconnect", "releaseSession",
          "disconnect", "registerDisconnect", "processRecv", "afterRecv", "registerRecv",
          "wsaRecv", "undoRecv", "send", "push", "registerSend", "collect", "wsaSend",
          "undoSend", "unregister", "processSend", "resume", "unlock"} \cup Callbacks

SessionTypes ==
    /\ connected \subseteq Sessions /\ registered \subseteq Sessions
    /\ sendQueue \in [Sessions -> Seq(Buffers)]
    /\ sendBuffers \in [Sessions -> Seq(Buffers)]
    /\ lock \in [Sessions -> Threads \cup {None}]
    /\ owner \in [Sessions -> SUBSET Kinds]
    /\ op \in [Sessions -> [Kinds -> {"idle", "pending", "ok", "zero"}]]
    /\ fresh \subseteq Sessions /\ known \subseteq Sessions /\ unsent \subseteq Buffers
    /\ refused \subseteq Sessions \X Kinds

(* Calls nest, from the handlers through the callbacks, but never deeper. *)
MaxCalls == 4

(* Every variable has the type its declaration gives it; no chain of handlers,
   callbacks and refused operations calls itself again and again. *)
TypeOK ==
    /\ SessionTypes
    /\ \A t \in Threads :
          /\ Len(todo[t]) <= MaxCalls
          /\ \A i \in 1 .. Len(todo[t]) :
                todo[t][i].at \in Steps /\ todo[t][i].session \in Sessions

(* The steps that use the event of kind k, or are about to. *)
UsesEvent ==
    [connect |-> {},
     recv |-> {"processConnect", "registerRecv", "wsaRecv", "undoRecv", "processRecv", "afterRecv"},
     send |-> {"registerSend", "collect", "wsaSend", "undoSend", "unregister", "processSend",
               "resume"},
     disconnect |-> {"registerDisconnect", "processDisconnect", "releaseSession"}]

Doing(s, steps) ==
    UNION {{<<t, i>> : i \in {j \in DOMAIN todo[t] : /\ todo[t][j].session = s
                                                     /\ todo[t][j].at \in steps}}
           : t \in Threads}

InUse(s, k) == op[s][k] # "idle" \/ Doing(s, UsesEvent[k]) # {}

(* An event has one user at most: the operation that runs, or the thread
   that handles the last one or is about to start the next.  The first
   receive follows the connect. *)
EventsNotShared ==
    \A s \in Sessions, k \in Kinds :
        /\ Cardinality(Doing(s, UsesEvent[k])) + (IF op[s][k] # "idle" THEN 1 ELSE 0) <= 1
        /\ k = "recv" /\ op[s]["connect"] # "idle" => ~InUse(s, "recv")

(* The session, and the buffers of a send, are kept while Windows uses them;
   no send is issued without buffers, whose completion would say 0 bytes. *)
KeptWhileInUse ==
    \A s \in Sessions, k \in Kinds :
        op[s][k] # "idle" => k \in owner[s] /\ (k = "send" => sendBuffers[s] # <<>>)

(* The buffers reach WSASend in the order in which Send queued them, each
   once and none left out. *)
SendsInOrder ==
    \A s \in Sessions :
        accepted[s] = handed[s]
                      \o (IF Doing(s, {"wsaSend"}) # {} THEN sendBuffers[s] ELSE <<>>)
                      \o sendQueue[s]

Disconnecting(s) == s \notin connected \/ Doing(s, {"disconnect"}) # {}

(* A queued buffer has somebody who will send it, unless WSASend was refused
   with an error that does not disconnect. *)
NothingStranded ==
    \A s \in Sessions :
        sendQueue[s] # <<>> =>
            InUse(s, "send") \/ Disconnecting(s) \/ <<s, "send">> \in refused

(* A connected session always has a receive under way that will tell when
   the peer leaves, unless WSARecv was refused likewise. *)
StaysArmed ==
    \A s \in Sessions :
        InUse(s, "recv") \/ Disconnecting(s) \/ <<s, "recv">> \in refused

(* What is queued is eventually given to WSASend, or the session ends. *)
QueueIsSent ==
    \A s \in Sessions :
        sendQueue[s] # <<>> ~> \/ sendQueue[s] = <<>> \/ s \notin connected
                               \/ <<s, "send">> \in refused
==============================================================================
