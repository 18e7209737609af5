------------------------------- MODULE Mailbox -------------------------------
(***************************************************************************)
(* What a JobQueue promises to its users: each queue is a mailbox whose    *)
(* jobs are delivered one at a time and in the order they were posted,     *)
(* whatever threads post and deliver them.  Nothing is lost, duplicated or *)
(* reordered; only ClearJobs drops jobs, and it drops a suffix of those    *)
(* that are waiting.                                                       *)
(***************************************************************************)
EXTENDS Integers, Sequences

CONSTANTS Queues,  (* the mailboxes                  *)
          Jobs     (* the jobs that may be posted    *)

VARIABLE mail      (* mail[q]: the jobs of q not yet delivered, oldest first *)

Init == mail = [q \in Queues |-> <<>>]

Post(q, j) == mail' = [mail EXCEPT ![q] = Append(@, j)]

Deliver(q) == mail[q] # <<>> /\ mail' = [mail EXCEPT ![q] = Tail(@)]

Discard(q) ==
    \E n \in 0 .. Len(mail[q]) : mail' = [mail EXCEPT ![q] = SubSeq(@, 1, n)]

Next == \E q \in Queues : (\E j \in Jobs : Post(q, j)) \/ Deliver(q) \/ Discard(q)

Spec == Init /\ [][Next]_mail
==============================================================================
