----------------------------- MODULE MsgChannel ------------------------------
(***************************************************************************)
(* What a message queue promises (sync/msgqueue.h): a bounded first-in     *)
(* first-out channel.  A message that does not fit stays on offer until it *)
(* is accepted; a message is delivered once, to one process, and lost only *)
(* when the queue is reset or deleted or its sender or receiver dies.      *)
(* Whose offer is accepted first, and who is served first, is left open.   *)
(***************************************************************************)
EXTENDS Integers, Sequences

CONSTANTS Procs, Msgs, NoMsg, Sizes

VARIABLES
  size,     (* the capacity                                                *)
  box,      (* the messages in the queue, the oldest first                 *)
  offer,    (* the message each process is blocked with in psend           *)
  inbox     (* the last message each process has been given                *)

channelVars == <<size, box, offer, inbox>>

ChannelInit ==
  /\ size = 0
  /\ box = <<>>
  /\ offer = [p \in Procs |-> NoMsg]
  /\ inbox = [p \in Procs |-> NoMsg]

NoOffer == \A p \in Procs : offer[p] = NoMsg

New(n) ==
  /\ size' = n /\ box' = <<>>
  /\ NoOffer /\ UNCHANGED <<offer, inbox>>

(* A message is accepted while there is room.                              *)
Put(m) ==
  /\ Len(box) < size /\ NoOffer
  /\ box' = Append(box, m)
  /\ UNCHANGED <<size, offer, inbox>>

Offer(p, m) ==
  /\ Len(box) = size /\ offer[p] = NoMsg
  /\ offer' = [offer EXCEPT ![p] = m]
  /\ UNCHANGED <<size, box, inbox>>

(* The oldest message is taken, and an offer fills its place.              *)
Take(p) ==
  /\ box # <<>> /\ NoOffer
  /\ box' = Tail(box)
  /\ inbox' = [inbox EXCEPT ![p] = Head(box)]
  /\ UNCHANGED <<size, offer>>

TakeAndRefill(p, q) ==
  /\ box # <<>> /\ offer[q] # NoMsg
  /\ box' = Append(Tail(box), offer[q])
  /\ offer' = [offer EXCEPT ![q] = NoMsg]
  /\ inbox' = [inbox EXCEPT ![p] = Head(box)]
  /\ UNCHANGED size

(* Nothing is stored: a message goes from its sender to a receiver.        *)
Hand(p, m) ==
  /\ box = <<>> /\ NoOffer
  /\ inbox' = [inbox EXCEPT ![p] = m]
  /\ UNCHANGED <<size, box, offer>>

HandOffered(p, q) ==
  /\ box = <<>> /\ offer[q] # NoMsg
  /\ inbox' = [inbox EXCEPT ![p] = offer[q]]
  /\ offer' = [offer EXCEPT ![q] = NoMsg]
  /\ UNCHANGED <<size, box>>

(* A reset or a deletion abandons what is stored and what is offered.      *)
Abandoned ==
  /\ box' = <<>>
  /\ offer' = [p \in Procs |-> NoMsg]
  /\ UNCHANGED <<size, inbox>>

Die(p) ==
  /\ offer' = [offer EXCEPT ![p] = NoMsg]
  /\ inbox' = [inbox EXCEPT ![p] = NoMsg]
  /\ UNCHANGED <<size, box>>

ChannelNext ==
  \/ \E n \in Sizes : New(n)
  \/ \E m \in Msgs : Put(m)
  \/ \E p \in Procs, m \in Msgs : Offer(p, m) \/ Hand(p, m)
  \/ \E p \in Procs : Take(p) \/ Die(p)
  \/ \E p, q \in Procs : TakeAndRefill(p, q) \/ HandOffered(p, q)
  \/ Abandoned

ChannelSpec == ChannelInit /\ [][ChannelNext]_channelVars
=============================================================================
