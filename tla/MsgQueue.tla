------------------------------ MODULE MsgQueue -------------------------------
(***************************************************************************)
(* The message queues of sync/msgqueue.c: a ring of messages, and one      *)
(* scheduler queue of blocked consumers and one of blocked producers.      *)
(*                                                                         *)
(* A call that blocks ends in scheduler() and goes on, when its process is *)
(* dispatched again, by looking at the status left in the process.  Calls  *)
(* on an identifier pcreate has not returned have no action.               *)
(***************************************************************************)
EXTENDS Process

CONSTANTS
  Fids,             (* the indices of all_queues                           *)
  blocked_cons,     (* the name of the queue of consumers of each          *)
  blocked_prod,     (* and of the queue of its producers                   *)
  Msgs, NoMsg,
  Sizes,            (* the capacities programs ask for                     *)
  MsgCalls          (* the message calls of the program in each process    *)

ASSUME MsgQueueAssumption ==
  /\ Fids \subseteq Nat /\ Fids # {}
  /\ blocked_cons \in [Fids -> Queues \ SchedulerQueues]
  /\ blocked_prod \in [Fids -> Queues \ SchedulerQueues]
  /\ \A f, g \in Fids :
        /\ blocked_cons[f] # blocked_prod[g]
        /\ f # g => blocked_cons[f] # blocked_cons[g] /\ blocked_prod[f] # blocked_prod[g]
  /\ NoMsg \notin Msgs
  /\ Sizes \subseteq Nat
  /\ MsgCalls \in [Procs -> SUBSET {"pcreate", "pcreate_huge", "psend",
                                    "preceive", "preset", "pdelete"}]
  /\ MsgCalls[Idle] = {}

VARIABLES
  slot,             (* "free", "ready", or "half": allocated, not set up   *)
  size, msg_arr, iffc, number_of_msgs,
  value, status,    (* process.message                                     *)
  pending,          (* the call a process has to finish                    *)
  got               (* *message: what each process last read from a queue  *)

ringVars    == <<slot, size, msg_arr, iffc, number_of_msgs>>
messageVars == <<value, status, pending, got>>
msgVars     == <<vars, ringVars, messageVars>>

(* No call to finish; otherwise its name and its queue.                    *)
Nothing == <<>>

MsgTypeOK ==
  /\ slot \in [Fids -> {"free", "half", "ready"}]
  /\ DOMAIN msg_arr = Fids
  /\ size \in [Fids -> Nat] /\ iffc \in [Fids -> Nat] /\ number_of_msgs \in [Fids -> Nat]
  /\ \A f \in Fids :
        /\ msg_arr[f] \in [0 .. size[f] - 1 -> Msgs \cup {NoMsg}]
        /\ number_of_msgs[f] \in 0 .. size[f]
        /\ iffc[f] \in 0 .. size[f] /\ (iffc[f] = 0 \/ iffc[f] < size[f])
  /\ value \in [Procs -> Msgs \cup {NoMsg}]
  /\ status \in [Procs -> {"RECEIVED", "ERROR", "SENT"}]
  /\ pending \in [Procs -> {Nothing} \cup ({"psend", "preceive"} \X Fids)]
  /\ got \in [Fids -> [Procs -> Msgs \cup {NoMsg}]]

Ring(n) == [i \in 0 .. n - 1 |-> NoMsg]

MsgInit ==
  /\ ProcInit
  /\ slot = [f \in Fids |-> "free"]
  /\ size = [f \in Fids |-> 0]
  /\ msg_arr = [f \in Fids |-> Ring(0)]
  /\ iffc = [f \in Fids |-> 0]
  /\ number_of_msgs = [f \in Fids |-> 0]
  /\ value = [p \in Procs |-> NoMsg]
  /\ status = [p \in Procs |-> "RECEIVED"]
  /\ pending = [p \in Procs |-> Nothing]
  /\ got = [f \in Fids |-> [p \in Procs |-> NoMsg]]

(* The current process is in user mode, and not inside psend or preceive.  *)
MsgInUser == current # NoProc => pending[current] = Nothing

MsgAsked(name) == Running /\ InUser /\ MsgInUser /\ name \in MsgCalls[current]
MsgCalling(name, f) == MsgAsked(name) /\ slot[f] = "ready"

Empty(f) == number_of_msgs[f] = 0
Full(f)  == number_of_msgs[f] = size[f]

NoConsumer(f) == queue[blocked_cons[f]] = <<>>
NoProducer(f) == queue[blocked_prod[f]] = <<>>

-----------------------------------------------------------------------------
(* An error: the place read is the next to be written.                     *)
OldestIsFree(f) == iffc[f] % size[f]

(* pop_oldest_msg reads at Oldest, add_message writes at iffc.             *)
Oldest(f) == (iffc[f] - number_of_msgs[f]) % size[f]
Stored(f, m) == [msg_arr EXCEPT ![f][iffc[f]] = m]
NextFree(f) == (iffc[f] + 1) % size[f]

Pcreate(f, n) ==
  /\ MsgAsked("pcreate")
  /\ slot[f] = "free" /\ \A g \in Fids : slot[g] = "free" => f <= g
  /\ slot' = [slot EXCEPT ![f] = "ready"]
  /\ size' = [size EXCEPT ![f] = n]
  /\ msg_arr' = [msg_arr EXCEPT ![f] = Ring(n)]
  /\ iffc' = [iffc EXCEPT ![f] = 0]
  /\ number_of_msgs' = [number_of_msgs EXCEPT ![f] = 0]
  /\ UNCHANGED <<vars, messageVars>>

(* The ring cannot be allocated: pcreate fails, and the queue structure it *)
(* has allocated stays in the table for ever.                              *)
PcreateHuge(f) ==
  /\ MsgAsked("pcreate_huge")
  /\ slot[f] = "free" /\ \A g \in Fids : slot[g] = "free" => f <= g
  /\ slot' = [slot EXCEPT ![f] = "half"]
  /\ UNCHANGED <<vars, size, msg_arr, iffc, number_of_msgs, messageVars>>

(* The current process blocks on the queue named n.                        *)
BlockOn(n) ==
  /\ state' = [state EXCEPT ![current] = "BLOCKEDQUEUE"]
  /\ blocked_head' = [blocked_head EXCEPT ![current] = n]
  /\ queue' = Link(queue, n, current, prio)
  /\ AssertThat(~ Linked(current))
  /\ CallScheduler
  /\ UNCHANGED <<prio, wake, current, clock, lifeVars>>

(* The first of the processes blocked on n goes to the activatable queue,  *)
(* in the state st.                                                        *)
Wakes(n, st) ==
  LET blocked == QueueTop(queue[n]) IN
  /\ queue' = Link(Pop(queue, n), "activatable", blocked, prio)
  /\ state' = [state EXCEPT ![blocked] = st]
  /\ CallScheduler
  /\ UNCHANGED <<prio, wake, blocked_head, current, clock, halt, lifeVars>>

(* psend: a consumer waits, the ring is full, or there is room.            *)
PsendHand(f, m) ==
  /\ MsgCalling("psend", f)
  /\ Empty(f) /\ ~ NoConsumer(f)
  /\ LET blocked == QueueTop(queue[blocked_cons[f]]) IN
     /\ value' = [value EXCEPT ![blocked] = m]
     /\ status' = [status EXCEPT ![blocked] = "RECEIVED"]
  /\ Wakes(blocked_cons[f], "ACTIVATABLE")
  /\ UNCHANGED <<ringVars, pending, got>>

PsendBlock(f, m) ==
  /\ MsgCalling("psend", f)
  /\ ~ (Empty(f) /\ ~ NoConsumer(f)) /\ Full(f)
  /\ value' = [value EXCEPT ![current] = m]
  /\ pending' = [pending EXCEPT ![current] = <<"psend", f>>]
  /\ BlockOn(blocked_prod[f])
  /\ UNCHANGED <<ringVars, status, got>>

PsendPut(f, m) ==
  /\ MsgCalling("psend", f)
  /\ ~ (Empty(f) /\ ~ NoConsumer(f)) /\ ~ Full(f)
  /\ msg_arr' = Stored(f, m)
  /\ iffc' = [iffc EXCEPT ![f] = NextFree(f)]
  /\ number_of_msgs' = [number_of_msgs EXCEPT ![f] = @ + 1]
  /\ UNCHANGED <<vars, slot, size, messageVars>>

-----------------------------------------------------------------------------
(* preceive: a producer is blocked on an empty queue, nobody is, one is    *)
(* blocked on a full queue, or there is a message.                         *)
(* The first case leaves the producer it wakes in state BLOCKEDQUEUE.      *)
PreceiveDirect(f) ==
  /\ MsgCalling("preceive", f)
  /\ Empty(f) /\ ~ NoProducer(f)
  /\ LET blocked == QueueTop(queue[blocked_prod[f]]) IN
     /\ status' = [status EXCEPT ![blocked] = "SENT"]
     /\ got' = [got EXCEPT ![f][current] = value[blocked]]
  /\ Wakes(blocked_prod[f], "BLOCKEDQUEUE")
  /\ UNCHANGED <<ringVars, value, pending>>

PreceiveBlock(f) ==
  /\ MsgCalling("preceive", f)
  /\ Empty(f) /\ NoProducer(f)
  /\ pending' = [pending EXCEPT ![current] = <<"preceive", f>>]
  /\ BlockOn(blocked_cons[f])
  /\ UNCHANGED <<ringVars, value, status, got>>

(* The place popped is the one the next message is written to.             *)
PreceiveRefill(f) ==
  /\ MsgCalling("preceive", f)
  /\ ~ Empty(f) /\ Full(f) /\ ~ NoProducer(f)
  /\ got' = [got EXCEPT ![f][current] = msg_arr[f][Oldest(f)]]
  /\ LET blocked == QueueTop(queue[blocked_prod[f]]) IN
     /\ msg_arr' = Stored(f, value[blocked])
     /\ status' = [status EXCEPT ![blocked] = "SENT"]
  /\ iffc' = [iffc EXCEPT ![f] = NextFree(f)]
  /\ Wakes(blocked_prod[f], "ACTIVATABLE")
  /\ UNCHANGED <<slot, size, number_of_msgs, value, pending>>

PreceiveTake(f) ==
  /\ MsgCalling("preceive", f)
  /\ ~ Empty(f) /\ (~ Full(f) \/ NoProducer(f))
  /\ got' = [got EXCEPT ![f][current] = msg_arr[f][Oldest(f)]]
  /\ number_of_msgs' = [number_of_msgs EXCEPT ![f] = @ - 1]
  /\ UNCHANGED <<vars, slot, size, msg_arr, iffc, value, status, pending>>

(* The process is dispatched again: the status tells what has happened.    *)
PsendReturn(f) ==
  /\ Running /\ pending[current] = <<"psend", f>>
  /\ pending' = [pending EXCEPT ![current] = Nothing]
  /\ UNCHANGED <<vars, ringVars, value, status, got>>

PreceiveReturn(f) ==
  /\ Running /\ pending[current] = <<"preceive", f>>
  /\ pending' = [pending EXCEPT ![current] = Nothing]
  /\ got' = IF status[current] = "RECEIVED"
            THEN [got EXCEPT ![f][current] = value[current]]
            ELSE got
  /\ UNCHANGED <<vars, ringVars, value, status>>

-----------------------------------------------------------------------------
(* An error: producers are taken off their list and not made ready.        *)
ConsumersOf(f) == Reverse(queue[blocked_cons[f]])

Told(woken) == [p \in Procs |-> IF p \in Range(woken) THEN "ERROR" ELSE status[p]]

(* free_blocked_queue of the consumers and then of the producers: each     *)
(* list is emptied, from its last process to its first.                    *)
BlockedOf(f) == Reverse(queue[blocked_cons[f]]) \o Reverse(queue[blocked_prod[f]])

Emptied(f) == [queue EXCEPT ![blocked_cons[f]] = <<>>, ![blocked_prod[f]] = <<>>]

FreeBlocked(f) ==
  LET woken == BlockedOf(f) IN
     /\ queue' = LinkEach(Emptied(f), "activatable", woken, prio)
     /\ state' = [p \in Procs |-> IF p \in Range(woken) THEN "ACTIVATABLE" ELSE state[p]]
     /\ status' = Told(woken)
     /\ number_of_msgs' = [number_of_msgs EXCEPT ![f] = 0]
     /\ iffc' = [iffc EXCEPT ![f] = 0]
     /\ CallScheduler
     /\ UNCHANGED <<prio, wake, blocked_head, current, clock, halt, lifeVars,
                    size, msg_arr, value, pending, got>>

Preset(f) == MsgCalling("preset", f) /\ FreeBlocked(f) /\ UNCHANGED slot

Pdelete(f) ==
  MsgCalling("pdelete", f) /\ FreeBlocked(f) /\ slot' = [slot EXCEPT ![f] = "free"]

(* A process structure that is set up or given back forgets its messages.  *)
Forget ==
  LET new(p) == (state[p] = "UNUSED") # (state'[p] = "UNUSED")
      gone(p) == ~ Alive(p)'
  IN /\ value' = [p \in Procs |-> IF new(p) THEN NoMsg ELSE value[p]]
     /\ status' = [p \in Procs |-> IF new(p) THEN "RECEIVED" ELSE status[p]]
     /\ pending' = [p \in Procs |-> IF gone(p) THEN Nothing ELSE pending[p]]
     /\ got' = [f \in Fids |-> [p \in Procs |-> IF gone(p) THEN NoMsg ELSE got[f][p]]]

MsgCall ==
  \E f \in Fids :
     \/ \E n \in Sizes : Pcreate(f, n)
     \/ PcreateHuge(f)
     \/ \E m \in Msgs : PsendHand(f, m) \/ PsendBlock(f, m) \/ PsendPut(f, m)
     \/ PreceiveDirect(f) \/ PreceiveBlock(f) \/ PreceiveRefill(f) \/ PreceiveTake(f)
     \/ Preset(f) \/ Pdelete(f)

MsgReturn == \E f \in Fids : PsendReturn(f) \/ PreceiveReturn(f)

MsgNext ==
  \/ (MsgInUser \/ phase # "user") /\ Next /\ Forget /\ UNCHANGED ringVars
  \/ MsgCall
  \/ MsgReturn

MsgSpec == MsgInit /\ [][MsgNext]_msgVars

-----------------------------------------------------------------------------
(* Properties.                                                             *)

(* Consumers are blocked only on an empty queue that nobody is blocked     *)
(* sending to, and producers only on a full one: resets, kills and changes *)
(* of priority leave nobody blocked who could go on.                       *)
(* The status a process reads when its call goes on is that of this call,  *)
(* and not what an earlier one has left in the process structure.          *)
BlockedForAReason ==
  /\ MsgTypeOK /\ QueuesDisjoint
  /\ halt = "no" =>
       \A f \in Fids :
          /\ ~ NoConsumer(f) => Empty(f) /\ NoProducer(f)
          /\ ~ NoProducer(f) => Full(f) /\ slot[f] = "ready"
  /\ \A p \in Procs, f \in Fids :
       /\ pending[p] = <<"psend", f>> /\ ~ In(p, blocked_prod[f])
            => status[p] # "RECEIVED"
       /\ pending[p] = <<"preceive", f>> /\ ~ In(p, blocked_cons[f])
            => status[p] # "SENT"

(* Each queue is a first-in first-out channel.                             *)
Box(f) ==
  [i \in 1 .. number_of_msgs[f] |-> msg_arr[f][(Oldest(f) + i - 1) % size[f]]]

OfferTo(f) == [p \in Procs |-> IF In(p, blocked_prod[f]) THEN value[p] ELSE NoMsg]

(* A message that was handed to a blocked consumer counts as delivered.    *)
InboxOf(f) ==
  [p \in Procs |->
     IF pending[p] = <<"preceive", f>> /\ ~ In(p, blocked_cons[f]) /\ status[p] = "RECEIVED"
     THEN value[p] ELSE got[f][p]]

Channel(f) ==
  INSTANCE MsgChannel WITH size <- size[f], box <- Box(f), offer <- OfferTo(f),
                           inbox <- InboxOf(f)

(* Whatever blocks, is killed or is reset, no message is delivered twice,  *)
(* overtakes another one in the queue, or is lost without an error.        *)
IsChannel ==
  /\ \A f \in Fids : Channel(f)!ChannelInit
  /\ [][\A f \in Fids : [Channel(f)!ChannelNext]_(Channel(f)!channelVars)]_msgVars
=============================================================================
