-------------------------------- MODULE Ipc --------------------------------
(***************************************************************************)
(* Message passing of the Gecko microkernel: src/fusion_os/gecko/ipc.c.    *)
(*                                                                         *)
(* Queues are named by a queue id: 0 (SysQ) for system_message_queue, and *)
(* number for each service queue allocated by ipc_register_service.  A     *)
(* queue is its message list (a sequence, head first: messages are only    *)
(* ever added at the tail and removed at the head, each on one list) and   *)
(* its current_messages counter.  service_registry is an array of slots;   *)
(* registered_services links the slots' service_link nodes and is kept at  *)
(* the level of its pointers (IntrusiveList), because registration can     *)
(* link a node that is already linked.                                     *)
(*                                                                         *)
(* Pages come from pmm_alloc_page and go back through pmm_free_page; the   *)
(* model counts the free pages of a pool (poolFree) and leaves the buddy   *)
(* allocator itself to Pmm.  Message contents are abstracted to an id      *)
(* (which is ghost: it lets properties follow a message) and a length.     *)
(*                                                                         *)
(* Ghost state: accepted (ids of the messages a send returned 0 for),      *)
(* delivered (ids a receive returned 0 for), live (what register and       *)
(* unregister told their callers is registered: name -> handler).          *)
(***************************************************************************)
EXTENDS Integers, Sequences, SequencesExt, FiniteSets, FiniteSetsExt, IntrusiveList

CONSTANTS
  Names,          \* service names callers use
  Handlers,       \* service handlers callers register
  MaxServices,    \* MAX_SERVICES (64), scaled down
  ServiceCap,     \* max_messages of a service queue (64), scaled down
  SysCap,         \* max_messages of the system queue (1024), scaled down
  PoolPages,      \* pages pmm_alloc_page can hand to IPC
  MsgLens,        \* message lengths senders use (1..1024)
  BufLens,        \* buffer lengths receivers pass
  MaxMsgId,       \* bound: messages created
  MaxQueues,      \* bound: service queues allocated
  MaxListCount,   \* bound: the count of registered_services
  MaxCountWrap    \* bound: how far service_count may fall below zero

ASSUME MsgLens \subseteq 1..1024 /\ BufLens \subseteq Nat

Slots  == 0..(MaxServices - 1)
SysQ   == 0        \* system_message_queue
QIds   == 0..MaxQueues
NoName == "none"   \* the zeroed name of a slot never written
None   == "none"   \* no handler
Running == "running"  \* no function spins

Msg == [id : 1..MaxMsgId, len : MsgLens]

VARIABLES
  queue,             \* queue id -> [msgs, cur]
  nextQ,             \* next service queue id (allocation of its page)
  service_registry,  \* slot -> [name, handler, queue]
  service_count,
  next, prev, lists, \* registered_services and the service_link nodes
  poolFree,          \* free pages
  nextMsg,           \* next message id
  accepted, delivered, live,
  hung               \* the function spinning on registered_services, or Running

vars == <<queue, nextQ, service_registry, service_count, next, prev, lists,
          poolFree, nextMsg, accepted, delivered, live, hung>>

S == [queue |-> queue, nextQ |-> nextQ, service_registry |-> service_registry,
      service_count |-> service_count, next |-> next, prev |-> prev, lists |-> lists,
      poolFree |-> poolFree, nextMsg |-> nextMsg, accepted |-> accepted,
      delivered |-> delivered, live |-> live, hung |-> hung]

\* The max_messages of a queue.
Cap(q) == IF q = SysQ THEN SysCap ELSE ServiceCap

\* ipc_init (its memset of service_registry and the list_init calls).
Init ==
  /\ queue            = [q \in QIds |-> [msgs |-> <<>>, cur |-> 0]]
  /\ nextQ            = 1
  /\ service_registry = [i \in Slots |-> [name |-> NoName, handler |-> None, queue |-> Nil]]
  /\ service_count    = 0
  /\ next             = [i \in Slots |-> Nil]
  /\ prev             = [i \in Slots |-> Nil]
  /\ lists            = [l \in {"services"} |-> EmptyList]
  /\ poolFree         = PoolPages
  /\ nextMsg          = 1
  /\ accepted         = {}
  /\ delivered        = {}
  /\ live             = [n \in Names |-> None]
  /\ hung             = Running

(***************************************************************************)
(* The slots met walking registered_services from its head, and whether   *)
(* the walk ends: after MaxServices nodes without NULL it has entered a    *)
(* cycle and the code's loop never ends.                                   *)
(***************************************************************************)
ServiceWalk(s) == WalkFrom(s, s.lists["services"].head, MaxServices)

WalkEnds(s) ==
  LET w == ServiceWalk(s)
  IN  Len(w) < MaxServices \/ s.next[w[MaxServices]] = Nil

\* The first slot on the walk holding name, or Nil.
FindService(s, name) ==
  LET w    == ServiceWalk(s)
      hits == {i \in 1..Len(w) : s.service_registry[w[i]].name = name}
  IN  IF hits = {} THEN Nil ELSE w[Min(hits)]

\* The queue a service's messages go to: ipc_send_message sends to the
\* system queue when given NULL, which is what service_queue holds in a
\* slot whose queue was never created.
QueueOf(s, i) ==
  IF s.service_registry[i].queue = Nil THEN SysQ ELSE s.service_registry[i].queue

\* Queues a caller can name: the system queue and the queue of every
\* service on registered_services.
Dests(s) ==
  {SysQ} \cup {QueueOf(s, ServiceWalk(s)[k]) : k \in 1..Len(ServiceWalk(s))}

\* service_count is a uint32 kept signed: a negative v stands for 2^32 + v.
CountBelow(c, m) == c >= 0 /\ c < m

(***************************************************************************)
(* create_message(len): a page for the message, or NULL when none is left *)
(* (lengths over 1024 never reach it: the caller rejects them first).      *)
(* Returns <<state, whether a message was made>>; the message made is      *)
(* [id |-> s.nextMsg, len |-> len].                                        *)
(***************************************************************************)
CreateMessage(s, len) ==
  IF s.poolFree = 0 THEN <<s, FALSE>>
  ELSE <<[s EXCEPT !.poolFree = @ - 1, !.nextMsg = @ + 1], TRUE>>

\* Mutation variant: the capacity test lets one message too many in.
SendOverCap(s, dest, len) ==
  LET m == [id |-> s.nextMsg, len |-> len]
      c == CreateMessage(s, len)
  IN  IF ~c[2] THEN <<s, FALSE>>
      ELSE IF s.queue[dest].cur <= Cap(dest)
      THEN <<[c[1] EXCEPT !.queue[dest] = [msgs |-> Append(@.msgs, m), cur |-> @.cur + 1],
                          !.accepted = @ \cup {m.id}], TRUE>>
      ELSE <<c[1], FALSE>>

(***************************************************************************)
(* ipc_send_message(dest, len): create the message, then append it to the *)
(* destination if it has room; otherwise -1 is returned and the message's *)
(* page is kept by no one.  Returns <<state, result = 0>>.                 *)
(***************************************************************************)
SendMessage(s, dest, len) ==
  LET m == [id |-> s.nextMsg, len |-> len]
      c == CreateMessage(s, len)
  IN  IF ~c[2] THEN <<s, FALSE>>
      ELSE IF s.queue[dest].cur < Cap(dest)
      THEN <<[c[1] EXCEPT !.queue[dest] = [msgs |-> Append(@.msgs, m), cur |-> @.cur + 1],
                          !.accepted = @ \cup {m.id}], TRUE>>
      ELSE <<c[1], FALSE>>

(***************************************************************************)
(* ipc_receive_message(src, buflen): the busy wait cannot see a message    *)
(* arrive (nothing else runs meanwhile), so an empty queue returns -1.     *)
(* Otherwise the head is unlinked and counted out, then the buffer is      *)
(* checked: too small returns -1 with the message dropped and its page     *)
(* kept; else the page is freed and the message delivered.                 *)
(***************************************************************************)
ReceiveMessage(s, src, buflen) ==
  LET m  == Head(s.queue[src].msgs)
      s1 == [s EXCEPT !.queue[src] = [msgs |-> Tail(@.msgs), cur |-> @.cur - 1]]
  IN  IF s.queue[src].msgs = <<>> THEN s
      ELSE IF buflen < m.len THEN s1
      ELSE [s1 EXCEPT !.poolFree = @ + 1, !.delivered = @ \cup {m.id}]

(***************************************************************************)
(* ipc_create_queue: it takes a page, initializes a queue in it and       *)
(* returns 0, but keeps the page nowhere.  Returns <<state, result = 0>>.  *)
(***************************************************************************)
\* Mutation variant: the page from pmm_alloc_page is not tested for NULL.
CreateQueueNoCheck(s) == <<[s EXCEPT !.poolFree = @ - 1], TRUE>>

CreateQueue(s) ==
  IF s.poolFree = 0 THEN <<s, FALSE>> ELSE <<[s EXCEPT !.poolFree = @ - 1], TRUE>>

(***************************************************************************)
(* ipc_register_service(name, handler): refuse when service_count is at    *)
(* MAX_SERVICES or the name is in slots 0..service_count-1; otherwise      *)
(* write slot service_count; if ipc_create_queue succeeds, a second page   *)
(* becomes the service queue, or the system queue when none is left (when  *)
(* it fails the slot keeps the queue it had); link the slot's node at the  *)
(* tail of registered_services and count it.                               *)
(***************************************************************************)
Register(s, name, handler) ==
  LET i  == s.service_count
      s1 == [s EXCEPT !.service_registry[i].name = name,
                      !.service_registry[i].handler = handler]
      c  == CreateQueue(s1)
      a  == c[1]
      s2 == IF ~c[2] THEN s1
            ELSE IF a.poolFree = 0 THEN [a EXCEPT !.service_registry[i].queue = SysQ]
            ELSE [a EXCEPT !.poolFree = @ - 1, !.nextQ = @ + 1,
                           !.service_registry[i].queue = a.nextQ,
                           !.queue[a.nextQ] = [msgs |-> <<>>, cur |-> 0]]
  IN  IF ~CountBelow(s.service_count, MaxServices) THEN s
      ELSE IF \E j \in 0..(s.service_count - 1) : s.service_registry[j].name = name THEN s
      ELSE [ListAddTail(s2, "services", i) EXCEPT !.service_count = @ + 1,
                                                  !.live[name] = handler]

\* ipc_destroy_queue walks the queue's messages and frees none of them.
DestroyQueue(s, q) == s

(***************************************************************************)
(* ipc_unregister_service(name): the first slot on registered_services     *)
(* with that name is unlinked, its queue "destroyed" (ipc_destroy_queue    *)
(* walks the messages and frees nothing) and service_count drops; the slot *)
(* itself is left as it is.                                                *)
(***************************************************************************)
Unregister(s, name) ==
  LET t == FindService(s, name)
  IN  IF t # Nil
      THEN [DestroyQueue(ListRemove(s, "services", t), s.service_registry[t].queue)
              EXCEPT !.service_count = @ - 1, !.live[name] = None]
      ELSE IF WalkEnds(s) THEN s
      ELSE [s EXCEPT !.hung = "unregister"]

\* ipc_lookup_service(name) changes nothing, unless its walk never ends.
Lookup(s, name) ==
  IF FindService(s, name) = Nil /\ ~WalkEnds(s) THEN [s EXCEPT !.hung = "lookup"] ELSE s

(***************************************************************************)
(* ipc_broadcast_message(len): a send to the system queue, then one to the *)
(* queue of each service met walking registered_services.                  *)
(***************************************************************************)
Broadcast(s, len) ==
  LET s1 == SendMessage(s, SysQ, len)[1]
      s2 == FoldLeft(LAMBDA acc, i : SendMessage(acc, QueueOf(acc, i), len)[1], s1,
                    ServiceWalk(s))
  IN  IF WalkEnds(s) THEN s2 ELSE [s2 EXCEPT !.hung = "broadcast"]

-----------------------------------------------------------------------------
WithinBounds(r) ==
  /\ r.nextMsg <= MaxMsgId + 1
  /\ r.nextQ <= MaxQueues + 1
  /\ r.lists["services"].count <= MaxListCount
  /\ r.service_count >= -MaxCountWrap

Apply(r) ==
  /\ hung = Running
  /\ WithinBounds(r)
  /\ queue' = r.queue /\ nextQ' = r.nextQ /\ service_registry' = r.service_registry
  /\ service_count' = r.service_count /\ next' = r.next /\ prev' = r.prev
  /\ lists' = r.lists /\ poolFree' = r.poolFree /\ nextMsg' = r.nextMsg
  /\ accepted' = r.accepted /\ delivered' = r.delivered /\ live' = r.live
  /\ hung' = r.hung

IpcSend       == \E d \in Dests(S), len \in MsgLens : Apply(SendMessage(S, d, len)[1])
IpcReceive    == \E q \in Dests(S), b \in BufLens : Apply(ReceiveMessage(S, q, b))
IpcRegister   == \E n \in Names, h \in Handlers : Apply(Register(S, n, h))
IpcUnregister == \E n \in Names : Apply(Unregister(S, n))
IpcLookup     == \E n \in Names : Apply(Lookup(S, n))
IpcBroadcast  == \E len \in MsgLens : Apply(Broadcast(S, len))

Next ==
  \/ IpcSend
  \/ IpcReceive
  \/ IpcRegister
  \/ IpcUnregister
  \/ IpcLookup
  \/ IpcBroadcast

Spec == Init /\ [][Next]_vars

-----------------------------------------------------------------------------
TypeOK ==
  /\ queue \in [QIds -> [msgs : Seq(Msg), cur : Nat]]
  /\ nextQ \in 1..(MaxQueues + 1)
  /\ service_registry \in [Slots -> [name : Names \cup {NoName},
                                     handler : Handlers \cup {None},
                                     queue : QIds \cup {Nil}]]
  /\ service_count \in -MaxCountWrap..MaxServices
  /\ poolFree \in 0..PoolPages
  /\ nextMsg \in 1..(MaxMsgId + 1)
  /\ accepted \subseteq 1..MaxMsgId /\ delivered \subseteq 1..MaxMsgId
  /\ live \in [Names -> Handlers \cup {None}]
  /\ hung \in {Running, "lookup", "unregister", "broadcast"}


\* Every queue's current_messages is the length of its message list and
\* stays within max_messages: ipc_send_message tests the counter before it
\* links, and ipc_receive_message counts out every message it unlinks, on
\* the buffer-too-small path as well.
QueueCountsMatch ==
  \A q \in QIds : queue[q].cur = Len(queue[q].msgs) /\ queue[q].cur <= Cap(q)

\* Spec 4.5: every message ipc_send_message accepted (returned 0 for) is
\* either still queued or was handed to a caller by ipc_receive_message;
\* a receive whose buffer is too small must fail without consuming it.
NoMessageLost ==
  \A id \in accepted :
    id \in delivered \/ \E q \in QIds : \E i \in 1..Len(queue[q].msgs) : queue[q].msgs[i].id = id

\* Spec 4.5: a name registered (and not unregistered since) is found by
\* ipc_lookup_service's walk, with the handler it was registered with,
\* whatever registrations and unregistrations of other names came between
\* (ipc_register_service writes slot service_count, which unregister only
\* decrements).
RegisteredServicesFindable ==
  \A n \in Names : live[n] # None =>
    /\ WalkEnds(S)
    /\ FindService(S, n) # Nil
    /\ service_registry[FindService(S, n)].handler = live[n]

=============================================================================
