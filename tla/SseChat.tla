------------------------------- MODULE SseChat -------------------------------
(***************************************************************************)
(* The event stream of one room (SseChatServlet): GET /sse/chat subscribes *)
(* a client with an AsyncContext, POST /sse/chat writes a message to every *)
(* subscribed client.                                                      *)
(*                                                                         *)
(* A request occupies one of the container's threads until doGet or doPost *)
(* returns; the response of an asynchronous GET stays open without one.    *)
(* The subscribers are a CopyOnWriteArrayList: a broadcast iterates over   *)
(* the list as it was when it began, and writes under the lock of the      *)
(* client's writer.  A PrintWriter never throws; when a write fails, the   *)
(* container reports the error to the listener of the AsyncContext, once   *)
(* doGet has returned.  The heartbeat is sent to a room without clients    *)
(* and changes nothing.                                                    *)
(***************************************************************************)
EXTENDS FiniteSets, SequencesExt

CONSTANTS
  Clients,     \* GET requests
  Posts,       \* POST requests
  MaxThreads,  \* size of the container's thread pool: 200
  NULL

Requests == Clients \cup Posts

ASSUME RequestAssumption == Clients \cap Posts = {} /\ NULL \notin Requests

VARIABLES
  roomClients,  \* the room's list of clients
  pc,           \* what the thread of a request does next
  todo,         \* the clients its broadcast still has to write to
  lock,         \* the request that holds the lock of a client's writer
  gone,         \* clients that do not read any more
  broken,       \* clients a write to which has failed
  got,          \* messages and joins a client received
  before        \* history variable: the clients when a broadcast began

vars == <<roomClients, pc, todo, lock, gone, broken, got, before>>

ThreadPcs == {"add", "announce", "cast", "listen"}
Pcs == {"waiting", "refused", "open", "done", "ended"} \cup ThreadPcs

Init ==
  /\ roomClients = <<>>
  /\ pc = [q \in Requests |-> "waiting"]
  /\ todo = [q \in Requests |-> <<>>]
  /\ lock = [c \in Clients |-> NULL]
  /\ gone = {}
  /\ broken = {}
  /\ got = [c \in Clients |-> {}]
  /\ before = [q \in Requests |-> {}]

-----------------------------------------------------------------------------
Goto(q, label) == pc' = [pc EXCEPT ![q] = label]

Busy == {q \in Requests : pc[q] \in ThreadPcs}

\* A free thread takes the request up.
Accept(q) ==
  /\ pc[q] = "waiting"
  /\ Cardinality(Busy) < MaxThreads
  /\ Goto(q, IF q \in Clients THEN "add" ELSE "announce")
  /\ UNCHANGED <<roomClients, todo, lock, gone, broken, got, before>>

\* The token or a parameter is missing or invalid.
Refuse(q) ==
  /\ pc[q] \in {"add", "announce"} /\ q \notin ToSet(roomClients)
  /\ Goto(q, "refused")
  /\ UNCHANGED <<roomClients, todo, lock, gone, broken, got, before>>

\* startAsync, and the client joins the list.
Add(c) ==
  /\ pc[c] = "add"
  /\ roomClients' = Append(roomClients, c)
  /\ Goto(c, "announce")
  /\ UNCHANGED <<todo, lock, gone, broken, got, before>>

-----------------------------------------------------------------------------
(* broadcastToRoom, of a message or of the join.                           *)

StartCast(q) ==
  /\ pc[q] = "announce"
  /\ todo' = [todo EXCEPT ![q] = roomClients]
  /\ before' = [before EXCEPT ![q] = ToSet(roomClients)]
  /\ Goto(q, "cast")
  /\ UNCHANGED <<roomClients, lock, gone, broken, got>>

\* synchronized (client.writer) of the next client.
BeginWrite(q) ==
  /\ pc[q] = "cast" /\ todo[q] # <<>>
  /\ lock[Head(todo[q])] = NULL
  /\ lock' = [lock EXCEPT ![Head(todo[q])] = q]
  /\ UNCHANGED <<roomClients, pc, todo, gone, broken, got, before>>

\* MUTANT: the exception of a failed write ends the broadcast.
EndWriteThrows(q) ==
  /\ pc[q] = "cast" /\ todo[q] # <<>> /\ lock[Head(todo[q])] = q
  /\ LET c == Head(todo[q])
     IN  /\ lock' = [lock EXCEPT ![c] = NULL]
         /\ IF c \in gone \cup broken
              THEN /\ broken' = broken \cup {c}
                   /\ todo' = [todo EXCEPT ![q] = <<>>]
                   /\ UNCHANGED got
              ELSE /\ got' = [got EXCEPT ![c] = @ \cup {q}]
                   /\ todo' = [todo EXCEPT ![q] = Tail(@)]
                   /\ UNCHANGED broken
  /\ UNCHANGED <<roomClients, pc, gone, before>>

\* write and flush return, having failed if the client is gone; what is written
\* to a broken response is dropped.
EndWrite(q) ==
  /\ pc[q] = "cast" /\ todo[q] # <<>> /\ lock[Head(todo[q])] = q
  /\ LET c == Head(todo[q])
     IN  /\ lock' = [lock EXCEPT ![c] = NULL]
         /\ IF c \in gone \cup broken
              THEN broken' = broken \cup {c} /\ UNCHANGED got
              ELSE got' = [got EXCEPT ![c] = @ \cup {q}] /\ UNCHANGED broken
  /\ todo' = [todo EXCEPT ![q] = Tail(@)]
  /\ UNCHANGED <<roomClients, pc, gone, before>>

EndCast(q) ==
  /\ pc[q] = "cast" /\ todo[q] = <<>>
  /\ Goto(q, IF q \in Clients THEN "listen" ELSE "done")
  /\ UNCHANGED <<roomClients, todo, lock, gone, broken, got, before>>

-----------------------------------------------------------------------------
(* The end of a subscription.                                              *)

\* MUTANT: doGet waits for the end of the stream.
ListenHolds(c) ==
  /\ pc[c] = "listen" /\ c \in broken
  /\ Goto(c, "open")
  /\ UNCHANGED <<roomClients, todo, lock, gone, broken, got, before>>

\* MUTANT: the client is added where the listener is, too.
ListenAdds(c) ==
  /\ pc[c] = "listen"
  /\ roomClients' = Append(roomClients, c)
  /\ Goto(c, "open")
  /\ UNCHANGED <<todo, lock, gone, broken, got, before>>

\* addListener, and doGet returns.
Listen(c) ==
  /\ pc[c] = "listen"
  /\ Goto(c, "open")
  /\ UNCHANGED <<roomClients, todo, lock, gone, broken, got, before>>

\* The client closes the stream, or stops reading for longer than the container
\* lets a write wait.
Leave(c) ==
  /\ pc[c] \notin {"waiting", "refused", "ended"}
  /\ gone' = gone \cup {c}
  /\ UNCHANGED <<roomClients, pc, todo, lock, broken, got, before>>

\* MUTANT: onError is left empty.
ErrorIgnored(c) ==
  /\ pc[c] = "open" /\ c \in broken
  /\ Goto(c, "ended")
  /\ UNCHANGED <<roomClients, todo, lock, gone, broken, got, before>>

\* onError, and onComplete after it: removeClient.
OnError(c) ==
  /\ pc[c] = "open" /\ c \in broken
  /\ roomClients' = RemoveFirst(roomClients, c)
  /\ Goto(c, "ended")
  /\ UNCHANGED <<todo, lock, gone, broken, got, before>>

-----------------------------------------------------------------------------
Step(q) == \/ Accept(q) \/ StartCast(q) \/ BeginWrite(q) \/ EndWrite(q)
           \/ EndCast(q)
           \/ q \in Clients /\ (Add(q) \/ Listen(q) \/ OnError(q))

Next == \/ \E q \in Requests : Step(q) \/ Refuse(q)
        \/ \E c \in Clients : Leave(c)

Spec == Init /\ [][Next]_vars

\* A request that waits gets a thread that stays free, a lock that is free is
\* given to a thread that waits for it again and again, and threads run on.
Fairness == \A q \in Requests : WF_vars(Step(q)) /\ SF_vars(BeginWrite(q))

FairSpec == Spec /\ Fairness

-----------------------------------------------------------------------------
(* Properties.                                                             *)

\* The variables hold what the Java declarations and the control allow.
TypeOK ==
  /\ roomClients \in Seq(Clients) /\ IsInjective(roomClients)
  /\ pc \in [Requests -> Pcs]
  /\ todo \in [Requests -> Seq(Clients)]
  /\ lock \in [Clients -> Requests \cup {NULL}]
  /\ gone \subseteq Clients /\ broken \subseteq gone
  /\ got \in [Clients -> SUBSET Requests]
  /\ before \in [Requests -> SUBSET Clients]

\* A client that fails during a broadcast costs nobody else the message: who was
\* subscribed when the broadcast began has it in the end, or is broken itself.
Delivered == \A q \in Requests : pc[q] \in {"listen", "open", "done", "ended"} =>
  \A c \in before[q] : q \in got[c] \/ c \in broken

\* A client that a write failed to, even the write of its own join, which comes
\* before the listener is there, leaves the list.
BrokenIsRemoved == \A c \in Clients : c \in broken ~> c \notin ToSet(roomClients)

\* More subscribers than threads do not keep a message from being handled:
\* a subscription gives its thread back.
PostsEnd == \A p \in Posts : pc[p] = "waiting" ~> pc[p] \in {"done", "refused"}
==============================================================================
