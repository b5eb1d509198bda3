----------------------------- MODULE MultiService -----------------------------
(***************************************************************************)
(* Service calls (service.hpp): a MultiServiceManager in one process and   *)
(* the calls that a MultiServiceClient in another makes to it, each on a   *)
(* connection of its own.                                                  *)
(*                                                                         *)
(* In the client, call() runs in a user thread per call, under mutex_,     *)
(* while the poll thread runs ServiceResponseT::call and onDisconnect.  In *)
(* the server the poll thread accepts and answers while the main thread    *)
(* is still binding methods (Master::start, TopicManager::init: init()     *)
(* comes first, and the poll thread is already running).  The handlers of  *)
(* the server hold its mutex_ from end to end, so each is one step.        *)
(*                                                                         *)
(* A connection may be refused or break at any time, with or without what  *)
(* is under way on it.  How its bytes and its end reach the poll threads   *)
(* is the subject of modules TransportTCP and PollSet.                     *)
(***************************************************************************)
EXTENDS Naturals, Sequences

CONSTANTS
  Calls,          \* calls, one user thread and one connection each
  Methods,        \* the methods in the order they are bound
  Method,         \* the method of each call
  Poller,         \* the client's poll thread
  Nobody          \* no holder of mutex_

ASSUME MultiServiceAssumption ==
  /\ Poller \notin Calls /\ Nobody \notin Calls \cup {Poller}
  /\ Methods \in Seq({Methods[k] : k \in DOMAIN Methods})
  /\ \A c \in Calls : \E k \in DOMAIN Methods : Methods[k] = Method[c]

VARIABLES
  \* the server
  listening,      \* init() has been called
  bound,          \* methods bound so far
  connections,    \* connections_
  accepted,       \* connections that have been accepted
  \* the connection of each call
  link,           \* "up", "broken" by the peer or the network, "closed" by the client
  request,        \* "none", "sent", "answered" or "dropped"
  response,       \* a response waits to be read
  \* the client
  mutex,          \* holder of mutex_
  caller,         \* where each call() is
  msg_cb, disconnect_cb,
  object,         \* the ServiceResponseT: "none", "live" or "deleted"
  outgoing_calls,
  poller,         \* where the poll thread is, and for which call
  answers,        \* calls of the user's resp_cb
  astray          \* "Couldn't find connection to erase", or a call on a deleted object

server == <<listening, bound, connections, accepted>>
wire == <<link, request, response>>
client == <<mutex, caller, msg_cb, disconnect_cb, object, outgoing_calls, poller, answers, astray>>
vars == <<server, wire, client>>

Idle == [at |-> "wait", call |-> Nobody]

TypeOK ==
  /\ listening \in BOOLEAN /\ bound \in 0..Len(Methods) /\ connections \subseteq accepted /\ accepted \subseteq Calls
  /\ link \in [Calls -> {"none", "up", "broken", "closed"}]
  /\ request \in [Calls -> {"none", "sent", "answered", "dropped"}]
  /\ response \in [Calls -> BOOLEAN]
  /\ mutex \in Calls \cup {Poller, Nobody}
  /\ caller \in [Calls -> {"idle", "connected", "locked", "msg", "disconnect", "sent", "done"}]
  /\ msg_cb \in [Calls -> BOOLEAN] /\ disconnect_cb \in [Calls -> BOOLEAN]
  /\ object \in [Calls -> {"none", "live", "deleted"}]
  /\ outgoing_calls \subseteq Calls
  /\ poller \in [at : {"wait", "close", "remove"}, call : Calls \cup {Nobody}]
  /\ answers \in [Calls -> Nat] /\ astray \in BOOLEAN

Init ==
  /\ listening = FALSE /\ bound = 0 /\ connections = {} /\ accepted = {}
  /\ link = [c \in Calls |-> "none"]
  /\ request = [c \in Calls |-> "none"] /\ response = [c \in Calls |-> FALSE]
  /\ mutex = Nobody /\ caller = [c \in Calls |-> "idle"]
  /\ msg_cb = [c \in Calls |-> FALSE] /\ disconnect_cb = [c \in Calls |-> FALSE]
  /\ object = [c \in Calls |-> "none"] /\ outgoing_calls = {}
  /\ poller = Idle /\ answers = [c \in Calls |-> 0] /\ astray = FALSE

-----------------------------------------------------------------------------
(***************************************************************************)
(* The server.                                                             *)
(***************************************************************************)

init ==
  /\ ~listening
  /\ listening' = TRUE
  /\ UNCHANGED <<bound, connections, accepted, wire, client>>

\* The next method; the methods of Master::start or TopicManager::init, one by one.
bindMethod ==
  /\ listening /\ bound < Len(Methods)
  /\ bound' = bound + 1
  /\ UNCHANGED <<listening, connections, accepted, wire, client>>

\* A connection may already have ended when it is accepted.
onAccept(c) ==
  /\ listening /\ link[c] # "none" /\ c \notin accepted
  /\ accepted' = accepted \cup {c} /\ connections' = connections \cup {c}
  /\ UNCHANGED <<listening, bound, wire, client>>

\* A request is answered on its connection, or dropped with a warning when nothing is bound
\* to its method.
onReceive(c) ==
  /\ c \in connections /\ request[c] = "sent"
  /\ \/ /\ \E k \in 1..bound : Methods[k] = Method[c]
        /\ request' = [request EXCEPT ![c] = "answered"]
        /\ response' = [response EXCEPT ![c] = link[c] = "up"]
     \/ /\ \A k \in 1..bound : Methods[k] # Method[c]
        /\ request' = [request EXCEPT ![c] = "dropped"]
        /\ UNCHANGED response
  /\ UNCHANGED <<server, link, client>>

\* The end of a connection.
serverOnDisconnect(c) ==
  /\ c \in connections /\ link[c] # "up"
  /\ connections' = connections \ {c}
  /\ UNCHANGED <<listening, bound, accepted, wire, client>>

-----------------------------------------------------------------------------
(***************************************************************************)
(* The client: call().                                                     *)
(***************************************************************************)

Goto(c, at) == caller' = [caller EXCEPT ![c] = at]

\* connect(), which hands the connection to the poll thread.
connect(c) ==
  /\ caller[c] = "idle" /\ listening
  /\ Goto(c, "connected") /\ link' = [link EXCEPT ![c] = "up"]
  /\ UNCHANGED <<server, request, response, mutex, msg_cb, disconnect_cb, object, outgoing_calls,
                 poller, answers, astray>>

\* A call() that does not take mutex_.
lockNot(c) ==
  /\ caller[c] = "connected"
  /\ Goto(c, "locked") /\ object' = [object EXCEPT ![c] = "live"]
  /\ UNCHANGED <<server, wire, mutex, msg_cb, disconnect_cb, outgoing_calls, poller, answers, astray>>

lock(c) ==
  /\ caller[c] = "connected" /\ mutex = Nobody
  /\ mutex' = c /\ Goto(c, "locked")
  /\ object' = [object EXCEPT ![c] = "live"]
  /\ UNCHANGED <<server, wire, msg_cb, disconnect_cb, outgoing_calls, poller, answers, astray>>

\* A call() that forgets to set the callback.
setMsgCallbackNot(c) ==
  /\ caller[c] = "locked"
  /\ Goto(c, "msg")
  /\ UNCHANGED <<server, wire, mutex, msg_cb, disconnect_cb, object, outgoing_calls, poller,
                 answers, astray>>

setMsgCallback(c) ==
  /\ caller[c] = "locked"
  /\ Goto(c, "msg") /\ msg_cb' = [msg_cb EXCEPT ![c] = TRUE]
  /\ UNCHANGED <<server, wire, mutex, disconnect_cb, object, outgoing_calls, poller, answers, astray>>

setDisconnectCallback(c) ==
  /\ caller[c] = "msg"
  /\ Goto(c, "disconnect") /\ disconnect_cb' = [disconnect_cb EXCEPT ![c] = TRUE]
  /\ UNCHANGED <<server, wire, mutex, msg_cb, object, outgoing_calls, poller, answers, astray>>

\* The request is sent, unless the connection has already ended.
sendFrames(c) ==
  /\ caller[c] = "disconnect"
  /\ Goto(c, "sent")
  /\ request' = [request EXCEPT ![c] = IF link[c] = "up" THEN "sent" ELSE @]
  /\ UNCHANGED <<server, link, response, mutex, msg_cb, disconnect_cb, object, outgoing_calls,
                 poller, answers, astray>>

\* outgoing_calls_.push_back, and the end of the lock.
enlist(c) ==
  /\ caller[c] = "sent"
  /\ Goto(c, "done") /\ outgoing_calls' = outgoing_calls \cup {c}
  /\ mutex' = IF mutex = c THEN Nobody ELSE mutex
  /\ UNCHANGED <<server, wire, msg_cb, disconnect_cb, object, poller, answers, astray>>

-----------------------------------------------------------------------------
(***************************************************************************)
(* The client: the poll thread.                                            *)
(***************************************************************************)

\* A ServiceResponseT::call that leaves the connection open.
onResponseKeeping(c) ==
  /\ poller = Idle /\ response[c] /\ link[c] # "closed" /\ msg_cb[c]
  /\ answers' = [answers EXCEPT ![c] = @ + 1]
  /\ response' = [response EXCEPT ![c] = FALSE]
  /\ UNCHANGED <<server, link, request, mutex, caller, msg_cb, disconnect_cb, object,
                 outgoing_calls, poller, astray>>

\* ServiceResponseT::call: hands the response to resp_cb and closes the connection.
onResponse(c) ==
  /\ poller = Idle /\ response[c] /\ link[c] # "closed" /\ msg_cb[c]
  /\ answers' = [answers EXCEPT ![c] = @ + 1]
  /\ astray' = (astray \/ object[c] # "live")
  /\ response' = [response EXCEPT ![c] = FALSE]
  /\ poller' = [at |-> "close", call |-> c]
  /\ UNCHANGED <<server, link, request, mutex, caller, msg_cb, disconnect_cb, object,
                 outgoing_calls>>

\* The connection has ended: read() or socketUpdate() closes it.
onBroken(c) ==
  /\ poller = Idle /\ link[c] = "broken"
  /\ poller' = [at |-> "close", call |-> c]
  /\ UNCHANGED <<server, wire, mutex, caller, msg_cb, disconnect_cb, object, outgoing_calls,
                 answers, astray>>

\* TransportTCP::close: takes disconnect_cb_ away and calls it if it was set.
close ==
  /\ poller.at = "close"
  /\ LET c == poller.call IN
       /\ link' = [link EXCEPT ![c] = "closed"]
       /\ disconnect_cb' = [disconnect_cb EXCEPT ![c] = FALSE]
       /\ poller' = IF disconnect_cb[c] THEN [at |-> "remove", call |-> c] ELSE Idle
  /\ UNCHANGED <<server, request, response, mutex, caller, msg_cb, object, outgoing_calls, answers,
                 astray>>


\* onDisconnect, removeConnection: deletes the call, under mutex_.
removeConnection ==
  /\ poller.at = "remove" /\ mutex = Nobody
  /\ LET c == poller.call IN
       /\ outgoing_calls' = outgoing_calls \ {c}
       /\ object' = [object EXCEPT ![c] = IF c \in outgoing_calls THEN "deleted" ELSE @]
       /\ astray' = (astray \/ c \notin outgoing_calls)
  /\ poller' = Idle
  /\ UNCHANGED <<server, wire, mutex, caller, msg_cb, disconnect_cb, answers>>

-----------------------------------------------------------------------------
\* External: the connection is refused, reset, or closed by the server's end.
LinkBreaks(c) ==
  /\ link[c] = "up"
  /\ link' = [link EXCEPT ![c] = "broken"]
  /\ UNCHANGED <<server, request, response, client>>

Call(c) ==
  \/ lock(c) \/ setMsgCallback(c) \/ setDisconnectCallback(c) \/ sendFrames(c) \/ enlist(c)

Poll ==
  \/ \E c \in Calls : onResponse(c) \/ onBroken(c)
  \/ close \/ removeConnection

Serve == \E c \in Calls : onAccept(c) \/ onReceive(c) \/ serverOnDisconnect(c)

Next ==
  \/ init \/ bindMethod \/ Serve \/ Poll
  \/ \E c \in Calls : connect(c) \/ Call(c) \/ LinkBreaks(c)

Spec == Init /\ [][Next]_vars

\* Every thread is scheduled: the main thread of the server, both poll threads, and the
\* user threads once they are in call().
FairSpec ==
  /\ Spec
  /\ WF_vars(bindMethod) /\ WF_vars(Poll)
  /\ \A c \in Calls : /\ WF_vars(Call(c))
                      /\ WF_vars(link[c] = "up" /\ onAccept(c))
                      /\ WF_vars(onReceive(c))

-----------------------------------------------------------------------------
\* The poll thread always finds the call whose connection ends, even when the response or
\* the end overtakes the push_back of call(), and never runs a ServiceResponseT that
\* removeConnection has deleted.  It is mutex_, held from before the callbacks are set
\* until after the push_back, that makes it so.
NeverAstray == ~astray

\* A call whose response has been handed over is forgotten and its object deleted.
AnsweredIsForgotten ==
  \A c \in Calls : answers[c] > 0 ~> (c \notin outgoing_calls /\ object[c] = "deleted")


\* An answer that the server has sent is handed to resp_cb, once, unless the connection
\* breaks.  A request that comes before its method is bound is not answered: see
\* SentIsAnswered.
BoundIsAnswered == \A c \in Calls : request[c] = "answered" ~> (answers[c] = 1 \/ link[c] # "up")

(***************************************************************************)
(* What one would expect and the code does not keep: not invariants.       *)
(* The README describes the behaviours that TLC finds against them.        *)
(***************************************************************************)

\* Transport::setDisconnectCallback: "Set the function to call when this transport has
\* disconnected".  A call whose connection has ended is taken off outgoing_calls_.
EndedIsForgotten ==
  \A c \in Calls : (link[c] = "closed" /\ caller[c] = "done") ~> c \notin outgoing_calls

\* A request that has been sent is answered, unless the connection breaks.
SentIsAnswered == \A c \in Calls : request[c] = "sent" ~> (answers[c] = 1 \/ link[c] # "up")
=============================================================================
