---------------------------- MODULE MCTransportTCP ----------------------------
(***************************************************************************)
(* The owners of a TransportTCP, with the calls that they make.            *)
(***************************************************************************)
EXTENDS TransportTCP, TLC

CONSTANTS u1, u2, u3

\* TCPPublish: two threads publish, a third one shuts down.
Publisher ==
  [script |-> u1 :> <<"sendMessage", "sendMessage">> @@ u2 :> <<"sendMessage", "sendMessage">>
                @@ u3 :> <<"close">>,
   readmsg_cb |-> "onOptions", accepted |-> TRUE]

\* TCPSubscribe::start in a thread of the application, as with StaticRegistration (with
\* MasterRegistration the poll thread calls it: module TCPSubscribe), and a thread that
\* shuts down.
Subscriber ==
  [script |-> u1 :> <<"setDisconnectCallback", "enableMessagePass", "enableRead",
                      "setMsgCallback", "sendMessage">>
                @@ u2 :> <<"close">> @@ u3 :> <<>>,
   readmsg_cb |-> "receive", accepted |-> FALSE]

\* MultiServiceClient::call.
Caller ==
  [script |-> u1 :> <<"lock", "enableMessagePass", "enableRead", "setMsgCallback",
                      "setDisconnectCallback", "sendMessage", "enlist", "unlock">>
                @@ u2 :> <<>> @@ u3 :> <<>>,
   readmsg_cb |-> "response", accepted |-> FALSE]

\* ServiceClient::call.
Client ==
  [script |-> u1 :> <<"enableMessagePass", "enableRead", "setMsgCallback", "sendMessage",
                      "wait">>
                @@ u2 :> <<>> @@ u3 :> <<>>,
   readmsg_cb |-> "onResponse", accepted |-> FALSE]

\* ServiceManager and MultiServiceManager, whose bind() takes mutex_ while requests arrive.
Server ==
  [script |-> u1 :> <<"lock", "unlock">> @@ u2 :> <<>> @@ u3 :> <<>>,
   readmsg_cb |-> "onReceive", accepted |-> TRUE]

AllOwners == {Publisher, Subscriber, Caller, Client, Server}
OneCaller == {Caller}
=============================================================================
