------------------------------- MODULE ApiProxy -------------------------------
(***************************************************************************)
(* forward_websocket of api_proxy.py, between a client and handle_stream.  *)
(* Two pumps forward messages, one in each direction; the first to end     *)
(* cancels the other, and then both connections are closed.  The client,   *)
(* the service and the network are the environment: the service listens    *)
(* until it has read a commit and ends on its own (streaming.py).          *)
(***************************************************************************)
EXTENDS Integers, Sequences, FiniteSets

CONSTANTS
    MaxSaid,    \* messages of the client and of the service
    Window      \* messages a connection takes before a send has to wait

ASSUME MaxSaidAssumption == MaxSaid \in Nat
ASSUME WindowAssumption == Window \in Nat \ {0}

VARIABLES
    handler,    \* where forward_websocket is
    pump,       \* the two tasks: "up" is client_to_upstream, "down" upstream_to_client
    upstream,   \* the connection to the service: "none", "open" or "closed"
    inbox,      \* what websocket.receive() is to return
    buffer,     \* what iterating over upstream is to return
    toService, toClient,    \* what has been sent and not read
    client, service,        \* the peers
    said, heard \* history: the messages each has sent, counted, and those it has got

links == <<inbox, buffer, toService, toClient>>
history == <<said, heard>>
vars == <<handler, pump, upstream, links, client, service, history>>

Message == [kind : {"audio", "commit", "event"}, n : 1..MaxSaid]
Just(kind) == [kind |-> kind, n |-> 0]
Leave == Just("websocket.disconnect")
Bye == Just("close")
Errors == {Just("invalid_api_key"), Just("upstream_unavailable")}
Nothing == Just("nothing")
Pumps == {"up", "down"}
Ended(p) == pump[p].pc \in {"returned", "raised"}
Goes(p, pc, holds) == pump' = [pump EXCEPT ![p] = [pc |-> pc, holds |-> holds]]

Init ==
    /\ handler = "connecting"
    /\ pump = [p \in Pumps |-> [pc |-> "idle", holds |-> Nothing]]
    /\ upstream = "none"
    /\ inbox = <<>> /\ buffer = <<>> /\ toService = <<>> /\ toClient = <<>>
    /\ client = "there" /\ service = "absent"
    /\ said = [client |-> 0, service |-> 0]
    /\ heard = [client |-> <<>>, service |-> <<>>]

-----------------------------------------------------------------------------
(* The handler.                                                              *)

\* The service accepts, and the client is accepted then, which is taken to succeed.
Connected ==
    /\ handler = "connecting"
    /\ handler' = "waiting"
    /\ upstream' = "open" /\ service' = "listening"
    /\ pump' = [p \in Pumps |-> [pc |-> "receive", holds |-> Nothing]]
    /\ UNCHANGED <<links, client, history>>

\* It does not, within ten seconds: the client is accepted to be told why.
Refused ==
    /\ handler = "connecting"
    /\ \E e \in Errors : toClient' = <<e, Bye>>
    /\ handler' = "returned"
    /\ UNCHANGED <<pump, upstream, inbox, buffer, toService, client, service, history>>

\* asyncio.wait returns: the task still pending is cancelled, with what it holds.
FirstCompleted ==
    /\ handler = "waiting"
    /\ \E p \in Pumps : Ended(p)
    /\ handler' = "ending"
    /\ pump' = [p \in Pumps |-> IF Ended(p) THEN pump[p] ELSE [pc |-> "cancelled", holds |-> Nothing]]
    /\ UNCHANGED <<upstream, links, client, service, history>>

\* upstream.close(), which gives the service five seconds.
CloseUpstream ==
    /\ handler = "ending"
    /\ handler' = "closing"
    /\ IF upstream = "open"
       THEN upstream' = "closed" /\ toService' = Append(toService, Bye)
       ELSE UNCHANGED <<upstream, toService>>
    /\ UNCHANGED <<pump, inbox, buffer, toClient, client, service, history>>

\* websocket.close(), whatever the code the service closed with.
CloseClient ==
    /\ handler = "closing"
    /\ handler' = "returned"
    /\ toClient' = Append(toClient, Bye)
    /\ UNCHANGED <<pump, upstream, inbox, buffer, toService, client, service, history>>

-----------------------------------------------------------------------------
(* The pumps.  Either may go on until the handler has cancelled it.          *)

Pumping == UNCHANGED <<handler, upstream, client, service, history>>

\* Fault: the end of a client is not told from an empty message.
UpReceiveIgnoresLeave ==
    /\ pump["up"].pc = "receive" /\ inbox # <<>>
    /\ inbox' = Tail(inbox)
    /\ IF Head(inbox) = Leave THEN UNCHANGED pump ELSE Goes("up", "send", Head(inbox))
    /\ Pumping /\ UNCHANGED <<buffer, toService, toClient>>

UpReceive ==
    /\ pump["up"].pc = "receive" /\ inbox # <<>>
    /\ inbox' = Tail(inbox)
    /\ IF Head(inbox) = Leave THEN Goes("up", "returned", Nothing) ELSE Goes("up", "send", Head(inbox))
    /\ Pumping /\ UNCHANGED <<buffer, toService, toClient>>

\* The service may have gone: the send raises, and nobody looks at what was raised.
UpSend ==
    /\ pump["up"].pc = "send"
    /\ IF upstream = "closed"
       THEN Goes("up", "raised", Nothing) /\ UNCHANGED toService
       ELSE /\ Len(toService) < Window
            /\ toService' = Append(toService, pump["up"].holds)
            /\ Goes("up", "receive", Nothing)
    /\ Pumping /\ UNCHANGED <<inbox, buffer, toClient>>

\* Fault: a closed connection ends the loop, with messages still to be read.
DownReceiveWhileOpen ==
    /\ pump["down"].pc = "receive"
    /\ IF upstream = "closed"
       THEN Goes("down", "returned", Nothing) /\ UNCHANGED buffer
       ELSE buffer # <<>> /\ Goes("down", "send", Head(buffer)) /\ buffer' = Tail(buffer)
    /\ Pumping /\ UNCHANGED <<inbox, toService, toClient>>

\* Messages that have come are read before the end of the connection is noticed.
DownReceive ==
    /\ pump["down"].pc = "receive"
    /\ IF buffer # <<>>
       THEN Goes("down", "send", Head(buffer)) /\ buffer' = Tail(buffer)
       ELSE upstream = "closed" /\ Goes("down", "returned", Nothing) /\ UNCHANGED buffer
    /\ Pumping /\ UNCHANGED <<inbox, toService, toClient>>

\* Fault: what a slow client cannot take now is passed over.
DownSendDrops ==
    /\ pump["down"].pc = "send"
    /\ IF client = "left" \/ Len(toClient) >= Window
       THEN UNCHANGED toClient
       ELSE toClient' = Append(toClient, pump["down"].holds)
    /\ Goes("down", "receive", Nothing)
    /\ Pumping /\ UNCHANGED <<inbox, buffer, toService>>

\* A client that has left makes the send raise as soon as that is known.
DownSend ==
    /\ pump["down"].pc = "send"
    /\ \/ /\ client = "left"
          /\ Goes("down", "raised", Nothing) /\ UNCHANGED toClient
       \/ /\ Len(toClient) < Window \/ client = "left"
          /\ toClient' = IF client = "left" THEN toClient ELSE Append(toClient, pump["down"].holds)
          /\ Goes("down", "receive", Nothing)
    /\ Pumping /\ UNCHANGED <<inbox, buffer, toService>>

-----------------------------------------------------------------------------
(* The peers.                                                                *)

Outside == UNCHANGED <<handler, pump>>

ClientSays ==
    /\ client = "there" /\ handler # "connecting" /\ said.client < MaxSaid
    /\ said' = [said EXCEPT !.client = @ + 1]
    /\ \E kind \in {"audio", "commit"} : inbox' = Append(inbox, [kind |-> kind, n |-> said'.client])
    /\ Outside /\ UNCHANGED <<upstream, buffer, toService, toClient, client, service, heard>>

ClientLeaves ==
    /\ client = "there"
    /\ client' = "left"
    /\ inbox' = Append(inbox, Leave) /\ toClient' = <<>>
    /\ Outside /\ UNCHANGED <<upstream, buffer, toService, service, history>>

ClientReads ==
    /\ client = "there" /\ toClient # <<>>
    /\ toClient' = Tail(toClient)
    /\ IF Head(toClient) = Bye
       THEN client' = "told" /\ UNCHANGED heard
       ELSE heard' = [heard EXCEPT !.client = Append(@, Head(toClient).n)] /\ UNCHANGED client
    /\ Outside /\ UNCHANGED <<upstream, inbox, buffer, toService, service, said>>

\* handle_stream reads until it has read a commit or the end.
ServiceReads ==
    /\ service = "listening" /\ toService # <<>>
    /\ toService' = Tail(toService)
    /\ IF Head(toService) = Bye
       THEN service' = "done" /\ UNCHANGED heard
       ELSE /\ heard' = [heard EXCEPT !.service = Append(@, Head(toService).n)]
            /\ service' = IF Head(toService).kind = "commit" THEN "committed" ELSE "listening"
    /\ Outside /\ UNCHANGED <<upstream, inbox, buffer, toClient, client, said>>

ServiceSays ==
    /\ service \in {"listening", "committed"} /\ upstream = "open" /\ said.service < MaxSaid
    /\ said' = [said EXCEPT !.service = @ + 1]
    /\ buffer' = Append(buffer, [kind |-> "event", n |-> said'.service])
    /\ Outside /\ UNCHANGED <<upstream, inbox, toService, toClient, client, service, heard>>

\* After its final, an error or a reset.
ServiceCloses ==
    /\ service \in {"listening", "committed"}
    /\ service' = "done" /\ upstream' = "closed"
    /\ Outside /\ UNCHANGED <<links, client, history>>

\* The connection to the service is lost, or its keepalive is not answered.
UpstreamBreaks ==
    /\ upstream = "open"
    /\ upstream' = "closed"
    /\ toService' = <<Bye>>
    /\ Outside /\ UNCHANGED <<inbox, buffer, toClient, client, service, history>>

Next ==
    \/ Connected \/ Refused \/ FirstCompleted \/ CloseUpstream \/ CloseClient
    \/ UpReceive \/ UpSend \/ DownReceive \/ DownSend
    \/ ClientSays \/ ClientLeaves \/ ClientReads
    \/ ServiceReads \/ ServiceSays \/ ServiceCloses \/ UpstreamBreaks

Spec == Init /\ [][Next]_vars

(* What can run runs, the connection is made or refused in time, a client     *)
(* that stays reads what it gets, and the service reads while it listens and  *)
(* ends once it has a commit (StreamSession!CommitEnds).                      *)
Fairness ==
    /\ WF_vars(Connected \/ Refused) /\ WF_vars(FirstCompleted)
    /\ WF_vars(CloseUpstream) /\ WF_vars(CloseClient)
    /\ WF_vars(UpReceive) /\ WF_vars(UpSend) /\ WF_vars(DownReceive) /\ WF_vars(DownSend)
    /\ WF_vars(ClientReads) /\ WF_vars(ServiceReads) /\ WF_vars(service = "committed" /\ ServiceCloses)

LiveSpec == Spec /\ Fairness

-----------------------------------------------------------------------------
(* Properties.                                                               *)

\* Every variable of the proxy and its peers keeps its type.
TypeOK ==
    /\ handler \in {"connecting", "waiting", "ending", "closing", "returned"}
    /\ upstream \in {"none", "open", "closed"}
    /\ client \in {"there", "left", "told"}
    /\ service \in {"absent", "listening", "committed", "done"}
    /\ inbox \in Seq(Message \cup {Leave}) /\ toService \in Seq(Message \cup {Bye})

OneTo(n) == [i \in 1..n |-> i]

\* What each peer has got is what the other has said, from the first on and without a gap,
\* whichever pump was cancelled and whatever it was holding then.
NoGaps ==
    /\ heard.service = OneTo(Len(heard.service))
    /\ upstream # "none" => heard.client = OneTo(Len(heard.client))

\* When the proxy is through with a client that has stayed, all that the service said is on
\* its way to it, though the other pump, or the close of the service, may come first; unless
\* the client went on talking to a service that was gone.
AnswersArrive ==
    handler \in {"ending", "closing", "returned"} /\ client = "there" /\ upstream # "none"
        /\ pump["up"].pc # "raised"
    => Len(heard.client) + Cardinality({i \in DOMAIN toClient : toClient[i] # Bye}) = said.service

\* Whoever ends first, the other is told: a client that leaves gives back the slot of its
\* session, and one that stays does not wait for a service that is gone.
EndsAreTold ==
    /\ client = "left" ~> service \in {"absent", "done"} /\ handler = "returned"
    /\ service = "done" ~> client # "there"
=============================================================================
