---------------------------- MODULE ApiProxyProofs ----------------------------
(***************************************************************************)
(* Proofs about the proxy of ApiProxy, for any number of messages and any  *)
(* window: what a peer has got is what the other said, without a gap, and  *)
(* a client that stays gets all that the service said.                     *)
(***************************************************************************)
EXTENDS ApiProxy, FiniteSetTheorems, TLAPS

-----------------------------------------------------------------------------
(* The inductive invariant.                                                  *)

Live(p) == pump[p].pc \in {"receive", "send"}
\* How many messages each peer has got.
ServiceGot == Len(heard.service)
ClientGot == Len(heard.client)

Carried(p) == IF pump[p].pc = "send" THEN 1 ELSE 0

\* The messages of a queue are numbered on from base; a mark, if there is one, comes last.
Numbered(queue, base) == \A i \in 1..Len(queue) : queue[i] \in Message => queue[i].n = base + i
Last(queue, mark) == \A i \in 1..Len(queue) : queue[i] = mark => i = Len(queue)
Has(queue, mark) == \E i \in 1..Len(queue) : queue[i] = mark

\* The types TypeOK leaves out.
Types ==
    /\ pump \in [Pumps -> [pc : {"idle", "receive", "send", "returned", "raised", "cancelled"},
                           holds : Message \cup {Nothing}]]
    /\ \A p \in Pumps : pump[p].pc = "send" => pump[p].holds \in Message
    /\ buffer \in Seq(Message) /\ toClient \in Seq(Message \cup Errors \cup {Bye})
    /\ said \in [client : 0..MaxSaid, service : 0..MaxSaid]
    /\ heard \in [client : Seq(0..MaxSaid), service : Seq(1..MaxSaid)]

\* Where the handler, the pumps, the connection and the peers can be at the same time.
Places ==
    /\ handler = "connecting" =>
          /\ upstream = "none" /\ client # "told"
          /\ toClient = <<>> /\ buffer = <<>> /\ heard.client = <<>>
          /\ said = [client |-> 0, service |-> 0]
          /\ Numbered(inbox, 0) /\ (client = "there" => inbox = <<>>)
    /\ upstream = "none" =>
          /\ handler \in {"connecting", "returned"} /\ service = "absent"
          /\ \A p \in Pumps : pump[p].pc = "idle"
          /\ toService = <<>> /\ heard.service = <<>>
    /\ handler \in {"closing", "returned"} => upstream # "open"
    /\ handler \in {"ending", "closing", "returned"} => \A p \in Pumps : ~Live(p)
    /\ handler \in {"ending", "closing", "returned"} /\ upstream # "none" => Ended("up") \/ Ended("down")
    /\ client = "told" => handler = "returned"
    /\ Last(inbox, Leave) /\ (Has(inbox, Leave) => client = "left")
    /\ pump["up"].pc = "returned" => client = "left"
    /\ pump["down"].pc = "raised" => client = "left"
    /\ pump["down"].pc = "returned" => upstream = "closed"

\* What the client has said is, in this order: with the service, on its way there, in the
\* hand of the pump, and still to be received.
UpInOrder ==
    LET base == ServiceGot + Len(toService) + Carried("up")
    IN  /\ heard.service = OneTo(ServiceGot)
        /\ Numbered(toService, ServiceGot)
        /\ Last(toService, Bye) /\ (Has(toService, Bye) => upstream = "closed")
        /\ upstream = "open" /\ Live("up") =>
              /\ pump["up"].pc = "send" => pump["up"].holds.n = base
              /\ Numbered(inbox, base)
              /\ client = "there" => said.client = base + Len(inbox)

\* The same of what the service has said, until the pump has returned because there is
\* nothing more to be read; a client that stays is told of the end last.
DownInOrder ==
    LET base == ClientGot + Len(toClient) + Carried("down")
        end == IF handler = "returned" THEN 1 ELSE 0
    IN  upstream # "none" =>
        /\ heard.client = OneTo(ClientGot)
        /\ toClient \in Seq(Message \cup {Bye}) /\ Numbered(toClient, ClientGot)
        /\ Last(toClient, Bye) /\ (Has(toClient, Bye) => handler = "returned")
        /\ client = "there" /\ handler = "returned" => Has(toClient, Bye)
        /\ client = "there" /\ Live("down") =>
              /\ pump["down"].pc = "send" => pump["down"].holds.n = base
              /\ Numbered(buffer, base)
              /\ said.service = base + Len(buffer)
        /\ client = "there" /\ pump["down"].pc = "returned" => said.service = base - end

IInv == TypeOK /\ Types /\ Places /\ UpInOrder /\ DownInOrder

-----------------------------------------------------------------------------
(* Queues.                                                                   *)

\* What marks an end, or tells of an error, is no message.
LEMMA Marks ==
  /\ Leave \notin Message /\ Bye \notin Message /\ Nothing \notin Message
  /\ \A e \in Errors : e \notin Message /\ e # Bye
  /\ Nothing # Leave /\ Bye # Leave
  BY DEF Leave, Bye, Nothing, Errors, Just, Message

\* An empty queue has nothing out of order, nor has one with a mark only.
LEMMA QueueEmpty ==
  ASSUME NEW base, NEW mark
  PROVE  Numbered(<<>>, base) /\ Last(<<>>, mark) /\ ~Has(<<>>, mark)
  BY DEF Numbered, Last, Has

\* A message put at the end of a queue.
LEMMA QueueAppend ==
  ASSUME NEW S, NEW q \in Seq(S), NEW m \in S, NEW base \in Nat, NEW mark
  PROVE  /\ Append(q, m) \in Seq(S) /\ Len(Append(q, m)) = Len(q) + 1
         /\ Numbered(q, base) /\ (m \in Message => m.n = base + Len(q) + 1)
               => Numbered(Append(q, m), base)
         /\ ~Has(q, mark) => Last(Append(q, m), mark)
         /\ ~Has(q, mark) /\ m # mark => ~Has(Append(q, m), mark)
         /\ m = mark => Has(Append(q, m), mark)
<1> DEFINE r == Append(q, m)
<1>1. r \in Seq(S) /\ Len(r) = Len(q) + 1 /\ r[Len(q) + 1] = m /\ Len(q) \in Nat
      /\ \A i \in 1..Len(q) : r[i] = q[i]
  OBVIOUS
<1> HIDE DEF r
<1>2. \A i \in 1..Len(r) : i \in 1..Len(q) \/ i = Len(q) + 1
  BY <1>1
<1>3. Len(q) + 1 \in 1..Len(r)
  BY <1>1
<1>4. Numbered(q, base) /\ (m \in Message => m.n = base + Len(q) + 1) => Numbered(r, base)
  <2> SUFFICES ASSUME Numbered(q, base), m \in Message => m.n = base + Len(q) + 1,
                      NEW i \in 1..Len(r), r[i] \in Message
               PROVE  r[i].n = base + i
    BY DEF Numbered
  <2>1. CASE i \in 1..Len(q)
    BY <1>1, <2>1 DEF Numbered
  <2>2. CASE i = Len(q) + 1
    BY <1>1, <2>2
  <2> QED BY <1>2, <2>1, <2>2
<1>5. ~Has(q, mark) => Last(r, mark)
  BY <1>1, <1>2 DEF Has, Last
<1>6. ~Has(q, mark) /\ m # mark => ~Has(r, mark)
  BY <1>1, <1>2 DEF Has
<1>7. m = mark => Has(r, mark)
  BY <1>1, <1>3 DEF Has
<1> QED BY <1>1, <1>4, <1>5, <1>6, <1>7 DEF r

\* A message taken from the head of a queue.
LEMMA QueueTail ==
  ASSUME NEW S, NEW q \in Seq(S), q # <<>>, NEW base \in Nat, NEW mark
  PROVE  /\ Head(q) \in S /\ Tail(q) \in Seq(S) /\ Len(q) = Len(Tail(q)) + 1
         /\ Numbered(q, base) => /\ Numbered(Tail(q), base + 1)
                                 /\ Head(q) \in Message => Head(q).n = base + 1
         /\ Last(q, mark) => Last(Tail(q), mark)
         /\ Last(q, mark) /\ Head(q) = mark => Tail(q) = <<>>
         /\ Has(q, mark) /\ Head(q) # mark => Has(Tail(q), mark)
         /\ Has(Tail(q), mark) => Has(q, mark)
<1> DEFINE t == Tail(q)
<1>1. t \in Seq(S) /\ Len(q) \in Nat /\ Len(q) > 0 /\ Len(t) = Len(q) - 1 /\ Head(q) = q[1] /\ q[1] \in S
      /\ \A i \in 1..Len(t) : t[i] = q[i + 1]
  OBVIOUS
<1>2. 1 \in 1..Len(q) /\ (Len(t) = 0 => t = <<>>)
  BY <1>1
<1> HIDE DEF t
<1>3. \A i \in 1..Len(t) : i \in Nat /\ i + 1 \in 1..Len(q)
  BY <1>1
<1>4. \A i \in 1..Len(q) : i = 1 \/ (i - 1 \in 1..Len(t) /\ (i - 1) + 1 = i)
  BY <1>1
<1>5. Numbered(q, base) => Numbered(t, base + 1) /\ (q[1] \in Message => q[1].n = base + 1)
  <2> SUFFICES ASSUME Numbered(q, base)
               PROVE  Numbered(t, base + 1) /\ (q[1] \in Message => q[1].n = base + 1)
    OBVIOUS
  <2>1. ASSUME NEW i \in 1..Len(t), t[i] \in Message PROVE t[i].n = (base + 1) + i
    <3>1. q[i + 1] \in Message /\ q[i + 1].n = base + (i + 1)
      BY <1>1, <1>3, <2>1 DEF Numbered
    <3> QED BY <1>1, <1>3, <3>1
  <2> QED BY <1>2, <2>1 DEF Numbered
<1>6. Last(q, mark) => Last(t, mark)
  <2> SUFFICES ASSUME Last(q, mark), NEW i \in 1..Len(t), t[i] = mark PROVE i = Len(t)
    BY DEF Last
  <2>1. i + 1 = Len(q)
    BY <1>1, <1>3 DEF Last
  <2> QED BY <1>1, <1>3, <2>1
<1>7. Last(q, mark) /\ q[1] = mark => t = <<>>
  <2> SUFFICES ASSUME Last(q, mark), q[1] = mark PROVE t = <<>>
    OBVIOUS
  <2>1. Len(q) = 1
    BY <1>2 DEF Last
  <2> QED BY <1>1, <1>2, <2>1
<1>8. Has(q, mark) /\ q[1] # mark => Has(t, mark)
  <2> SUFFICES ASSUME NEW i \in 1..Len(q), q[i] = mark, q[1] # mark PROVE Has(t, mark)
    BY DEF Has
  <2>1. i - 1 \in 1..Len(t) /\ (i - 1) + 1 = i
    BY <1>4
  <2>2. t[i - 1] = mark
    BY <1>1, <2>1
  <2> QED BY <2>1, <2>2 DEF Has
<1>9. Has(t, mark) => Has(q, mark)
  BY <1>1, <1>3 DEF Has
<1> QED BY <1>1, <1>5, <1>6, <1>7, <1>8, <1>9 DEF t

\* A message put at the end of a queue to a peer.
LEMMA QueueGrows ==
  ASSUME NEW q \in Seq(Message \cup {Bye}), NEW base \in Nat, Numbered(q, base), ~Has(q, Bye),
         NEW m \in Message, m.n = base + Len(q) + 1
  PROVE  /\ Append(q, m) \in Seq(Message \cup {Bye}) /\ Len(Append(q, m)) = Len(q) + 1
         /\ Numbered(Append(q, m), base) /\ Last(Append(q, m), Bye) /\ ~Has(Append(q, m), Bye)
<1> DEFINE S == Message \cup {Bye}
<1>1. q \in Seq(S) /\ m \in S /\ m # Bye
  BY Marks
<1> HIDE DEF S
<1>2. /\ Append(q, m) \in Seq(S) /\ Len(Append(q, m)) = Len(q) + 1
      /\ Numbered(Append(q, m), base) /\ Last(Append(q, m), Bye) /\ ~Has(Append(q, m), Bye)
  BY <1>1, QueueAppend
<1> QED BY <1>2 DEF S

\* What is next taken from the head of a queue to a peer, and what is left of it.
LEMMA QueueShrinks ==
  ASSUME NEW q \in Seq(Message \cup {Bye}), q # <<>>, NEW base \in Nat,
         Numbered(q, base), Last(q, Bye)
  PROVE  /\ Head(q) \in Message \cup {Bye} /\ Tail(q) \in Seq(Message \cup {Bye})
         /\ Len(q) = Len(Tail(q)) + 1
         /\ Last(Tail(q), Bye) /\ (Has(Tail(q), Bye) => Has(q, Bye))
         /\ Head(q) = Bye => Tail(q) = <<>> /\ Has(q, Bye)
         /\ Head(q) # Bye => /\ Head(q) \in Message /\ Head(q).n = base + 1
                             /\ Numbered(Tail(q), base + 1)
                             /\ Has(q, Bye) => Has(Tail(q), Bye)
<1> DEFINE S == Message \cup {Bye}
<1>1. q \in Seq(S)
  OBVIOUS
<1>2. 1 \in 1..Len(q) /\ Head(q) = q[1]
  BY <1>1
<1>3. Head(q) = Bye => Has(q, Bye)
  BY <1>2 DEF Has
<1> HIDE DEF S
<1>4. /\ Head(q) \in S /\ Tail(q) \in Seq(S) /\ Len(q) = Len(Tail(q)) + 1
      /\ Numbered(Tail(q), base + 1) /\ (Head(q) \in Message => Head(q).n = base + 1)
      /\ Last(Tail(q), Bye) /\ (Has(Tail(q), Bye) => Has(q, Bye))
      /\ Head(q) = Bye => Tail(q) = <<>>
      /\ Has(q, Bye) /\ Head(q) # Bye => Has(Tail(q), Bye)
  BY <1>1, QueueTail
<1> QED BY <1>3, <1>4 DEF S

\* The mark of the end put at the end of a queue.
LEMMA QueueClosed ==
  ASSUME NEW q \in Seq(Message \cup {Bye}), NEW base \in Nat, Numbered(q, base), ~Has(q, Bye)
  PROVE  /\ Append(q, Bye) \in Seq(Message \cup {Bye}) /\ Len(Append(q, Bye)) = Len(q) + 1
         /\ Numbered(Append(q, Bye), base) /\ Last(Append(q, Bye), Bye) /\ Has(Append(q, Bye), Bye)
<1> DEFINE S == Message \cup {Bye}
<1>1. q \in Seq(S) /\ Bye \in S /\ Bye \notin Message
  BY Marks
<1> HIDE DEF S
<1>2. /\ Append(q, Bye) \in Seq(S) /\ Len(Append(q, Bye)) = Len(q) + 1
      /\ Numbered(Append(q, Bye), base) /\ Last(Append(q, Bye), Bye) /\ Has(Append(q, Bye), Bye)
  BY <1>1, QueueAppend
<1> QED BY <1>2 DEF S

\* Counting on.
LEMMA CountedOn ==
  ASSUME NEW S, NEW h \in Seq(S), h = OneTo(Len(h)), NEW n \in S, n = Len(h) + 1
  PROVE  Append(h, n) \in Seq(S) /\ Append(h, n) = OneTo(Len(Append(h, n)))
         /\ Len(Append(h, n)) = Len(h) + 1
<1> DEFINE r == Append(h, n)
<1>1. r \in Seq(S) /\ Len(r) = Len(h) + 1 /\ r[Len(h) + 1] = n /\ Len(h) \in Nat
      /\ \A i \in 1..Len(h) : r[i] = h[i]
  OBVIOUS
<1>2. r = [i \in 1..Len(r) |-> r[i]]
  BY <1>1
<1> HIDE DEF r
<1>3. \A i \in 1..Len(h) : h[i] = i
  BY DEF OneTo
<1>4. \A i \in 1..Len(r) : i \in 1..Len(h) \/ i = Len(h) + 1
  BY <1>1
<1>5. \A i \in 1..Len(r) : r[i] = i
  BY <1>1, <1>3, <1>4
<1>6. r = OneTo(Len(r))
  BY <1>2, <1>5 DEF OneTo
<1> QED BY <1>1, <1>6 DEF r

-----------------------------------------------------------------------------
(* What leaves one direction alone.                                          *)

PumpTypes == [pc : {"idle", "receive", "send", "returned", "raised", "cancelled"},
              holds : Message \cup {Nothing}]

\* A pump that goes somewhere leaves the other where it is.
LEMMA GoesTypes ==
  ASSUME pump \in [Pumps -> PumpTypes], NEW p \in Pumps,
         NEW pc \in {"idle", "receive", "send", "returned", "raised", "cancelled"},
         NEW holds \in Message \cup {Nothing}, Goes(p, pc, holds)
  PROVE  /\ pump' \in [Pumps -> PumpTypes]
         /\ pump'[p].pc = pc /\ pump'[p].holds = holds
         /\ \A q \in Pumps \ {p} : pump'[q] = pump[q]
  BY DEF Goes, PumpTypes

LEMMA UpFrame ==
  ASSUME UpInOrder,
         UNCHANGED <<heard.service, toService, inbox, said.client>>,
         pump'["up"] = pump["up"] \/ ~Live("up")',
         client' = "there" => client = "there",
         upstream' = upstream \/ upstream' = "closed"
  PROVE  UpInOrder'
  BY DEF UpInOrder, Live, Carried, ServiceGot

LEMMA DownFrame ==
  ASSUME DownInOrder,
         UNCHANGED <<heard.client, toClient, buffer, said.service>>,
         pump'["down"] = pump["down"] \/ pump'["down"].pc = "cancelled",
         client' = "there" => client = "there",
         handler' = handler \/ (handler # "returned" /\ handler' # "returned"),
         upstream' # "none" => upstream # "none"
  PROVE  DownInOrder'
<1> SUFFICES ASSUME upstream' # "none" PROVE DownInOrder'
  BY DEF DownInOrder
<1>1. CASE pump'["down"] = pump["down"]
  BY <1>1 DEF DownInOrder, Live, Carried, ClientGot
<1>2. CASE pump'["down"].pc = "cancelled"
  BY <1>2 DEF DownInOrder, Live, ClientGot
<1> QED BY <1>1, <1>2

\* What the invariant says of types and numbers, to start from.
LEMMA Typed ==
  ASSUME IInv
  PROVE  /\ pump \in [Pumps -> PumpTypes]
         /\ heard.client \in Seq(0..MaxSaid) /\ heard.service \in Seq(1..MaxSaid)
         /\ ClientGot \in Nat /\ ServiceGot \in Nat
         /\ Len(toService) \in Nat /\ Len(toClient) \in Nat /\ Len(inbox) \in Nat /\ Len(buffer) \in Nat
         /\ said.client \in 0..MaxSaid /\ said.service \in 0..MaxSaid /\ MaxSaid \in Nat
         /\ heard = [client |-> heard.client, service |-> heard.service]
         /\ said = [client |-> said.client, service |-> said.service]
         /\ "up" \in Pumps /\ "down" \in Pumps
<1>1. /\ pump \in [Pumps -> PumpTypes]
      /\ heard \in [client : Seq(0..MaxSaid), service : Seq(1..MaxSaid)]
      /\ said \in [client : 0..MaxSaid, service : 0..MaxSaid]
      /\ toService \in Seq(Message \cup {Bye}) /\ inbox \in Seq(Message \cup {Leave})
      /\ toClient \in Seq(Message \cup Errors \cup {Bye}) /\ buffer \in Seq(Message)
      /\ MaxSaid \in Nat
  BY MaxSaidAssumption DEF IInv, TypeOK, Types, PumpTypes
<1>2. /\ heard.client \in Seq(0..MaxSaid) /\ heard.service \in Seq(1..MaxSaid)
      /\ said.client \in 0..MaxSaid /\ said.service \in 0..MaxSaid
      /\ heard = [client |-> heard.client, service |-> heard.service]
      /\ said = [client |-> said.client, service |-> said.service]
  BY <1>1
<1>3. Len(toService) \in Nat /\ Len(toClient) \in Nat /\ Len(inbox) \in Nat /\ Len(buffer) \in Nat
  BY <1>1
<1>4. ClientGot \in Nat /\ ServiceGot \in Nat
  BY <1>2 DEF ClientGot, ServiceGot
<1> QED BY <1>1, <1>2, <1>3, <1>4 DEF Pumps

LEMMA InitInvariant == Init => IInv
<1> SUFFICES ASSUME Init PROVE IInv
  OBVIOUS
<1> USE DEF Init
<1>1. /\ pump \in [Pumps -> PumpTypes] /\ \A p \in Pumps : pump[p].pc = "idle"
      /\ "up" \in Pumps /\ "down" \in Pumps
  BY DEF PumpTypes, Pumps
<1>2. 0 \in 0..MaxSaid
  BY MaxSaidAssumption
<1>3. TypeOK
  BY DEF TypeOK
<1>4. Types
  BY <1>1, <1>2 DEF Types, PumpTypes
<1>5. Places
  BY <1>1, QueueEmpty DEF Places, Live
<1>6. <<>> = OneTo(Len(<<>>))
  BY DEF OneTo
<1>7. UpInOrder
  BY <1>6, QueueEmpty DEF UpInOrder, ServiceGot
<1>8. DownInOrder
  BY DEF DownInOrder
<1> QED BY <1>3, <1>4, <1>5, <1>7, <1>8 DEF IInv

-----------------------------------------------------------------------------
(* The handler.                                                              *)

LEMMA ConnectedInvariant == IInv /\ Connected => IInv'
<1> SUFFICES ASSUME IInv, Connected PROVE IInv'
  OBVIOUS
<1> USE DEF Connected, links, history
<1>0. /\ upstream = "none" /\ client # "told" /\ toClient = <<>> /\ buffer = <<>>
      /\ heard.client = <<>> /\ said.client = 0 /\ said.service = 0
      /\ client = "there" => inbox = <<>>
      /\ toService = <<>> /\ heard.service = <<>>
  BY DEF IInv, Places
<1>1. /\ pump' \in [Pumps -> PumpTypes] /\ \A p \in Pumps : pump'[p].pc = "receive"
      /\ "up" \in Pumps /\ "down" \in Pumps
  BY DEF PumpTypes, Pumps
<1>2. inbox \in Seq(Message \cup {Leave}) /\ Last(inbox, Leave) /\ (Has(inbox, Leave) => client = "left")
  BY DEF IInv, TypeOK, Places
<1>3. TypeOK'
  BY DEF IInv, TypeOK
<1>4. Types'
  BY <1>1 DEF IInv, Types, PumpTypes
<1>5. Places'
  BY <1>0, <1>1, <1>2 DEF Places, Last, Has
<1>6. <<>> = OneTo(Len(<<>>)) /\ Len(<<>>) = 0
  BY DEF OneTo
<1>7. Numbered(inbox, 0)
  BY DEF IInv, Places
<1>8. UpInOrder'
  BY <1>0, <1>1, <1>6, <1>7, QueueEmpty DEF UpInOrder, Carried, ServiceGot
<1>9. DownInOrder'
  BY <1>0, <1>1, <1>6, QueueEmpty DEF DownInOrder, Carried, Live, ClientGot
<1> QED BY <1>3, <1>4, <1>5, <1>8, <1>9 DEF IInv

LEMMA RefusedInvariant == IInv /\ Refused => IInv'
<1> SUFFICES ASSUME IInv, Refused PROVE IInv'
  OBVIOUS
<1> USE DEF Refused, history
<1>0. /\ upstream = "none" /\ service = "absent" /\ client # "told" /\ \A p \in Pumps : pump[p].pc = "idle"
      /\ toService = <<>> /\ heard.service = <<>>
      /\ "up" \in Pumps /\ "down" \in Pumps
  BY DEF IInv, Places, Pumps
<1>1. toClient' \in Seq(Message \cup Errors \cup {Bye})
  OBVIOUS
<1>2. TypeOK'
  BY DEF IInv, TypeOK
<1>3. Types'
  BY <1>1 DEF IInv, Types
<1>4. Places'
  BY <1>0 DEF IInv, Places, Live, Last, Has
<1>5. UpInOrder'
  BY <1>0 DEF IInv, UpInOrder, Numbered, Last, Has, Live, Carried, ServiceGot
<1>6. DownInOrder'
  BY <1>0 DEF DownInOrder
<1> QED BY <1>2, <1>3, <1>4, <1>5, <1>6 DEF IInv

LEMMA FirstCompletedInvariant == IInv /\ FirstCompleted => IInv'
<1> SUFFICES ASSUME IInv, FirstCompleted PROVE IInv'
  OBVIOUS
<1> USE DEF FirstCompleted, links, history
<1>0. /\ IInv /\ pump \in [Pumps -> PumpTypes] /\ "up" \in Pumps /\ "down" \in Pumps
      /\ upstream # "none"
  BY Typed DEF IInv, Places
<1>1. /\ pump' \in [Pumps -> PumpTypes]
      /\ \A p \in Pumps : \/ pump'[p] = pump[p] /\ Ended(p)
                          \/ pump'[p].pc = "cancelled" /\ ~Ended(p)
  BY <1>0 DEF PumpTypes
<1>2. \A p \in Pumps : ~Live(p)'
  BY <1>1 DEF Live, Ended
<1>3. TypeOK'
  BY DEF IInv, TypeOK
<1>4. Types'
  BY <1>1, <1>2 DEF IInv, Types, PumpTypes, Live
<1>5. (Ended("up") \/ Ended("down"))'
  BY <1>0, <1>1 DEF Pumps, Ended
<1>6. Places'
  BY <1>0, <1>1, <1>2, <1>5 DEF IInv, Places, Last, Has, Ended
<1>7. UpInOrder'
  BY <1>0, <1>2, UpFrame DEF IInv, Pumps
<1>8. DownInOrder'
  BY <1>0, <1>1, DownFrame DEF IInv, Pumps
<1> QED BY <1>3, <1>4, <1>6, <1>7, <1>8 DEF IInv

LEMMA CloseUpstreamInvariant == IInv /\ CloseUpstream => IInv'
<1> SUFFICES ASSUME IInv, CloseUpstream PROVE IInv'
  OBVIOUS
<1> USE DEF CloseUpstream, history
<1>0. /\ IInv /\ "up" \in Pumps /\ "down" \in Pumps /\ ServiceGot \in Nat
      /\ upstream # "none" /\ \A p \in Pumps : ~Live(p)
      /\ toService \in Seq(Message \cup {Bye}) /\ Bye \in Message \cup {Bye} /\ Bye \notin Message
  BY Typed, Marks DEF IInv, Places, TypeOK
<1>1. \A p \in Pumps : ~Live(p)'
  BY <1>0 DEF Live
<1>2. CASE upstream = "open" /\ upstream' = "closed" /\ toService' = Append(toService, Bye)
  <2>1. ~Has(toService, Bye) /\ Numbered(toService, ServiceGot)
    BY <1>0, <1>2 DEF IInv, UpInOrder
  <2>2. /\ toService' \in Seq(Message \cup {Bye})
        /\ Numbered(toService', ServiceGot) /\ Last(toService', Bye)
    <3>1. toService' = Append(toService, Bye)
      BY <1>2
    <3> HIDE DEF CloseUpstream
    <3> QED BY <1>0, <2>1, <3>1, QueueClosed
  <2>3. TypeOK'
    BY <1>2, <2>2 DEF IInv, TypeOK
  <2>4. Types' /\ Places'
    BY <1>0, <1>1, <1>2 DEF IInv, Types, Places, Last, Has, Numbered, Ended
  <2>5. UpInOrder'
    BY <1>0, <1>1, <1>2, <2>2 DEF IInv, UpInOrder, Carried, ServiceGot
  <2>6. DownInOrder'
    BY <1>0, <1>2, DownFrame DEF IInv
  <2> QED BY <2>3, <2>4, <2>5, <2>6 DEF IInv
<1>3. CASE upstream # "open" /\ UNCHANGED <<upstream, toService>>
  <2>1. TypeOK'
    BY <1>3 DEF IInv, TypeOK
  <2>2. Types' /\ Places'
    BY <1>0, <1>1, <1>3 DEF IInv, Types, Places, Last, Has, Numbered, Ended
  <2>3. UpInOrder'
    BY <1>0, <1>3, UpFrame DEF IInv
  <2>4. DownInOrder'
    BY <1>0, <1>3, DownFrame DEF IInv
  <2> QED BY <2>1, <2>2, <2>3, <2>4 DEF IInv
<1> QED BY <1>2, <1>3

LEMMA CloseClientInvariant == IInv /\ CloseClient => IInv'
<1> SUFFICES ASSUME IInv, CloseClient PROVE IInv'
  OBVIOUS
<1> USE DEF CloseClient, history
<1>0. /\ IInv /\ "up" \in Pumps /\ "down" \in Pumps /\ ClientGot \in Nat /\ Len(toClient) \in Nat
      /\ upstream # "none" /\ \A p \in Pumps : ~Live(p)
      /\ toClient \in Seq(Message \cup {Bye}) /\ Bye \in Message \cup {Bye} /\ Bye \notin Message
      /\ toClient \in Seq(Message \cup Errors \cup {Bye}) /\ Bye \in Message \cup Errors \cup {Bye}
  BY Typed, Marks DEF IInv, Places, TypeOK, Types, DownInOrder
<1>1. \A p \in Pumps : ~Live(p)'
  BY <1>0 DEF Live
<1>2. ~Has(toClient, Bye) /\ Numbered(toClient, ClientGot)
  BY <1>0 DEF IInv, DownInOrder
<1>3. /\ toClient' \in Seq(Message \cup {Bye}) /\ Len(toClient') = Len(toClient) + 1
      /\ Numbered(toClient', ClientGot) /\ Last(toClient', Bye) /\ Has(toClient', Bye)
  <2>1. toClient' = Append(toClient, Bye)
    OBVIOUS
  <2> HIDE DEF CloseClient
  <2> QED BY <1>0, <1>2, <2>1, QueueClosed
<1>4. toClient' \in Seq(Message \cup Errors \cup {Bye})
  BY <1>0
<1>5. TypeOK'
  BY DEF IInv, TypeOK
<1>6. Types' /\ Places'
  BY <1>0, <1>1, <1>4 DEF IInv, Types, Places, Last, Has, Numbered, Ended
<1>7. UpInOrder'
  BY <1>0, UpFrame DEF IInv
<1>8. client = "there" /\ pump["down"].pc = "returned" => said.service = (ClientGot + Len(toClient)) - 0
  BY <1>0 DEF IInv, DownInOrder, Carried
<1>9. DownInOrder'
  <2>1. ~Live("down")'
    BY <1>0, <1>1
  <2>2. client = "there" /\ pump["down"].pc = "returned"
          => said.service = (ClientGot + Len(toClient') + 0) - 1
    <3>1. ClientGot \in Nat /\ Len(toClient) \in Nat /\ Len(toClient') = Len(toClient) + 1
      BY <1>0, <1>3
    <3>2. (ClientGot + Len(toClient') + 0) - 1 = (ClientGot + Len(toClient)) - 0
      BY <3>1
    <3> SUFFICES ASSUME client = "there", pump["down"].pc = "returned"
                 PROVE  said.service = (ClientGot + Len(toClient') + 0) - 1
      OBVIOUS
    <3>3. said.service = (ClientGot + Len(toClient)) - 0
      BY <1>8
    <3> HIDE DEF CloseClient, history
    <3> QED BY ONLY <3>2, <3>3, Zenon
  <2>3. pump["down"].pc = "returned" => Carried("down")' = 0
    BY DEF Carried
  <2> QED BY <1>0, <1>3, <2>1, <2>2, <2>3 DEF IInv, DownInOrder, ClientGot
<1> QED BY <1>5, <1>6, <1>7, <1>9 DEF IInv

-----------------------------------------------------------------------------
(* The pumps.                                                                *)

\* A live pump has a connection, and the handler has not ended.
LEMMA LivePump ==
  ASSUME IInv, NEW p \in Pumps, Live(p)
  PROVE  handler = "waiting" /\ upstream # "none"
  BY DEF IInv, TypeOK, Places, Live

LEMMA UpReceiveInvariant == IInv /\ UpReceive => IInv'
<1> SUFFICES ASSUME IInv, UpReceive PROVE IInv'
  OBVIOUS
<1>0. /\ IInv /\ pump \in [Pumps -> PumpTypes] /\ "up" \in Pumps /\ "down" \in Pumps
      /\ ServiceGot \in Nat /\ Len(toService) \in Nat /\ Len(inbox) \in Nat
      /\ said.client \in 0..MaxSaid /\ MaxSaid \in Nat
  BY Typed
<1>1. /\ pump["up"].pc = "receive" /\ inbox # <<>> /\ inbox' = Tail(inbox)
      /\ UNCHANGED <<handler, upstream, client, service, said, heard, buffer, toService, toClient>>
      /\ Live("up") /\ handler = "waiting" /\ upstream # "none"
  BY <1>0, LivePump DEF UpReceive, Live, Pumping, history
<1>2. /\ inbox \in Seq(Message \cup {Leave}) /\ Last(inbox, Leave)
      /\ Has(inbox, Leave) => client = "left"
  BY <1>0 DEF IInv, TypeOK, Places
<1>3. /\ Head(inbox) \in Message \cup {Leave} /\ inbox' \in Seq(Message \cup {Leave})
      /\ Len(inbox) = Len(inbox') + 1
      /\ Last(inbox', Leave) /\ (Has(inbox', Leave) => client = "left")
  <2> DEFINE base == 0
  <2>1. base \in Nat
    OBVIOUS
  <2> HIDE DEF base
  <2> QED BY <1>1, <1>2, <2>1, QueueTail
<1>4. Head(inbox) = Leave => client = "left"
  <2>1. 1 \in 1..Len(inbox) /\ Head(inbox) = inbox[1]
    BY <1>1, <1>2
  <2> QED BY <1>2, <2>1 DEF Has
<1>5. upstream = "open" =>
        /\ Numbered(inbox', ServiceGot + Len(toService) + 1)
        /\ Head(inbox) \in Message => Head(inbox).n = ServiceGot + Len(toService) + 1
        /\ client = "there" => said.client = ServiceGot + Len(toService) + Len(inbox)
  <2> DEFINE base == ServiceGot + Len(toService)
  <2> SUFFICES ASSUME upstream = "open"
               PROVE  /\ Numbered(inbox', base + 1)
                      /\ Head(inbox) \in Message => Head(inbox).n = base + 1
                      /\ client = "there" => said.client = base + Len(inbox)
    OBVIOUS
  <2>1. base \in Nat /\ base + 0 = base
    BY <1>0
  <2>2. Numbered(inbox, base) /\ (client = "there" => said.client = base + Len(inbox))
    BY <1>0, <1>1, <2>1 DEF IInv, UpInOrder, Carried
  <2> HIDE DEF base
  <2> QED BY <1>1, <1>2, <2>1, <2>2, QueueTail
<1>6. TypeOK'
  BY <1>1, <1>3 DEF IInv, TypeOK
<1>7. CASE Head(inbox) = Leave /\ Goes("up", "returned", Nothing)
  <2>1. /\ pump' \in [Pumps -> PumpTypes] /\ pump'["up"].pc = "returned" /\ pump'["down"] = pump["down"]
    BY <1>0, <1>7, GoesTypes DEF Pumps
  <2>2. Types'
    BY <1>1, <2>1 DEF IInv, Types, PumpTypes, Pumps
  <2>3. Places'
    BY <1>1, <1>3, <1>4, <1>7, <2>1 DEF IInv, Places, Pumps, Ended, Live
  <2>4. UpInOrder'
    BY <1>1, <2>1 DEF IInv, UpInOrder, Live, ServiceGot
  <2>5. DownInOrder'
    BY <1>1, <2>1, DownFrame DEF IInv
  <2> QED BY <1>6, <2>2, <2>3, <2>4, <2>5 DEF IInv
<1>8. CASE Head(inbox) # Leave /\ Goes("up", "send", Head(inbox))
  <2>1. Head(inbox) \in Message
    BY <1>3, <1>8
  <2>2. /\ pump' \in [Pumps -> PumpTypes] /\ pump'["up"].pc = "send" /\ pump'["down"] = pump["down"]
        /\ pump'["up"].holds = Head(inbox)
    BY <1>0, <1>8, <2>1, GoesTypes DEF Pumps
  <2>3. Types'
    BY <1>1, <2>1, <2>2 DEF IInv, Types, PumpTypes, Pumps
  <2>4. Places'
    BY <1>1, <1>3, <2>2 DEF IInv, Places, Pumps, Ended, Live
  <2>5. UpInOrder'
    <3>1. upstream = "open" /\ client = "there" => said.client = ServiceGot + Len(toService) + 1 + Len(inbox')
      <4>1. Len(inbox') \in Nat /\ Len(inbox) = Len(inbox') + 1
        BY <1>3
      <4>2. ServiceGot \in Nat /\ Len(toService) \in Nat
        BY <1>0
      <4>3. ServiceGot + Len(toService) + 1 + Len(inbox') = ServiceGot + Len(toService) + Len(inbox)
        BY <4>1, <4>2
      <4> SUFFICES ASSUME upstream = "open", client = "there"
                   PROVE  said.client = ServiceGot + Len(toService) + 1 + Len(inbox')
        OBVIOUS
      <4>4. said.client = ServiceGot + Len(toService) + Len(inbox)
        BY <1>5
      <4> QED BY ONLY <4>3, <4>4, Zenon
    <3> QED BY <1>1, <1>5, <2>1, <2>2, <3>1 DEF IInv, UpInOrder, Live, Carried, ServiceGot
  <2>6. DownInOrder'
    BY <1>1, <2>2, DownFrame DEF IInv
  <2> QED BY <1>6, <2>3, <2>4, <2>5, <2>6 DEF IInv
<1> QED BY <1>7, <1>8 DEF UpReceive

LEMMA UpSendInvariant == IInv /\ UpSend => IInv'
<1> SUFFICES ASSUME IInv, UpSend PROVE IInv'
  OBVIOUS
<1>0. /\ IInv /\ pump \in [Pumps -> PumpTypes] /\ "up" \in Pumps /\ "down" \in Pumps
      /\ ServiceGot \in Nat /\ Len(toService) \in Nat
  BY Typed
<1>1. /\ pump["up"].pc = "send"
      /\ UNCHANGED <<handler, upstream, client, service, said, heard, inbox, buffer, toClient>>
      /\ Live("up") /\ handler = "waiting" /\ upstream # "none"
      /\ ServiceGot' = ServiceGot
  BY <1>0, LivePump DEF UpSend, Live, Pumping, history, ServiceGot
<1>2. CASE upstream = "closed" /\ Goes("up", "raised", Nothing) /\ UNCHANGED toService
  <2>1. /\ pump' \in [Pumps -> PumpTypes] /\ pump'["up"].pc = "raised" /\ pump'["down"] = pump["down"]
    BY <1>0, <1>2, GoesTypes DEF Pumps
  <2>2. TypeOK'
    BY <1>1, <1>2 DEF IInv, TypeOK
  <2>3. Types'
    BY <1>1, <2>1 DEF IInv, Types, PumpTypes, Pumps
  <2>4. Places'
    BY <1>1, <1>2, <2>1 DEF IInv, Places, Pumps, Ended, Live, Last, Has
  <2>5. UpInOrder'
    BY <1>1, <1>2, <2>1 DEF IInv, UpInOrder, Live
  <2>6. DownInOrder'
    BY <1>1, <2>1, DownFrame DEF IInv
  <2> QED BY <2>2, <2>3, <2>4, <2>5, <2>6 DEF IInv
<1>3. CASE /\ upstream # "closed" /\ Goes("up", "receive", Nothing)
           /\ toService' = Append(toService, pump["up"].holds)
  <2>1. /\ pump' \in [Pumps -> PumpTypes] /\ pump'["up"].pc = "receive" /\ pump'["down"] = pump["down"]
    BY <1>0, <1>3, GoesTypes DEF Pumps
  <2>2. upstream = "open" /\ pump["up"].holds \in Message
    BY <1>0, <1>1, <1>3 DEF IInv, TypeOK, Types
  <2>3. /\ toService \in Seq(Message \cup {Bye}) /\ Numbered(toService, ServiceGot) /\ ~Has(toService, Bye)
        /\ pump["up"].holds.n = ServiceGot + Len(toService) + 1
    BY <1>1, <2>2 DEF IInv, TypeOK, UpInOrder, Carried
  <2>4. /\ toService' \in Seq(Message \cup {Bye}) /\ Len(toService') = Len(toService) + 1
        /\ Numbered(toService', ServiceGot) /\ Last(toService', Bye) /\ ~Has(toService', Bye)
    BY <1>0, <1>3, <2>2, <2>3, QueueGrows
  <2>5. TypeOK'
    BY <1>1, <2>4 DEF IInv, TypeOK
  <2>6. Types'
    BY <1>1, <2>1 DEF IInv, Types, PumpTypes, Pumps
  <2>7. Places'
    BY <1>1, <2>1 DEF IInv, Places, Pumps, Ended, Live, Last, Has
  <2>8. ServiceGot + Len(toService') + 0 = ServiceGot + Len(toService) + 1
    BY <1>0, <2>4
  <2>9. UpInOrder'
    BY <1>1, <2>1, <2>4, <2>8 DEF IInv, UpInOrder, Live, Carried, ServiceGot
  <2>10. DownInOrder'
    BY <1>1, <2>1, DownFrame DEF IInv
  <2> QED BY <2>5, <2>6, <2>7, <2>9, <2>10 DEF IInv
<1> QED BY <1>2, <1>3 DEF UpSend

LEMMA DownReceiveInvariant == IInv /\ DownReceive => IInv'
<1> SUFFICES ASSUME IInv, DownReceive PROVE IInv'
  OBVIOUS
<1>0. /\ IInv /\ pump \in [Pumps -> PumpTypes] /\ "up" \in Pumps /\ "down" \in Pumps
      /\ ClientGot \in Nat /\ Len(toClient) \in Nat /\ Len(buffer) \in Nat /\ buffer \in Seq(Message)
  BY Typed DEF IInv, Types
<1>1. /\ pump["down"].pc = "receive"
      /\ UNCHANGED <<handler, upstream, client, service, said, heard, inbox, toService, toClient>>
      /\ Live("down") /\ handler = "waiting" /\ upstream # "none"
      /\ ClientGot' = ClientGot
  BY <1>0, LivePump DEF DownReceive, Live, Pumping, history, ClientGot
<1>2. TypeOK'
  BY <1>1 DEF IInv, TypeOK
<1>3. client = "there" => /\ Numbered(buffer, ClientGot + Len(toClient))
                          /\ said.service = ClientGot + Len(toClient) + Len(buffer)
  <2>1. ClientGot + Len(toClient) + 0 = ClientGot + Len(toClient)
    BY <1>0
  <2> QED BY <1>1, <2>1 DEF IInv, DownInOrder, Carried
<1>4. CASE buffer # <<>> /\ Goes("down", "send", Head(buffer)) /\ buffer' = Tail(buffer)
  <2>1. /\ Head(buffer) \in Message /\ buffer' \in Seq(Message) /\ Len(buffer) = Len(buffer') + 1
        /\ client = "there" => /\ Numbered(buffer', ClientGot + Len(toClient) + 1)
                               /\ Head(buffer).n = ClientGot + Len(toClient) + 1
    <3> DEFINE base == ClientGot + Len(toClient)
    <3>1. base \in Nat
      BY <1>0
    <3>2. client = "there" => Numbered(buffer, base)
      BY <1>3
    <3> HIDE DEF base
    <3>3. /\ Head(buffer) \in Message /\ buffer' \in Seq(Message) /\ Len(buffer) = Len(buffer') + 1
          /\ Numbered(buffer, base) => Numbered(buffer', base + 1) /\ Head(buffer).n = base + 1
      BY <1>0, <1>4, <3>1, QueueTail
    <3> QED BY <3>2, <3>3 DEF base
  <2>2. /\ pump' \in [Pumps -> PumpTypes] /\ pump'["down"].pc = "send" /\ pump'["up"] = pump["up"]
        /\ pump'["down"].holds = Head(buffer)
    BY <1>0, <1>4, <2>1, GoesTypes DEF Pumps
  <2>3. Types'
    BY <1>1, <2>1, <2>2 DEF IInv, Types, PumpTypes, Pumps
  <2>4. Places'
    BY <1>1, <2>2 DEF IInv, Places, Pumps, Ended, Live, Last, Has
  <2>5. UpInOrder'
    BY <1>1, <2>2, UpFrame DEF IInv
  <2>6. client = "there" => said.service = ClientGot + Len(toClient) + 1 + Len(buffer')
    <3>1. ClientGot + Len(toClient) + 1 + Len(buffer') = ClientGot + Len(toClient) + Len(buffer)
      <4>1. Len(buffer') \in Nat /\ Len(buffer) = Len(buffer') + 1
        BY <2>1
      <4> QED BY <1>0, <4>1
    <3> SUFFICES ASSUME client = "there" PROVE said.service = ClientGot + Len(toClient) + 1 + Len(buffer')
      OBVIOUS
    <3>2. said.service = ClientGot + Len(toClient) + Len(buffer)
      BY <1>3
    <3> QED BY ONLY <3>1, <3>2, Zenon
  <2>7. DownInOrder'
    BY <1>1, <2>1, <2>2, <2>6 DEF IInv, DownInOrder, Live, Carried, ClientGot
  <2> QED BY <1>2, <2>3, <2>4, <2>5, <2>7 DEF IInv
<1>5. CASE buffer = <<>> /\ upstream = "closed" /\ Goes("down", "returned", Nothing) /\ UNCHANGED buffer
  <2>1. /\ pump' \in [Pumps -> PumpTypes] /\ pump'["down"].pc = "returned" /\ pump'["up"] = pump["up"]
    BY <1>0, <1>5, GoesTypes DEF Pumps
  <2>2. Types'
    BY <1>1, <1>5, <2>1 DEF IInv, Types, PumpTypes, Pumps
  <2>3. Places'
    BY <1>1, <1>5, <2>1 DEF IInv, Places, Pumps, Ended, Live, Last, Has
  <2>4. UpInOrder'
    BY <1>1, <2>1, UpFrame DEF IInv
  <2>5. client = "there" => said.service = (ClientGot + Len(toClient) + 0) - 0
    <3>1. ClientGot + Len(toClient) + Len(buffer) = (ClientGot + Len(toClient) + 0) - 0
      <4>1. Len(buffer) = 0
        BY <1>5
      <4> QED BY <1>0, <4>1
    <3> SUFFICES ASSUME client = "there" PROVE said.service = (ClientGot + Len(toClient) + 0) - 0
      OBVIOUS
    <3>2. said.service = ClientGot + Len(toClient) + Len(buffer)
      BY <1>3
    <3> QED BY ONLY <3>1, <3>2, Zenon
  <2>6. DownInOrder'
    BY <1>1, <2>1, <2>5 DEF IInv, DownInOrder, Live, Carried, ClientGot
  <2> QED BY <1>2, <2>2, <2>3, <2>4, <2>6 DEF IInv
<1> QED BY <1>4, <1>5 DEF DownReceive

LEMMA DownSendInvariant == IInv /\ DownSend => IInv'
<1> SUFFICES ASSUME IInv, DownSend PROVE IInv'
  OBVIOUS
<1>0. /\ IInv /\ pump \in [Pumps -> PumpTypes] /\ "up" \in Pumps /\ "down" \in Pumps
      /\ ClientGot \in Nat /\ Len(toClient) \in Nat
      /\ toClient \in Seq(Message \cup Errors \cup {Bye})
  BY Typed DEF IInv, Types
<1>1. /\ pump["down"].pc = "send"
      /\ UNCHANGED <<handler, upstream, client, service, said, heard, inbox, buffer, toService>>
      /\ Live("down") /\ handler = "waiting" /\ upstream # "none"
      /\ ClientGot' = ClientGot
  BY <1>0, LivePump DEF DownSend, Live, Pumping, history, ClientGot
<1>2. TypeOK'
  BY <1>1 DEF IInv, TypeOK
<1>3. ASSUME client = "left", NEW pc \in {"receive", "raised"}, Goes("down", pc, Nothing), UNCHANGED toClient
      PROVE  IInv'
  <2>1. /\ pump' \in [Pumps -> PumpTypes] /\ pump'["down"].pc = pc /\ pump'["up"] = pump["up"]
    BY <1>0, <1>3, GoesTypes DEF Pumps
  <2>2. Types'
    BY <1>1, <1>3, <2>1 DEF IInv, Types, PumpTypes, Pumps
  <2>3. Places'
    BY <1>1, <1>3, <2>1 DEF IInv, Places, Pumps, Ended, Live, Last, Has
  <2>4. UpInOrder'
    BY <1>1, <2>1, UpFrame DEF IInv
  <2>5. DownInOrder'
    BY <1>1, <1>3 DEF IInv, DownInOrder
  <2> QED BY <1>2, <2>2, <2>3, <2>4, <2>5 DEF IInv
<1>4. CASE /\ client # "left" /\ Goes("down", "receive", Nothing)
           /\ toClient' = Append(toClient, pump["down"].holds)
  <2>1. /\ pump' \in [Pumps -> PumpTypes] /\ pump'["down"].pc = "receive" /\ pump'["up"] = pump["up"]
    BY <1>0, <1>4, GoesTypes DEF Pumps
  <2>2. client = "there" /\ pump["down"].holds \in Message
    BY <1>0, <1>1, <1>4 DEF IInv, TypeOK, Types, Places
  <2>3. /\ toClient \in Seq(Message \cup {Bye}) /\ Numbered(toClient, ClientGot) /\ ~Has(toClient, Bye)
        /\ pump["down"].holds.n = ClientGot + Len(toClient) + 1
    BY <1>1, <2>2 DEF IInv, DownInOrder, Carried
  <2>4. /\ toClient' \in Seq(Message \cup {Bye}) /\ Len(toClient') = Len(toClient) + 1
        /\ Numbered(toClient', ClientGot) /\ Last(toClient', Bye) /\ ~Has(toClient', Bye)
    BY <1>0, <1>4, <2>2, <2>3, QueueGrows
  <2>5. toClient' \in Seq(Message \cup Errors \cup {Bye})
    BY <1>0, <1>4, <2>2
  <2>6. Types'
    BY <1>1, <2>1, <2>5 DEF IInv, Types, PumpTypes, Pumps
  <2>7. Places'
    BY <1>1, <2>1 DEF IInv, Places, Pumps, Ended, Live, Last, Has
  <2>8. ClientGot + Len(toClient') + 0 = ClientGot + Len(toClient) + 1
    BY <1>0, <2>4
  <2>9. UpInOrder'
    BY <1>1, <2>1, UpFrame DEF IInv
  <2>10. DownInOrder'
    BY <1>1, <2>1, <2>4, <2>8 DEF IInv, DownInOrder, Live, Carried, ClientGot
  <2> QED BY <1>2, <2>6, <2>7, <2>9, <2>10 DEF IInv
<1> QED BY <1>3, <1>4 DEF DownSend

-----------------------------------------------------------------------------
(* The peers.                                                                *)

LEMMA ClientSaysInvariant == IInv /\ ClientSays => IInv'
<1> SUFFICES ASSUME IInv, ClientSays PROVE IInv'
  OBVIOUS
<1>0. /\ IInv /\ pump \in [Pumps -> PumpTypes] /\ "up" \in Pumps /\ "down" \in Pumps
      /\ ServiceGot \in Nat /\ Len(toService) \in Nat /\ Len(inbox) \in Nat
      /\ said.client \in 0..MaxSaid /\ said.service \in 0..MaxSaid /\ MaxSaid \in Nat
      /\ said = [client |-> said.client, service |-> said.service]
  BY Typed
<1>1. /\ client = "there" /\ handler # "connecting" /\ said.client < MaxSaid
      /\ UNCHANGED <<handler, pump, upstream, client, service, heard, buffer, toService, toClient>>
      /\ ServiceGot' = ServiceGot
      /\ said' = [said EXCEPT !.client = @ + 1]
  BY DEF ClientSays, Outside, ServiceGot
<1>2. said'.client = said.client + 1 /\ said'.service = said.service
      /\ said' = [client |-> said'.client, service |-> said'.service]
  BY <1>0, <1>1
<1>3. said'.client \in 1..MaxSaid
  BY <1>0, <1>1, <1>2
<1>4. PICK kind \in {"audio", "commit"} : inbox' = Append(inbox, [kind |-> kind, n |-> said'.client])
  BY DEF ClientSays
<1> DEFINE m == [kind |-> kind, n |-> said'.client]
<1>5. m \in Message /\ m.n = said'.client
  BY <1>3 DEF Message
<1>6. /\ inbox \in Seq(Message \cup {Leave}) /\ ~Has(inbox, Leave) /\ m # Leave /\ m \in Message \cup {Leave}
      /\ inbox' = Append(inbox, m)
  BY <1>0, <1>1, <1>4, <1>5, Marks DEF IInv, TypeOK, Places
<1> HIDE DEF m
<1>7. /\ inbox' \in Seq(Message \cup {Leave}) /\ Len(inbox') = Len(inbox) + 1
      /\ Last(inbox', Leave) /\ ~Has(inbox', Leave)
      /\ \A base \in Nat : Numbered(inbox, base) /\ m.n = base + Len(inbox) + 1 => Numbered(inbox', base)
  <2> DEFINE S == Message \cup {Leave}
  <2>1. inbox \in Seq(S) /\ m \in S
    BY <1>6
  <2> HIDE DEF S
  <2>2. \A base \in Nat : /\ inbox' \in Seq(S) /\ Len(inbox') = Len(inbox) + 1
                          /\ Last(inbox', Leave) /\ ~Has(inbox', Leave)
                          /\ Numbered(inbox, base) /\ m.n = base + Len(inbox) + 1 => Numbered(inbox', base)
    BY <1>5, <1>6, <2>1, QueueAppend
  <2>3. 0 \in Nat
    OBVIOUS
  <2> QED BY <2>2, <2>3 DEF S
<1>8. TypeOK'
  BY <1>1, <1>7 DEF IInv, TypeOK
<1>9. Types'
  <2>1. said'.client \in 0..MaxSaid /\ said'.service \in 0..MaxSaid
    BY <1>0, <1>2, <1>3
  <2>2. said' \in [client : 0..MaxSaid, service : 0..MaxSaid]
    BY <1>2, <2>1
  <2> QED BY <1>1, <2>2 DEF IInv, Types
<1>10. Places'
  BY <1>1, <1>7 DEF IInv, Places, Pumps, Ended, Live
<1>11. UpInOrder'
  <2> SUFFICES ASSUME upstream = "open", Live("up")
               PROVE  /\ Numbered(inbox', ServiceGot + Len(toService) + Carried("up"))
                      /\ said'.client = (ServiceGot + Len(toService) + Carried("up")) + Len(inbox')
    BY <1>1 DEF IInv, UpInOrder, Live, Carried, ServiceGot
  <2> DEFINE base == ServiceGot + Len(toService) + Carried("up")
  <2>1. base \in Nat
    BY <1>0 DEF Carried
  <2>2. Numbered(inbox, base) /\ said.client = base + Len(inbox)
    BY <1>0, <1>1 DEF IInv, UpInOrder
  <2> HIDE DEF base
  <2>3. said'.client = base + Len(inbox) + 1 /\ said'.client = base + Len(inbox')
    BY <1>0, <1>2, <1>7, <2>1, <2>2
  <2>4. Numbered(inbox', base)
    BY <1>5, <1>7, <2>1, <2>2, <2>3
  <2> QED BY <2>3, <2>4 DEF base
<1>12. DownInOrder'
  BY <1>1, <1>2, DownFrame DEF IInv
<1> QED BY <1>8, <1>9, <1>10, <1>11, <1>12 DEF IInv

LEMMA ClientLeavesInvariant == IInv /\ ClientLeaves => IInv'
<1> SUFFICES ASSUME IInv, ClientLeaves PROVE IInv'
  OBVIOUS
<1>0. /\ IInv /\ pump \in [Pumps -> PumpTypes] /\ "up" \in Pumps /\ "down" \in Pumps
      /\ ServiceGot \in Nat /\ Len(toService) \in Nat
  BY Typed
<1>1. /\ client = "there" /\ client' = "left" /\ inbox' = Append(inbox, Leave) /\ toClient' = <<>>
      /\ UNCHANGED <<handler, pump, upstream, service, said, heard, buffer, toService>>
      /\ ServiceGot' = ServiceGot /\ ClientGot' = ClientGot
  BY DEF ClientLeaves, Outside, history, ServiceGot, ClientGot
<1>2. inbox \in Seq(Message \cup {Leave}) /\ ~Has(inbox, Leave) /\ Leave \notin Message
  BY <1>0, <1>1, Marks DEF IInv, TypeOK, Places
<1>3. /\ inbox' \in Seq(Message \cup {Leave}) /\ Last(inbox', Leave)
      /\ \A base \in Nat : Numbered(inbox, base) => Numbered(inbox', base)
  <2> DEFINE S == Message \cup {Leave}
  <2>1. inbox \in Seq(S) /\ Leave \in S
    BY <1>2
  <2> HIDE DEF S
  <2>2. \A base \in Nat : /\ inbox' \in Seq(S) /\ Last(inbox', Leave)
                          /\ Numbered(inbox, base) => Numbered(inbox', base)
    BY <1>1, <1>2, <2>1, QueueAppend
  <2>3. 0 \in Nat
    OBVIOUS
  <2> QED BY <2>2, <2>3 DEF S
<1>4. TypeOK'
  BY <1>1, <1>3 DEF IInv, TypeOK
<1>5. Types'
  BY <1>1 DEF IInv, Types
<1>6. handler = "connecting" => Numbered(inbox', 0)
  BY <1>0, <1>3 DEF IInv, Places
<1>7. Places'
  BY <1>1, <1>3, <1>6 DEF IInv, Places, Pumps, Ended, Live
<1>8. UpInOrder'
  <2>1. ServiceGot + Len(toService) + Carried("up") \in Nat
    BY <1>0 DEF Carried
  <2> QED BY <1>1, <1>3, <2>1 DEF IInv, UpInOrder, Live, Carried, ServiceGot
<1>9. DownInOrder'
  <2>1. <<>> \in Seq(Message \cup {Bye})
    OBVIOUS
  <2> QED BY <1>1, <2>1, QueueEmpty DEF IInv, DownInOrder, ClientGot
<1> QED BY <1>4, <1>5, <1>7, <1>8, <1>9 DEF IInv

LEMMA ClientReadsInvariant == IInv /\ ClientReads => IInv'
<1> SUFFICES ASSUME IInv, ClientReads PROVE IInv'
  OBVIOUS
<1>0. /\ IInv /\ pump \in [Pumps -> PumpTypes] /\ "up" \in Pumps /\ "down" \in Pumps
      /\ ClientGot \in Nat /\ Len(toClient) \in Nat /\ heard.client \in Seq(0..MaxSaid)
      /\ heard.service \in Seq(1..MaxSaid) /\ MaxSaid \in Nat
      /\ heard = [client |-> heard.client, service |-> heard.service]
      /\ toClient \in Seq(Message \cup Errors \cup {Bye})
  BY Typed DEF IInv, Types
<1>1. /\ client = "there" /\ toClient # <<>> /\ toClient' = Tail(toClient)
      /\ UNCHANGED <<handler, pump, upstream, service, said, inbox, buffer, toService>>
      /\ handler # "connecting"
  BY DEF ClientReads, Outside, IInv, Places
<1>2. upstream # "none" =>
        /\ Head(toClient) \in Message \cup {Bye} /\ toClient' \in Seq(Message \cup {Bye})
        /\ Len(toClient) = Len(toClient') + 1
        /\ Last(toClient', Bye) /\ (Has(toClient', Bye) => Has(toClient, Bye))
        /\ Head(toClient) = Bye => toClient' = <<>> /\ Has(toClient, Bye)
        /\ Head(toClient) # Bye => /\ Head(toClient) \in Message /\ Head(toClient).n = ClientGot + 1
                                   /\ Numbered(toClient', ClientGot + 1)
                                   /\ Has(toClient, Bye) => Has(toClient', Bye)
  <2>1. upstream # "none" => /\ toClient \in Seq(Message \cup {Bye})
                             /\ Numbered(toClient, ClientGot) /\ Last(toClient, Bye)
    BY <1>0 DEF IInv, DownInOrder
  <2> QED BY <1>0, <1>1, <2>1, QueueShrinks
<1>3. toClient' \in Seq(Message \cup Errors \cup {Bye}) /\ Head(toClient) \in Message \cup Errors \cup {Bye}
  BY <1>0, <1>1
<1>4. TypeOK'
  BY <1>1 DEF IInv, TypeOK, ClientReads
<1>5. CASE Head(toClient) = Bye /\ client' = "told" /\ UNCHANGED heard
  <2>1. handler = "returned"
    BY <1>0, <1>1, <1>2, <1>5 DEF IInv, TypeOK, Places, DownInOrder
  <2>2. Types'
    BY <1>1, <1>3, <1>5 DEF IInv, Types
  <2>3. Places'
    BY <1>1, <1>5, <2>1 DEF IInv, Places, Pumps, Ended, Live, Last, Has
  <2>4. UpInOrder'
    BY <1>1, <1>5, UpFrame DEF IInv
  <2>5. DownInOrder'
    BY <1>0, <1>1, <1>2, <1>5, <2>1, QueueEmpty DEF IInv, DownInOrder, ClientGot
  <2> QED BY <1>4, <2>2, <2>3, <2>4, <2>5 DEF IInv
<1>6. CASE /\ Head(toClient) # Bye /\ UNCHANGED client
           /\ heard' = [heard EXCEPT !.client = Append(@, Head(toClient).n)]
  <2>1. heard'.client = Append(heard.client, Head(toClient).n) /\ heard'.service = heard.service
        /\ heard' = [client |-> heard'.client, service |-> heard'.service]
    BY <1>0, <1>6
  <2>2. Head(toClient).n \in 0..MaxSaid
    BY <1>0, <1>3, <1>6 DEF Message, Errors, Just
  <2>3. heard'.client \in Seq(0..MaxSaid)
    BY <1>0, <2>1, <2>2
  <2>4. Types'
    <3>1. heard' \in [client : Seq(0..MaxSaid), service : Seq(1..MaxSaid)]
      BY <1>0, <2>1, <2>3
    <3> QED BY <1>1, <1>3, <3>1 DEF IInv, Types
  <2>5. Places'
    BY <1>1, <1>6, <2>1 DEF IInv, Places, Pumps, Ended, Live, Last, Has
  <2>6. UpInOrder'
    BY <1>1, <1>6, <2>1, UpFrame DEF IInv
  <2>7. DownInOrder'
    <3> SUFFICES ASSUME upstream # "none" PROVE DownInOrder'
      BY <1>1 DEF DownInOrder
    <3>1. /\ heard'.client = OneTo(ClientGot') /\ ClientGot' = ClientGot + 1
      <4> DEFINE S == 0..MaxSaid  n == Head(toClient).n
      <4>1. heard.client \in Seq(S) /\ n \in S /\ n = Len(heard.client) + 1
            /\ heard.client = OneTo(Len(heard.client)) /\ heard'.client = Append(heard.client, n)
        BY <1>0, <1>2, <1>6, <2>1, <2>2 DEF IInv, DownInOrder, ClientGot
      <4> HIDE DEF S, n
      <4> QED BY <4>1, CountedOn DEF ClientGot
    <3>2. ClientGot' + Len(toClient') = ClientGot + Len(toClient)
      <4>1. Len(toClient') \in Nat /\ Len(toClient) = Len(toClient') + 1
        BY <1>2
      <4> QED BY <1>0, <3>1, <4>1
    <3>3. Carried("down")' = Carried("down") /\ Live("down")' = Live("down")
      BY <1>1 DEF Carried, Live
    <3> QED BY <1>1, <1>2, <1>6, <3>1, <3>2, <3>3 DEF IInv, DownInOrder
  <2> QED BY <1>4, <2>4, <2>5, <2>6, <2>7 DEF IInv
<1> QED BY <1>5, <1>6 DEF ClientReads

LEMMA ServiceReadsInvariant == IInv /\ ServiceReads => IInv'
<1> SUFFICES ASSUME IInv, ServiceReads PROVE IInv'
  OBVIOUS
<1>0. /\ IInv /\ pump \in [Pumps -> PumpTypes] /\ "up" \in Pumps /\ "down" \in Pumps
      /\ ServiceGot \in Nat /\ Len(toService) \in Nat /\ heard.client \in Seq(0..MaxSaid)
      /\ heard.service \in Seq(1..MaxSaid) /\ MaxSaid \in Nat
      /\ heard = [client |-> heard.client, service |-> heard.service]
      /\ toService \in Seq(Message \cup {Bye})
  BY Typed DEF IInv, TypeOK
<1>1. /\ service = "listening" /\ toService # <<>> /\ toService' = Tail(toService)
      /\ UNCHANGED <<handler, pump, upstream, client, said, inbox, buffer, toClient>>
      /\ upstream # "none" /\ service' \in {"listening", "committed", "done"}
  BY DEF ServiceReads, Outside, IInv, Places
<1>2. /\ Head(toService) \in Message \cup {Bye} /\ toService' \in Seq(Message \cup {Bye})
      /\ Len(toService) = Len(toService') + 1
      /\ Last(toService', Bye) /\ (Has(toService', Bye) => Has(toService, Bye))
      /\ Head(toService) = Bye => toService' = <<>> /\ Has(toService, Bye)
      /\ Head(toService) # Bye => /\ Head(toService) \in Message /\ Head(toService).n = ServiceGot + 1
                                  /\ Numbered(toService', ServiceGot + 1)
  <2>1. Numbered(toService, ServiceGot) /\ Last(toService, Bye)
    BY <1>0 DEF IInv, UpInOrder
  <2> QED BY <1>0, <1>1, <2>1, QueueShrinks
<1>3. TypeOK'
  BY <1>1, <1>2 DEF IInv, TypeOK
<1>4. CASE Head(toService) = Bye /\ UNCHANGED heard
  <2>1. upstream = "closed"
    BY <1>0, <1>2, <1>4 DEF IInv, UpInOrder
  <2>2. Types'
    BY <1>1, <1>4 DEF IInv, Types
  <2>3. Places'
    BY <1>1, <1>4 DEF IInv, Places, Pumps, Ended, Live, Last, Has
  <2>4. UpInOrder'
    BY <1>0, <1>1, <1>2, <1>4, <2>1, QueueEmpty DEF IInv, UpInOrder, ServiceGot
  <2>5. DownInOrder'
    BY <1>1, <1>4, DownFrame DEF IInv
  <2> QED BY <1>3, <2>2, <2>3, <2>4, <2>5 DEF IInv
<1>5. CASE /\ Head(toService) # Bye
           /\ heard' = [heard EXCEPT !.service = Append(@, Head(toService).n)]
  <2>1. heard'.service = Append(heard.service, Head(toService).n) /\ heard'.client = heard.client
        /\ heard' = [client |-> heard'.client, service |-> heard'.service]
    BY <1>0, <1>5
  <2>2. Head(toService).n \in 1..MaxSaid
    BY <1>2, <1>5 DEF Message
  <2>3. heard'.service \in Seq(1..MaxSaid)
    BY <1>0, <2>1, <2>2
  <2>4. Types'
    <3>1. heard' \in [client : Seq(0..MaxSaid), service : Seq(1..MaxSaid)]
      BY <1>0, <2>1, <2>3
    <3> QED BY <1>1, <3>1 DEF IInv, Types
  <2>5. Places'
    BY <1>1, <2>1 DEF IInv, Places, Pumps, Ended, Live, Last, Has
  <2>6. /\ heard'.service = OneTo(ServiceGot') /\ ServiceGot' = ServiceGot + 1
    <3> DEFINE S == 1..MaxSaid  n == Head(toService).n
    <3>1. heard.service \in Seq(S) /\ n \in S /\ n = Len(heard.service) + 1
          /\ heard.service = OneTo(Len(heard.service)) /\ heard'.service = Append(heard.service, n)
      BY <1>0, <1>2, <1>5, <2>1, <2>2 DEF IInv, UpInOrder, ServiceGot
    <3> HIDE DEF S, n
    <3> QED BY <3>1, CountedOn DEF ServiceGot
  <2>7. ServiceGot' + Len(toService') = ServiceGot + Len(toService)
    <3>1. Len(toService') \in Nat /\ Len(toService) = Len(toService') + 1
      BY <1>2
    <3> QED BY <1>0, <2>6, <3>1
  <2>8. Carried("up")' = Carried("up") /\ Live("up")' = Live("up")
    BY <1>1 DEF Carried, Live
  <2>9. UpInOrder'
    BY <1>0, <1>1, <1>2, <1>5, <2>6, <2>7, <2>8 DEF IInv, UpInOrder
  <2>10. DownInOrder'
    BY <1>1, <2>1, DownFrame DEF IInv
  <2> QED BY <1>3, <2>4, <2>5, <2>9, <2>10 DEF IInv
<1> QED BY <1>4, <1>5 DEF ServiceReads

LEMMA ServiceSaysInvariant == IInv /\ ServiceSays => IInv'
<1> SUFFICES ASSUME IInv, ServiceSays PROVE IInv'
  OBVIOUS
<1>0. /\ IInv /\ pump \in [Pumps -> PumpTypes] /\ "up" \in Pumps /\ "down" \in Pumps
      /\ ClientGot \in Nat /\ Len(toClient) \in Nat /\ Len(buffer) \in Nat /\ buffer \in Seq(Message)
      /\ said.client \in 0..MaxSaid /\ said.service \in 0..MaxSaid /\ MaxSaid \in Nat
      /\ said = [client |-> said.client, service |-> said.service]
  BY Typed DEF IInv, Types
<1>1. /\ upstream = "open" /\ said.service < MaxSaid
      /\ UNCHANGED <<handler, pump, upstream, client, service, heard, inbox, toService, toClient>>
      /\ ClientGot' = ClientGot
      /\ said' = [said EXCEPT !.service = @ + 1]
  BY DEF ServiceSays, Outside, ClientGot
<1>2. said'.service = said.service + 1 /\ said'.client = said.client
      /\ said' = [client |-> said'.client, service |-> said'.service]
  BY <1>0, <1>1
<1>3. said'.service \in 1..MaxSaid
  BY <1>0, <1>1, <1>2
<1> DEFINE m == [kind |-> "event", n |-> said'.service]
<1>4. m \in Message /\ m.n = said'.service /\ buffer' = Append(buffer, m)
  BY <1>3 DEF Message, ServiceSays
<1> HIDE DEF m
<1>5. /\ buffer' \in Seq(Message) /\ Len(buffer') = Len(buffer) + 1
      /\ \A base \in Nat : Numbered(buffer, base) /\ m.n = base + Len(buffer) + 1 => Numbered(buffer', base)
  <2>1. \A base \in Nat : /\ buffer' \in Seq(Message) /\ Len(buffer') = Len(buffer) + 1
                          /\ Numbered(buffer, base) /\ m.n = base + Len(buffer) + 1 => Numbered(buffer', base)
    BY <1>0, <1>4, QueueAppend
  <2>2. 0 \in Nat
    OBVIOUS
  <2> QED BY <2>1, <2>2
<1>6. TypeOK'
  BY <1>1 DEF IInv, TypeOK
<1>7. Types'
  <2>1. said'.client \in 0..MaxSaid /\ said'.service \in 0..MaxSaid
    BY <1>0, <1>2, <1>3
  <2>2. said' \in [client : 0..MaxSaid, service : 0..MaxSaid]
    BY <1>2, <2>1
  <2> QED BY <1>1, <1>5, <2>2 DEF IInv, Types
<1>8. Places'
  BY <1>1 DEF IInv, Places, Pumps, Ended, Live, Last, Has
<1>9. UpInOrder'
  BY <1>1, <1>2, UpFrame DEF IInv
<1>10. DownInOrder'
  <2>1. pump["down"].pc # "returned"
    BY <1>0, <1>1 DEF IInv, Places
  <2> SUFFICES ASSUME client = "there", Live("down")
               PROVE  /\ Numbered(buffer', ClientGot + Len(toClient) + Carried("down"))
                      /\ said'.service = (ClientGot + Len(toClient) + Carried("down")) + Len(buffer')
    BY <1>1, <2>1 DEF IInv, DownInOrder, Live, Carried, ClientGot
  <2> DEFINE base == ClientGot + Len(toClient) + Carried("down")
  <2>2. base \in Nat
    BY <1>0 DEF Carried
  <2>3. Numbered(buffer, base) /\ said.service = base + Len(buffer)
    BY <1>0, <1>1 DEF IInv, DownInOrder
  <2> HIDE DEF base
  <2>4. said'.service = base + Len(buffer) + 1 /\ said'.service = base + Len(buffer')
    BY <1>0, <1>2, <1>5, <2>2, <2>3
  <2>5. Numbered(buffer', base)
    BY <1>4, <1>5, <2>2, <2>3, <2>4
  <2> QED BY <2>4, <2>5 DEF base
<1> QED BY <1>6, <1>7, <1>8, <1>9, <1>10 DEF IInv

LEMMA ServiceClosesInvariant == IInv /\ ServiceCloses => IInv'
<1> SUFFICES ASSUME IInv, ServiceCloses PROVE IInv'
  OBVIOUS
<1>1. /\ service \in {"listening", "committed"} /\ service' = "done" /\ upstream' = "closed"
      /\ UNCHANGED <<handler, pump, client, said, heard, inbox, buffer, toService, toClient>>
      /\ upstream # "none"
  BY DEF ServiceCloses, Outside, links, history, IInv, Places
<1>2. TypeOK'
  BY <1>1 DEF IInv, TypeOK
<1>3. Types'
  BY <1>1 DEF IInv, Types
<1>4. Places'
  BY <1>1 DEF IInv, Places, Pumps, Ended, Live, Last, Has
<1>5. UpInOrder'
  BY <1>1, UpFrame DEF IInv
<1>6. DownInOrder'
  BY <1>1, DownFrame DEF IInv
<1> QED BY <1>2, <1>3, <1>4, <1>5, <1>6 DEF IInv

LEMMA UpstreamBreaksInvariant == IInv /\ UpstreamBreaks => IInv'
<1> SUFFICES ASSUME IInv, UpstreamBreaks PROVE IInv'
  OBVIOUS
<1>1. /\ upstream = "open" /\ upstream' = "closed" /\ toService' = <<Bye>>
      /\ UNCHANGED <<handler, pump, client, service, said, heard, inbox, buffer, toClient>>
      /\ ServiceGot' = ServiceGot
  BY DEF UpstreamBreaks, Outside, history, ServiceGot
<1>2. /\ <<Bye>> \in Seq(Message \cup {Bye}) /\ Last(<<Bye>>, Bye)
      /\ Numbered(<<Bye>>, ServiceGot)
  BY Marks DEF Last, Numbered
<1>3. TypeOK'
  BY <1>1, <1>2 DEF IInv, TypeOK
<1>4. Types'
  BY <1>1 DEF IInv, Types
<1>5. Places'
  BY <1>1 DEF IInv, Places, Pumps, Ended, Live, Last, Has
<1>6. UpInOrder'
  BY <1>1, <1>2 DEF IInv, UpInOrder, ServiceGot
<1>7. DownInOrder'
  BY <1>1, DownFrame DEF IInv
<1> QED BY <1>3, <1>4, <1>5, <1>6, <1>7 DEF IInv

-----------------------------------------------------------------------------
(* The theorems.                                                             *)

LEMMA NextInvariant == IInv /\ [Next]_vars => IInv'
<1> SUFFICES ASSUME IInv, [Next]_vars PROVE IInv'
  OBVIOUS
<1>1. CASE Connected BY <1>1, ConnectedInvariant
<1>2. CASE Refused BY <1>2, RefusedInvariant
<1>3. CASE FirstCompleted BY <1>3, FirstCompletedInvariant
<1>4. CASE CloseUpstream BY <1>4, CloseUpstreamInvariant
<1>5. CASE CloseClient BY <1>5, CloseClientInvariant
<1>6. CASE UpReceive BY <1>6, UpReceiveInvariant
<1>7. CASE UpSend BY <1>7, UpSendInvariant
<1>8. CASE DownReceive BY <1>8, DownReceiveInvariant
<1>9. CASE DownSend BY <1>9, DownSendInvariant
<1>10. CASE ClientSays BY <1>10, ClientSaysInvariant
<1>11. CASE ClientLeaves BY <1>11, ClientLeavesInvariant
<1>12. CASE ClientReads BY <1>12, ClientReadsInvariant
<1>13. CASE ServiceReads BY <1>13, ServiceReadsInvariant
<1>14. CASE ServiceSays BY <1>14, ServiceSaysInvariant
<1>15. CASE ServiceCloses BY <1>15, ServiceClosesInvariant
<1>16. CASE UpstreamBreaks BY <1>16, UpstreamBreaksInvariant
<1>17. CASE UNCHANGED vars
  BY <1>17 DEF vars, links, history, IInv, TypeOK, Types, Places, UpInOrder, DownInOrder,
               Live, Carried, Ended, ServiceGot, ClientGot, Numbered, Last, Has
<1> QED BY <1>1, <1>2, <1>3, <1>4, <1>5, <1>6, <1>7, <1>8, <1>9, <1>10, <1>11, <1>12,
           <1>13, <1>14, <1>15, <1>16, <1>17 DEF Next

\* In every behaviour of the proxy, the handler, its pumps and the connections are where
\* they can be together, and what is on its way in either direction is in order.
THEOREM ProxyInvariant == Spec => []IInv
  BY InitInvariant, NextInvariant, PTL DEF Spec

\* Every variable keeps its type.
THEOREM TypeCorrect == Spec => []TypeOK
<1>1. IInv => TypeOK
  BY DEF IInv
<1> QED BY <1>1, ProxyInvariant, PTL

\* What each peer of the proxy has got is what the other has said, from the first on and
\* without a gap (the loops of client_to_upstream and upstream_to_client).
THEOREM NoGapsEver == Spec => []NoGaps
<1>1. IInv => NoGaps
  BY DEF IInv, NoGaps, UpInOrder, DownInOrder, ServiceGot, ClientGot
<1> QED BY <1>1, ProxyInvariant, PTL

\* The messages of a queue to the client, without the mark of the end.
LEMMA WithoutBye ==
  ASSUME NEW q, Len(q) \in Nat, DOMAIN q = 1..Len(q), Last(q, Bye)
  PROVE  /\ ~Has(q, Bye) => Cardinality({i \in DOMAIN q : q[i] # Bye}) = Len(q)
         /\ Has(q, Bye) => Cardinality({i \in DOMAIN q : q[i] # Bye}) = Len(q) - 1
<1>1. CASE ~Has(q, Bye)
  <2>1. {i \in DOMAIN q : q[i] # Bye} = 1..Len(q)
    BY <1>1 DEF Has
  <2>2. Cardinality(1..Len(q)) = Len(q)
    <3> DEFINE n == Len(q)
    <3>1. n \in Nat
      OBVIOUS
    <3> HIDE DEF n
    <3>2. Cardinality(1..n) = n
      BY <3>1, FS_Interval
    <3> QED BY <3>2 DEF n
  <2> QED BY <1>1, <2>1, <2>2
<1>2. CASE Has(q, Bye)
  <2>1. Len(q) \in 1..Len(q) /\ q[Len(q)] = Bye
    BY <1>2 DEF Has, Last
  <2>2. {i \in DOMAIN q : q[i] # Bye} = 1..(Len(q) - 1)
    <3> DEFINE n == Len(q)
    <3>1. n \in Nat /\ DOMAIN q = 1..n /\ q[n] = Bye /\ \A i \in 1..n : q[i] = Bye => i = n
      BY <2>1 DEF Last
    <3> HIDE DEF n
    <3>2. \A i : i \in 1..(n - 1) <=> i \in 1..n /\ i # n
      BY <3>1
    <3>3. \A i \in 1..n : q[i] # Bye <=> i # n
      BY <3>1
    <3>4. {i \in DOMAIN q : q[i] # Bye} = 1..(n - 1)
      BY <3>1, <3>2, <3>3
    <3> QED BY <3>4 DEF n
  <2>3. Cardinality(1..(Len(q) - 1)) = Len(q) - 1
    <3> DEFINE n == Len(q) - 1
    <3>1. n \in Nat
      BY <2>1
    <3> HIDE DEF n
    <3>2. Cardinality(1..n) = n
      BY <3>1, FS_Interval
    <3> QED BY <3>2 DEF n
  <2> QED BY <1>2, <2>2, <2>3
<1> QED BY <1>1, <1>2

\* When the proxy is through with a client that has stayed, whatever the service said has
\* reached it or is on its way to it: the pump from the service has read all that had come
\* before it noticed the end, and the pump to the service did not end first.
THEOREM AnswersReach == Spec => []AnswersArrive
<1>1. IInv => AnswersArrive
  <2> SUFFICES ASSUME IInv, handler \in {"ending", "closing", "returned"}, client = "there",
                      upstream # "none", pump["up"].pc # "raised"
               PROVE  ClientGot + Cardinality({i \in DOMAIN toClient : toClient[i] # Bye}) = said.service
    BY DEF AnswersArrive, ClientGot
  <2>1. pump["down"].pc = "returned"
    BY DEF IInv, Places, Ended
  <2>2. /\ ClientGot \in Nat /\ Len(toClient) \in Nat /\ said.service \in Nat
        /\ DOMAIN toClient = 1..Len(toClient)
    BY Typed DEF IInv, Types
  <2>3. /\ Last(toClient, Bye) /\ (Has(toClient, Bye) <=> handler = "returned")
        /\ said.service = (ClientGot + Len(toClient) + 0) - (IF handler = "returned" THEN 1 ELSE 0)
    BY <2>1 DEF IInv, DownInOrder, Carried
  <2>4. CASE handler = "returned"
    <3>1. Cardinality({i \in DOMAIN toClient : toClient[i] # Bye}) = Len(toClient) - 1
      BY <2>2, <2>3, <2>4, WithoutBye
    <3>2. said.service = (ClientGot + Len(toClient) + 0) - 1
      BY <2>3, <2>4
    <3>3. ClientGot + (Len(toClient) - 1) = (ClientGot + Len(toClient) + 0) - 1
      BY <2>2
    <3> QED BY ONLY <3>1, <3>2, <3>3, Zenon
  <2>5. CASE handler # "returned"
    <3>1. Cardinality({i \in DOMAIN toClient : toClient[i] # Bye}) = Len(toClient)
      BY <2>2, <2>3, <2>5, WithoutBye
    <3>2. said.service = (ClientGot + Len(toClient) + 0) - 0
      BY <2>3, <2>5
    <3>3. ClientGot + Len(toClient) = (ClientGot + Len(toClient) + 0) - 0
      BY <2>2
    <3> QED BY ONLY <3>1, <3>2, <3>3, Zenon
  <2> QED BY <2>4, <2>5
<1> QED BY <1>1, ProxyInvariant, PTL
=============================================================================
