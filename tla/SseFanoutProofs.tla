--------------------------- MODULE SseFanoutProofs ---------------------------
(***************************************************************************)
(* What the live events owe a browser, for every number of nodes, users,   *)
(* streams, events and faults.                                             *)
(***************************************************************************)
EXTENDS SseFanout, SequenceTheorems, TLAPS

-----------------------------------------------------------------------------
(* What is in a sequence, and in which order *)

In(q, e) == \E i \in 1..Len(q) : q[i] = e

Before(q, e, f) == \E i, j \in 1..Len(q) : i < j /\ q[i] = e /\ q[j] = f

\* An element that is appended comes after all others.
LEMMA AppendOrder ==
    ASSUME NEW S, NEW q \in Seq(S), NEW x \in S
    PROVE  /\ \A e : In(Append(q, x), e) <=> In(q, e) \/ e = x
           /\ \A e, f : Before(Append(q, x), e, f) <=> Before(q, e, f) \/ (In(q, e) /\ f = x)
  <1>1. /\ Len(q) \in Nat
        /\ Len(Append(q, x)) = Len(q) + 1
        /\ \A i \in 1..Len(q) : Append(q, x)[i] = q[i]
        /\ Append(q, x)[Len(q) + 1] = x
    OBVIOUS
  <1>2. \A e : In(Append(q, x), e) <=> In(q, e) \/ e = x
    BY <1>1 DEF In
  <1>3. ASSUME NEW e, NEW f, Before(Append(q, x), e, f)
        PROVE  Before(q, e, f) \/ (In(q, e) /\ f = x)
    BY <1>1, <1>3 DEF In, Before
  <1>4. ASSUME NEW e, NEW f, Before(q, e, f)
        PROVE  Before(Append(q, x), e, f)
    BY <1>1, <1>4 DEF Before
  <1>5. ASSUME NEW e, NEW f, In(q, e), f = x
        PROVE  Before(Append(q, x), e, f)
    BY <1>1, <1>5 DEF In, Before
  <1> QED BY <1>2, <1>3, <1>4, <1>5

\* The head comes before all that is left when it is taken.
LEMMA TailOrder ==
    ASSUME NEW S, NEW q \in Seq(S), q # <<>>
    PROVE  /\ In(q, Head(q))
           /\ \A e : In(q, e) <=> e = Head(q) \/ In(Tail(q), e)
           /\ \A e : In(Tail(q), e) => Before(q, Head(q), e)
           /\ \A e, f : Before(Tail(q), e, f) => Before(q, e, f)
  <1>1. /\ Len(q) \in Nat \ {0} /\ Len(Tail(q)) = Len(q) - 1
        /\ Head(q) = q[1]
        /\ \A i \in 1..Len(Tail(q)) : Tail(q)[i] = q[i + 1]
    BY EmptySeq, HeadTailProperties
  <1>2. \A i \in 2..Len(q) : i - 1 \in 1..Len(Tail(q)) /\ Tail(q)[i - 1] = q[i]
    BY <1>1
  <1>3. In(q, Head(q)) BY <1>1 DEF In
  <1>4. ASSUME NEW e, In(q, e) PROVE e = Head(q) \/ In(Tail(q), e)
    <2>1. PICK i \in 1..Len(q) : q[i] = e BY <1>4 DEF In
    <2>2. CASE i = 1 BY <1>1, <2>1, <2>2
    <2>3. CASE i # 1
      <3>1. i \in 2..Len(q) BY <1>1, <2>1, <2>3
      <3> QED BY <1>2, <2>1, <3>1 DEF In
    <2> QED BY <2>2, <2>3
  <1>5. ASSUME NEW e, In(Tail(q), e) PROVE In(q, e) /\ Before(q, Head(q), e)
    <2>1. PICK i \in 1..Len(Tail(q)) : Tail(q)[i] = e BY <1>5 DEF In
    <2>2. i + 1 \in 1..Len(q) /\ 1 \in 1..Len(q) /\ 1 < i + 1 /\ q[i + 1] = e BY <1>1, <2>1
    <2> QED BY <1>1, <2>2 DEF In, Before
  <1>6. ASSUME NEW e, NEW f, Before(Tail(q), e, f) PROVE Before(q, e, f)
    <2>1. PICK i, j \in 1..Len(Tail(q)) : i < j /\ Tail(q)[i] = e /\ Tail(q)[j] = f
      BY <1>6 DEF Before
    <2>2. /\ i + 1 \in 1..Len(q) /\ j + 1 \in 1..Len(q) /\ i + 1 < j + 1
          /\ q[i + 1] = e /\ q[j + 1] = f
      BY <1>1, <2>1
    <2> QED BY <2>2 DEF Before
  <1> QED BY <1>3, <1>4, <1>5, <1>6

LEMMA EmptyOrder ==
    /\ \A e : ~In(<<>>, e)
    /\ \A e, f : ~Before(<<>>, e, f)
  BY DEF In, Before

LEMMA BeforeIn ==
    ASSUME NEW q, NEW e, NEW f, Before(q, e, f)
    PROVE  In(q, e) /\ In(q, f)
  BY DEF In, Before

\* ToSet of the community modules.
LEMMA ToSetIn ==
    ASSUME NEW S, NEW q \in Seq(S), NEW e
    PROVE  e \in ToSet(q) <=> In(q, e)
  BY DEF ToSet, In

-----------------------------------------------------------------------------
(* The inductive invariant *)

\* Events are numbered as they are sent, and an event that Redis has not seen yet is
\* nowhere else.
Numbered ==
    /\ \A n \in Node, e \in Event :
          In(outbox[n], e) \/ In(inbox[n], e) => e.no < sent
    /\ \A s \in Stream, e \in Event : In(written[s], e) \/ e \in due[s] => e.no < sent

Unforwarded ==
    \A n \in Node : \A i \in 1..Len(outbox[n]) :
        /\ \A m \in Node : \A j \in 1..Len(outbox[m]) :
              outbox[n][i] = outbox[m][j] => m = n /\ j = i
        /\ \A m \in Node : ~In(inbox[m], outbox[n][i])
        /\ \A s \in Stream : ~In(written[s], outbox[n][i])

\* e comes before f in what a stream shows, in what a node is still to write, or because
\* a stream of the node shows e while f is on its way to the node.
Precedes(e, f) ==
    \/ \E s \in Stream : Before(written[s], e, f)
    \/ \E n \in Node : Before(inbox[n], e, f)
    \/ \E s \in Stream : host[s] # Null /\ In(written[s], e) /\ In(inbox[host[s]], f)

\* The channel has one order, although no component stores it.
Ordered == \A e, f \in Event : ~(Precedes(e, f) /\ Precedes(f, e))

\* A stream shows and is owed events of its own user; while its socket is open it is
\* in its node's clients map.
Owned ==
    /\ \A s \in Stream, e \in Event : In(written[s], e) \/ e \in due[s] => e.user = owner[s]
    /\ \A s \in Stream : host[s] # Null => s \in registered[host[s]]

FanoutInv ==
    /\ SseTypeOK /\ Numbered /\ Unforwarded /\ Ordered /\ Owned
    /\ NothingSkipped

-----------------------------------------------------------------------------
(* Types *)

LEMMA SeqOps ==
    ASSUME NEW S, NEW q \in Seq(S)
    PROVE  /\ <<>> \in Seq(S)
           /\ q # <<>> => Head(q) \in S /\ Tail(q) \in Seq(S)
           /\ \A e \in S : Append(q, e) \in Seq(S)
           /\ \A e : In(q, e) => e \in S
           /\ ToSet(q) \subseteq S
  <1>1. q # <<>> => Head(q) \in S /\ Tail(q) \in Seq(S) BY HeadTailProperties
  <1>2. \A e : In(q, e) => e \in S BY ElementOfSeq DEF In
  <1>3. ToSet(q) \subseteq S BY <1>2, ToSetIn
  <1> QED BY <1>1, <1>2, <1>3

\* Every step keeps the types.
LEMMA TypeStep == SseTypeOK /\ [SseNext]_sseVars => SseTypeOK'
  <1> SUFFICES ASSUME SseTypeOK, [SseNext]_sseVars PROVE SseTypeOK'
    OBVIOUS
  <1>1. ASSUME NEW s \in Stream, NEW n \in Node, Close(s, n) PROVE SseTypeOK'
    BY <1>1 DEF SseTypeOK, Close, channel
  <1>2. ASSUME NEW s \in Stream, NEW n \in Node, NEW u \in User, Open(s, u, n) PROVE SseTypeOK'
    <2>1. /\ owner' \in [Stream -> User \cup {Null}]
          /\ host' \in [Stream -> Node \cup {Null}]
          /\ registered' \in [Node -> SUBSET Stream]
          /\ written' \in [Stream -> Seq(Event)]
          /\ due' \in [Stream -> SUBSET Event]
      BY <1>2 DEF SseTypeOK, Open
    <2>2. \A m \in Node : \A t \in registered'[m] : owner'[t] # Null
      BY <1>2, SseAssumption DEF SseTypeOK, Open
    <2> QED BY <1>2, <2>1, <2>2 DEF SseTypeOK, Open, channel
  <1>3. ASSUME NEW s \in Stream, Leave(s) PROVE SseTypeOK'
    BY <1>3 DEF SseTypeOK, Leave, channel
  <1>4. ASSUME NEW n \in Node, NEW u \in User, SendEvent(n, u) PROVE SseTypeOK'
    <2>1. [user |-> u, no |-> sent] \in Event BY DEF SseTypeOK, Event
    <2>2. outbox' \in [Node -> Seq(Event)] BY <1>4, <2>1 DEF SseTypeOK, SendEvent
    <2> QED BY <1>4, <2>2 DEF SseTypeOK, SendEvent, streams
  <1>5. ASSUME NEW n \in Node, Forward(n) PROVE SseTypeOK'
    <2>1. Head(outbox[n]) \in Event /\ Tail(outbox[n]) \in Seq(Event)
      BY <1>5, SeqOps DEF SseTypeOK, Forward
    <2>2. /\ outbox' \in [Node -> Seq(Event)]
          /\ inbox' \in [Node -> Seq(Event)]
          /\ due' \in [Stream -> SUBSET Event]
      BY <1>5, <2>1 DEF SseTypeOK, Forward
    <2> QED BY <1>5, <2>2 DEF SseTypeOK, Forward
  <1>6. ASSUME NEW n \in Node, Receive(n) PROVE SseTypeOK'
    <2>1. Head(inbox[n]) \in Event /\ Tail(inbox[n]) \in Seq(Event)
      BY <1>6, SeqOps DEF SseTypeOK, Receive
    <2>2. inbox' \in [Node -> Seq(Event)] /\ written' \in [Stream -> Seq(Event)]
      BY <1>6, <2>1 DEF SseTypeOK, Receive
    <2> QED BY <1>6, <2>2 DEF SseTypeOK, Receive
  <1>7. ASSUME NEW n \in Node, Subscribe(n) PROVE SseTypeOK'
    BY <1>7 DEF SseTypeOK, Subscribe, streams
  <1>8. ASSUME NEW n \in Node, LoseRedis(n) PROVE SseTypeOK'
    <2>1. inbox' \in [Node -> Seq(Event)] /\ due' \in [Stream -> SUBSET Event]
      BY <1>8 DEF SseTypeOK, LoseRedis
    <2> QED BY <1>8, <2>1 DEF SseTypeOK, LoseRedis
  <1>9. ASSUME NEW n \in Node, Restart(n) PROVE SseTypeOK'
    <2>1. /\ outbox' \in [Node -> Seq(Event)] /\ inbox' \in [Node -> Seq(Event)]
          /\ host' \in [Stream -> Node \cup {Null}]
          /\ registered' \in [Node -> SUBSET Stream]
      BY <1>9 DEF SseTypeOK, Restart
    <2> QED BY <1>9, <2>1 DEF SseTypeOK, Restart
  <1>10. CASE UNCHANGED sseVars
    BY <1>10 DEF SseTypeOK, sseVars, channel, streams
  <1> QED
    BY <1>1, <1>2, <1>3, <1>4, <1>5, <1>6, <1>7, <1>8, <1>9, <1>10 DEF SseNext

\* Every stream, registry and queue of the nodes keeps its type.
THEOREM TypeCorrect == SseSpec => []SseTypeOK
  <1>1. SseInit => SseTypeOK BY SeqOps DEF SseInit, SseTypeOK
  <1> QED BY <1>1, TypeStep, PTL DEF SseSpec

-----------------------------------------------------------------------------
(* One lemma for each kind of step *)

\* An order to which a step adds nothing stays an order.
LEMMA StillOrdered ==
    ASSUME Ordered, \A e, f \in Event : Precedes(e, f)' => Precedes(e, f)
    PROVE  Ordered'
  BY DEF Ordered

LEMMA Sequences ==
    ASSUME SseTypeOK
    PROVE  /\ sent \in Nat
           /\ \A n \in Node : outbox[n] \in Seq(Event) /\ inbox[n] \in Seq(Event)
           /\ \A s \in Stream : written[s] \in Seq(Event)
           /\ \A n \in Node, e \in Event : e \in ToSet(inbox[n]) <=> In(inbox[n], e)
           /\ \A s \in Stream, e \in Event : e \in ToSet(written[s]) <=> In(written[s], e)
  BY ToSetIn DEF SseTypeOK

\* Steps that leave all sequences alone: streams that go, and a node that subscribes.
LEMMA QuietKeeps ==
    ASSUME FanoutInv, SseTypeOK', UNCHANGED <<sent, outbox, inbox, owner, written, due>>,
           \A s \in Stream : host'[s] # Null =>
               host'[s] = host[s] /\ (s \in registered[host[s]] => s \in registered'[host[s]])
    PROVE  FanoutInv'
  <1>1. Numbered' /\ Unforwarded' BY DEF FanoutInv, Numbered, Unforwarded
  <1>2. Ordered'
    <2>1. \A e, f \in Event : Precedes(e, f)' => Precedes(e, f) BY DEF Precedes
    <2> QED BY <2>1, StillOrdered DEF FanoutInv
  <1>3. Owned' BY DEF FanoutInv, Owned
  <1>4. NothingSkipped' BY DEF FanoutInv, NothingSkipped
  <1> QED BY <1>1, <1>2, <1>3, <1>4 DEF FanoutInv

LEMMA OpenKeeps ==
    ASSUME FanoutInv, SseTypeOK', NEW s \in Stream, NEW u \in User, NEW n \in Node, Open(s, u, n)
    PROVE  FanoutInv'
  <1>1. /\ UNCHANGED <<sent, outbox, inbox>>
        /\ written'[s] = <<>> /\ due'[s] = {} /\ host'[s] = n /\ s \in registered'[n]
        /\ \A t \in Stream \ {s} : /\ written'[t] = written[t] /\ due'[t] = due[t]
                                   /\ host'[t] = host[t] /\ owner'[t] = owner[t]
        /\ \A m \in Node : registered[m] \subseteq registered'[m]
    BY DEF Open, channel, FanoutInv, SseTypeOK
  <1>2. \A e, f : ~In(written'[s], e) /\ ~Before(written'[s], e, f)
    BY <1>1, EmptyOrder
  <1>3. Numbered' BY <1>1, <1>2 DEF FanoutInv, Numbered
  <1>4. Unforwarded'
    <2>1. Unforwarded /\ outbox' = outbox /\ inbox' = inbox BY <1>1 DEF FanoutInv
    <2>2. \A t \in Stream : \A e : In(written'[t], e) => In(written[t], e) BY <1>1, <1>2
    <2> QED BY <2>1, <2>2 DEF Unforwarded
  <1>5. Ordered'
    <2>1. \A e, f \in Event : Precedes(e, f)' => Precedes(e, f)
      BY <1>1, <1>2 DEF Precedes
    <2> QED BY <2>1, StillOrdered DEF FanoutInv
  <1>6. Owned'
    <2>1. \A t \in Stream \ {s} : host[t] # Null => host[t] \in Node
      BY DEF FanoutInv, SseTypeOK
    <2> QED BY <1>1, <1>2, <2>1 DEF FanoutInv, Owned
  <1>7. NothingSkipped' BY <1>1 DEF FanoutInv, NothingSkipped
  <1> QED BY <1>3, <1>4, <1>5, <1>6, <1>7 DEF FanoutInv

LEMMA SendKeeps ==
    ASSUME FanoutInv, SseTypeOK', NEW n \in Node, NEW u \in User, SendEvent(n, u)
    PROVE  FanoutInv'
  <1> DEFINE x == [user |-> u, no |-> sent]
  <1>1. /\ sent' = sent + 1 /\ UNCHANGED <<inbox, owner, host, registered, written, due>>
        /\ outbox'[n] = Append(outbox[n], x)
        /\ \A m \in Node \ {n} : outbox'[m] = outbox[m]
    BY DEF SendEvent, FanoutInv, SseTypeOK, streams
  <1>2. sent \in Nat /\ outbox[n] \in Seq(Event) /\ x \in Event /\ x.no = sent
    BY DEF FanoutInv, SseTypeOK, Event
  <1> HIDE DEF x
  <1>3. Numbered'
    <2>1. \A e : In(outbox'[n], e) <=> In(outbox[n], e) \/ e = x BY <1>1, <1>2, AppendOrder
    <2>2. ASSUME NEW e \in Event, e.no < sent PROVE e.no < sent'
      <3>1. e.no \in Nat BY DEF Event
      <3> QED BY <1>1, <1>2, <2>2, <3>1
    <2>3. x.no < sent' BY <1>1, <1>2
    <2>4. ASSUME NEW m \in Node, NEW e \in Event, In(outbox'[m], e) \/ In(inbox'[m], e)
          PROVE  e.no < sent'
      BY <1>1, <2>1, <2>2, <2>3, <2>4 DEF FanoutInv, Numbered
    <2>5. ASSUME NEW s \in Stream, NEW e \in Event, In(written'[s], e) \/ e \in due'[s]
          PROVE  e.no < sent'
      BY <1>1, <2>2, <2>5 DEF FanoutInv, Numbered
    <2> QED BY <2>4, <2>5 DEF Numbered
  <1>4. Unforwarded'
    \* The new event is in no outbox yet, and in no inbox or stream.
    <2>1. /\ \A m \in Node : ~In(outbox[m], x) /\ ~In(inbox[m], x)
          /\ \A s \in Stream : ~In(written[s], x)
      BY <1>2 DEF FanoutInv, Numbered
    <2>2. \A m \in Node : Len(outbox[m]) \in Nat BY Sequences DEF FanoutInv
    <2>3. \A m \in Node : \A i \in 1..Len(outbox'[m]) :
             \/ i \in 1..Len(outbox[m]) /\ outbox'[m][i] = outbox[m][i]
             \/ m = n /\ i = Len(outbox[n]) + 1 /\ outbox'[m][i] = x
      <3>1. ASSUME NEW i \in 1..Len(outbox'[n])
            PROVE  \/ i \in 1..Len(outbox[n]) /\ outbox'[n][i] = outbox[n][i]
                   \/ i = Len(outbox[n]) + 1 /\ outbox'[n][i] = x
        BY <1>1, <1>2
      <3> QED BY <1>1, <3>1
    <2>4. \A m \in Node : \A i \in 1..Len(outbox[m]) : outbox[m][i] # x
      BY <2>1 DEF In
    <2>5. ASSUME NEW m \in Node, NEW i \in 1..Len(outbox'[m]),
                 NEW k \in Node, NEW j \in 1..Len(outbox'[k]),
                 outbox'[m][i] = outbox'[k][j]
          PROVE  k = m /\ j = i
      <3>1. CASE i \in 1..Len(outbox[m]) /\ outbox'[m][i] = outbox[m][i]
        <4>1. j \in 1..Len(outbox[k]) /\ outbox'[k][j] = outbox[k][j]
          BY <2>3, <2>4, <2>5, <3>1
        <4>2. outbox[m][i] = outbox[k][j] BY <2>5, <3>1, <4>1
        <4> QED BY <3>1, <4>1, <4>2 DEF FanoutInv, Unforwarded
      <3>2. CASE m = n /\ i = Len(outbox[n]) + 1 /\ outbox'[m][i] = x
        <4>1. k = n /\ j = Len(outbox[n]) + 1 BY <2>3, <2>4, <2>5, <3>2
        <4> QED BY <3>2, <4>1
      <3> QED BY <2>3, <3>1, <3>2
    <2>6. ASSUME NEW m \in Node, NEW i \in 1..Len(outbox'[m])
          PROVE  /\ \A k \in Node : ~In(inbox'[k], outbox'[m][i])
                 /\ \A s \in Stream : ~In(written'[s], outbox'[m][i])
      BY <1>1, <2>1, <2>3 DEF FanoutInv, Unforwarded, streams
    <2> QED BY <2>5, <2>6 DEF Unforwarded
  <1>5. Ordered'
    <2>1. \A e, f \in Event : Precedes(e, f)' => Precedes(e, f)
      BY <1>1 DEF Precedes, streams
    <2> QED BY <2>1, StillOrdered DEF FanoutInv
  <1>6. Owned' BY <1>1 DEF FanoutInv, Owned, streams
  <1>7. NothingSkipped' BY <1>1 DEF FanoutInv, NothingSkipped, streams
  <1> QED BY <1>3, <1>4, <1>5, <1>6, <1>7 DEF FanoutInv

LEMMA ForwardKeeps ==
    ASSUME FanoutInv, SseTypeOK', NEW n \in Node, Forward(n)
    PROVE  FanoutInv'
  <1> DEFINE x == Head(outbox[n])
  <1>1. /\ UNCHANGED <<sent, owner, host, registered, written>>
        /\ outbox[n] # <<>> /\ outbox'[n] = Tail(outbox[n])
        /\ \A m \in Node \ {n} : outbox'[m] = outbox[m]
        /\ \A m \in Node : inbox'[m] = IF m \in subscribed THEN Append(inbox[m], x) ELSE inbox[m]
        /\ \A s \in Stream :
              due'[s] = IF \E m \in subscribed : s \in Audience(m, x)
                        THEN due[s] \cup {x} ELSE due[s]
    BY DEF Forward, FanoutInv, SseTypeOK
  <1>2. /\ SseTypeOK /\ subscribed \subseteq Node
        /\ \A m \in Node : outbox[m] \in Seq(Event) /\ inbox[m] \in Seq(Event)
    BY DEF FanoutInv, SseTypeOK
  <1>3. /\ x \in Event /\ In(outbox[n], x)
        /\ Len(outbox[n]) \in Nat \ {0} /\ Len(outbox'[n]) = Len(outbox[n]) - 1
        /\ x = outbox[n][1]
        /\ \A i \in 1..Len(outbox'[n]) : outbox'[n][i] = outbox[n][i + 1]
    BY <1>1, <1>2, EmptySeq, HeadTailProperties, TailOrder
  <1> HIDE DEF x
  <1>4. \A m \in Node : \A e : In(inbox'[m], e) => In(inbox[m], e) \/ e = x
    BY <1>1, <1>2, <1>3, AppendOrder
  \* The event is nowhere but at the head of its outbox.
  <1>5. /\ \A m \in Node : ~In(inbox[m], x)
        /\ \A s \in Stream : ~In(written[s], x)
    BY <1>3 DEF FanoutInv, Unforwarded
  <1>6. \A m \in Node : \A i \in 1..Len(outbox'[m]) :
           \E j \in 1..Len(outbox[m]) :
              /\ outbox'[m][i] = outbox[m][j]
              /\ IF m = n THEN j = i + 1 ELSE j = i
    <2>1. ASSUME NEW i \in 1..Len(outbox'[n])
          PROVE  i + 1 \in 1..Len(outbox[n]) /\ outbox'[n][i] = outbox[n][i + 1]
      BY <1>3
    <2> QED BY <1>1, <2>1
  <1>7. Numbered'
    <2>1. x.no < sent BY <1>3 DEF FanoutInv, Numbered
    <2>2. \A e : In(outbox'[n], e) => In(outbox[n], e) BY <1>1, <1>2, TailOrder
    <2>3. \A s \in Stream, e \in Event : e \in due'[s] => e \in due[s] \/ e = x BY <1>1
    <2> QED BY <1>1, <1>4, <2>1, <2>2, <2>3 DEF FanoutInv, Numbered
  <1>8. Unforwarded'
    <2>1. ASSUME NEW m \in Node, NEW i \in 1..Len(outbox'[m]),
                 NEW k \in Node, NEW j \in 1..Len(outbox'[k]),
                 outbox'[m][i] = outbox'[k][j]
          PROVE  k = m /\ j = i
      <3>1. PICK a \in 1..Len(outbox[m]) :
               outbox'[m][i] = outbox[m][a] /\ IF m = n THEN a = i + 1 ELSE a = i
        BY <1>6
      <3>2. PICK b \in 1..Len(outbox[k]) :
               outbox'[k][j] = outbox[k][b] /\ IF k = n THEN b = j + 1 ELSE b = j
        BY <1>6
      <3>3. k = m /\ b = a
        <4>1. outbox[m][a] = outbox[k][b] BY <2>1, <3>1, <3>2
        <4> QED BY <4>1 DEF FanoutInv, Unforwarded
      <3>4. \A q : 1..Len(q) \subseteq Int OBVIOUS
      <3>5. i \in Int /\ j \in Int BY <3>4
      <3> QED BY <3>1, <3>2, <3>3, <3>5
    <2>2. ASSUME NEW m \in Node, NEW i \in 1..Len(outbox'[m])
          PROVE  /\ \A k \in Node : ~In(inbox'[k], outbox'[m][i])
                 /\ \A s \in Stream : ~In(written'[s], outbox'[m][i])
      <3>1. PICK a \in 1..Len(outbox[m]) :
               outbox'[m][i] = outbox[m][a] /\ IF m = n THEN a = i + 1 ELSE a = i
        BY <1>6
      <3>2. outbox[m][a] # x
        <4>1. 1 \in 1..Len(outbox[n]) BY <1>3
        <4>2. CASE m = n
          <5>1. a # 1
            <6>1. i # 0 OBVIOUS
            <6> QED BY <3>1, <4>2, <6>1
          <5> QED BY <1>3, <4>1, <4>2, <5>1 DEF FanoutInv, Unforwarded
        <4>3. CASE m # n
          BY <1>3, <4>1, <4>3 DEF FanoutInv, Unforwarded
        <4> QED BY <4>2, <4>3
      <3> QED BY <1>1, <1>4, <3>1, <3>2 DEF FanoutInv, Unforwarded
    <2> QED BY <2>1, <2>2 DEF Unforwarded
  <1>9. Ordered'
    <2>1. \A m \in Node : \A e, f :
             Before(inbox'[m], e, f) => Before(inbox[m], e, f) \/ (In(inbox[m], e) /\ f = x)
      BY <1>1, <1>2, <1>3, AppendOrder
    \* The new event comes after all others, and before none.
    <2>2. \A e, f \in Event : Precedes(e, f)' => Precedes(e, f) \/ f = x
      <3>1. \A s \in Stream : host[s] # Null => host[s] \in Node BY <1>2 DEF SseTypeOK
      <3> SUFFICES ASSUME NEW e \in Event, NEW f \in Event, Precedes(e, f)'
                   PROVE  Precedes(e, f) \/ f = x
        OBVIOUS
      <3>2. CASE \E s \in Stream : Before(written'[s], e, f) BY <1>1, <3>2 DEF Precedes
      <3>3. CASE \E m \in Node : Before(inbox'[m], e, f)
        BY <1>4, <2>1, <3>3, BeforeIn DEF Precedes
      <3>4. CASE \E s \in Stream : /\ host'[s] # Null /\ In(written'[s], e)
                                   /\ In(inbox'[host'[s]], f)
        BY <1>1, <1>4, <3>1, <3>4 DEF Precedes
      <3> QED BY <3>2, <3>3, <3>4 DEF Precedes
    <2>3. ASSUME NEW e \in Event, NEW f \in Event, e = x, Precedes(e, f)'
          PROVE  FALSE
      <3>1. \A s \in Stream : ~In(written'[s], e) BY <1>1, <1>5, <2>3
      <3>2. \A m \in Node : ~Before(inbox'[m], e, f) BY <1>5, <2>1, <2>3, BeforeIn
      <3> QED BY <2>3, <3>1, <3>2, BeforeIn DEF Precedes
    <2> QED BY <2>2, <2>3 DEF FanoutInv, Ordered
  <1>10. Owned'
    <2>1. \A m \in Node, s \in Stream : s \in Audience(m, x) => x.user = owner[s]
      BY DEF Audience
    <2>2. \A s \in Stream, e \in Event : e \in due'[s] => e \in due[s] \/ e.user = owner[s]
      BY <1>1, <1>2, <2>1
    <2> QED BY <1>1, <2>2 DEF FanoutInv, Owned
  <1>11. NothingSkipped'
    <2>1. ASSUME NEW s \in Stream, host[s] # Null, NEW e \in due'[s]
          PROVE  e \in ToSet(written[s]) \/ In(inbox'[host[s]], e)
      <3>1. host[s] \in Node /\ e \in Event BY <1>2, <2>1 DEF SseTypeOK
      <3>2. \A f : In(inbox[host[s]], f) => In(inbox'[host[s]], f)
        BY <1>1, <1>2, <1>3, <3>1, AppendOrder
      <3>3. CASE e \in due[s]
        BY <1>2, <2>1, <3>1, <3>2, <3>3, Sequences DEF FanoutInv, NothingSkipped
      <3>4. CASE e \notin due[s]
        <4>1. e = x /\ host[s] \in subscribed BY <1>1, <2>1, <3>4 DEF Audience
        <4> QED BY <1>1, <1>2, <1>3, <3>1, <4>1, AppendOrder
      <3> QED BY <3>3, <3>4
    <2>2. \A s \in Stream, e \in Event : host[s] # Null =>
             (In(inbox'[host[s]], e) => e \in ToSet(inbox'[host[s]]))
      <3>1. \A m \in Node : inbox'[m] \in Seq(Event) BY DEF SseTypeOK
      <3>2. \A s \in Stream : host[s] # Null => host[s] \in Node BY <1>2 DEF SseTypeOK
      <3> QED BY <3>1, <3>2, ToSetIn
    <2>3. \A s \in Stream : due'[s] \subseteq Event BY DEF SseTypeOK
    <2> QED BY <1>1, <2>1, <2>2, <2>3 DEF NothingSkipped
  <1> QED BY <1>7, <1>8, <1>9, <1>10, <1>11 DEF FanoutInv

LEMMA ReceiveKeeps ==
    ASSUME FanoutInv, SseTypeOK', NEW n \in Node, Receive(n)
    PROVE  FanoutInv'
  <1> DEFINE x == Head(inbox[n])
  <1>1. /\ UNCHANGED <<sent, outbox, owner, host, registered, due>>
        /\ inbox[n] # <<>> /\ inbox'[n] = Tail(inbox[n])
        /\ \A m \in Node \ {n} : inbox'[m] = inbox[m]
        /\ \A s \in Stream : written'[s] = IF s \in Audience(n, x)
                                           THEN Append(written[s], x) ELSE written[s]
    BY DEF Receive, FanoutInv, SseTypeOK
  <1>2. /\ inbox[n] \in Seq(Event)
        /\ \A s \in Stream : written[s] \in Seq(Event) /\ (host[s] # Null => host[s] \in Node)
    BY DEF FanoutInv, SseTypeOK
  <1>3. x \in Event /\ In(inbox[n], x) BY <1>1, <1>2, SeqOps, TailOrder
  <1>4. \A e : In(inbox[n], e) <=> e = x \/ In(inbox'[n], e) BY <1>1, <1>2, TailOrder
  <1>5. \A s \in Stream : s \in Audience(n, x) => host[s] = n /\ x.user = owner[s]
    BY DEF Audience
  <1>6. \A s \in Stream : s \in Audience(n, x) <=> host[s] = n /\ s \in registered[n] /\ owner[s] = x.user
    BY <1>1 DEF Audience, FanoutInv, SseTypeOK
  <1>7. \A s \in Stream : \A e, f :
           /\ In(written'[s], e) => In(written[s], e) \/ (e = x /\ s \in Audience(n, x))
           /\ In(written[s], e) => In(written'[s], e)
           /\ s \in Audience(n, x) => In(written'[s], x)
           /\ Before(written'[s], e, f) =>
                 \/ Before(written[s], e, f)
                 \/ In(written[s], e) /\ f = x /\ s \in Audience(n, x)
    BY <1>1, <1>2, <1>3, AppendOrder
  <1>8. \A m \in Node : \A e : In(inbox'[m], e) => In(inbox[m], e) BY <1>1, <1>4
  <1>9. \A m \in Node : \A e, f : Before(inbox'[m], e, f) => Before(inbox[m], e, f)
    BY <1>1, <1>2, TailOrder
  <1>10. \A e : In(inbox'[n], e) => Before(inbox[n], x, e) BY <1>1, <1>2, TailOrder
  <1> HIDE DEF x
  <1>11. Numbered' BY <1>1, <1>3, <1>7, <1>8 DEF FanoutInv, Numbered
  <1>12. Unforwarded'
    <2>1. \A m \in Node : \A i \in 1..Len(outbox[m]) : outbox[m][i] # x
      BY <1>3 DEF FanoutInv, Unforwarded
    <2>2. ASSUME NEW m \in Node, NEW i \in 1..Len(outbox[m])
          PROVE  /\ \A k \in Node : ~In(inbox'[k], outbox[m][i])
                 /\ \A s \in Stream : ~In(written'[s], outbox[m][i])
      <3>1. /\ \A k \in Node : ~In(inbox[k], outbox[m][i])
            /\ \A s \in Stream : ~In(written[s], outbox[m][i])
        BY DEF FanoutInv, Unforwarded
      <3>2. outbox[m][i] # x BY <2>1
      <3>3. \A k \in Node : ~In(inbox'[k], outbox[m][i]) BY <1>8, <3>1
      <3>4. \A s \in Stream : ~In(written'[s], outbox[m][i]) BY <1>7, <3>1, <3>2
      <3> QED BY <3>3, <3>4
    <2> QED BY <1>1, <2>2 DEF FanoutInv, Unforwarded
  <1>13. Ordered'
    <2>1. ASSUME NEW e \in Event, NEW f \in Event, Precedes(e, f)'
          PROVE  Precedes(e, f)
      \* The event that is written was on its way to the node when the others were there.
      <3>1. ASSUME NEW s \in Stream, Before(written'[s], e, f) PROVE Precedes(e, f)
        BY <1>1, <1>3, <1>5, <1>7, <3>1, SseAssumption DEF Precedes
      <3>2. ASSUME NEW m \in Node, Before(inbox'[m], e, f) PROVE Precedes(e, f)
        BY <1>9, <3>2 DEF Precedes
      <3>3. ASSUME NEW s \in Stream, host'[s] # Null, In(written'[s], e), In(inbox'[host'[s]], f)
            PROVE  Precedes(e, f)
        <4>1. host[s] \in Node /\ host'[s] = host[s] BY <1>1, <1>2, <3>3
        <4>2. CASE In(written[s], e) BY <1>8, <3>3, <4>1, <4>2 DEF Precedes
        <4>3. CASE e = x /\ s \in Audience(n, x)
          BY <1>5, <1>10, <3>3, <4>1, <4>3 DEF Precedes
        <4> QED BY <1>7, <3>3, <4>2, <4>3
      <3> QED BY <2>1, <3>1, <3>2, <3>3 DEF Precedes
    <2> QED BY <2>1, StillOrdered DEF FanoutInv
  <1>14. Owned' BY <1>1, <1>5, <1>7 DEF FanoutInv, Owned
  <1>15. NothingSkipped'
    <2>1. ASSUME NEW s \in Stream, host[s] # Null, NEW e \in due[s]
          PROVE  In(written'[s], e) \/ In(inbox'[host[s]], e)
      <3>1. host[s] \in Node /\ e \in Event /\ s \in registered[host[s]] /\ e.user = owner[s]
        BY <1>2, <2>1 DEF FanoutInv, Owned, SseTypeOK
      <3>2. In(written[s], e) \/ In(inbox[host[s]], e)
        BY <2>1, <3>1, Sequences DEF FanoutInv, NothingSkipped
      <3> QED BY <1>1, <1>4, <1>6, <1>7, <3>1, <3>2
    <2>2. \A s \in Stream : written'[s] \in Seq(Event) BY DEF SseTypeOK
    <2>3. \A m \in Node : inbox'[m] \in Seq(Event) BY DEF SseTypeOK
    <2>4. ASSUME NEW s \in Stream, host[s] # Null, NEW e \in due[s]
          PROVE  e \in ToSet(written'[s]) \cup ToSet(inbox'[host[s]])
      <3>1. host[s] \in Node BY <1>2, <2>4
      <3> QED BY <2>1, <2>2, <2>3, <2>4, <3>1, ToSetIn
    <2> QED BY <1>1, <2>4 DEF NothingSkipped
  <1> QED BY <1>11, <1>12, <1>13, <1>14, <1>15 DEF FanoutInv

LEMMA LoseRedisKeeps ==
    ASSUME FanoutInv, SseTypeOK', NEW n \in Node, LoseRedis(n)
    PROVE  FanoutInv'
  <1>1. /\ UNCHANGED <<sent, outbox, owner, host, registered, written>>
        /\ inbox'[n] = <<>>
        /\ \A m \in Node \ {n} : inbox'[m] = inbox[m]
        /\ \A s \in Stream :
              due'[s] = IF host[s] = n THEN due[s] \ ToSet(inbox[n]) ELSE due[s]
    BY DEF LoseRedis, FanoutInv, SseTypeOK
  <1>2. \A s \in Stream : host[s] # Null => host[s] \in Node BY DEF FanoutInv, SseTypeOK
  <1>3. /\ \A m \in Node : \A e : In(inbox'[m], e) => In(inbox[m], e)
        /\ \A m \in Node : \A e, f : Before(inbox'[m], e, f) => Before(inbox[m], e, f)
    BY <1>1, EmptyOrder
  <1>4. Numbered' BY <1>1, <1>3 DEF FanoutInv, Numbered
  <1>5. Unforwarded' BY <1>1, <1>3 DEF FanoutInv, Unforwarded
  <1>6. Ordered'
    <2>1. \A e, f \in Event : Precedes(e, f)' => Precedes(e, f)
      BY <1>1, <1>2, <1>3 DEF Precedes
    <2> QED BY <2>1, StillOrdered DEF FanoutInv
  <1>7. Owned' BY <1>1 DEF FanoutInv, Owned
  <1>8. NothingSkipped' BY <1>1, <1>2 DEF FanoutInv, NothingSkipped
  <1> QED BY <1>4, <1>5, <1>6, <1>7, <1>8 DEF FanoutInv

LEMMA RestartKeeps ==
    ASSUME FanoutInv, SseTypeOK', NEW n \in Node, Restart(n)
    PROVE  FanoutInv'
  <1>1. /\ UNCHANGED <<sent, owner, written, due>>
        /\ outbox'[n] = <<>> /\ inbox'[n] = <<>>
        /\ \A m \in Node \ {n} : /\ outbox'[m] = outbox[m] /\ inbox'[m] = inbox[m]
                                 /\ registered'[m] = registered[m]
        /\ \A s \in Stream : host'[s] = IF host[s] = n THEN Null ELSE host[s]
    BY DEF Restart, FanoutInv, SseTypeOK
  <1>2. \A s \in Stream : host[s] # Null => host[s] \in Node BY DEF FanoutInv, SseTypeOK
  <1>3. /\ \A m \in Node : \A e : In(inbox'[m], e) => In(inbox[m], e)
        /\ \A m \in Node : \A e, f : Before(inbox'[m], e, f) => Before(inbox[m], e, f)
        /\ \A m \in Node : \A e : In(outbox'[m], e) => In(outbox[m], e)
    BY <1>1, EmptyOrder
  <1>4. Numbered' BY <1>1, <1>3 DEF FanoutInv, Numbered
  <1>5. Unforwarded'
    <2>1. \A m \in Node : \A i \in 1..Len(outbox'[m]) :
             m # n /\ i \in 1..Len(outbox[m]) /\ outbox'[m][i] = outbox[m][i]
      BY <1>1
    <2> QED BY <1>1, <1>3, <2>1 DEF FanoutInv, Unforwarded
  <1>6. Ordered'
    <2>1. \A e, f \in Event : Precedes(e, f)' => Precedes(e, f)
      BY <1>1, <1>2, <1>3 DEF Precedes
    <2> QED BY <2>1, StillOrdered DEF FanoutInv
  <1>7. Owned' BY <1>1, <1>2 DEF FanoutInv, Owned
  <1>8. NothingSkipped' BY <1>1, <1>2 DEF FanoutInv, NothingSkipped
  <1> QED BY <1>4, <1>5, <1>6, <1>7, <1>8 DEF FanoutInv

-----------------------------------------------------------------------------
(* The invariant and its consequences *)

LEMMA FanoutStep == FanoutInv /\ [SseNext]_sseVars => FanoutInv'
  <1> SUFFICES ASSUME FanoutInv, [SseNext]_sseVars PROVE FanoutInv'
    OBVIOUS
  <1>1. SseTypeOK' BY TypeStep DEF FanoutInv
  <1>2. ASSUME NEW s \in Stream, NEW n \in Node, Close(s, n) PROVE FanoutInv'
    <2>1. \A t \in Stream : host[t] # Null => host[t] \in Node BY DEF FanoutInv, SseTypeOK
    <2> QED BY <1>1, <1>2, <2>1, QuietKeeps DEF Close, channel, FanoutInv, SseTypeOK
  <1>3. ASSUME NEW s \in Stream, Leave(s) PROVE FanoutInv'
    BY <1>1, <1>3, QuietKeeps DEF Leave, channel, FanoutInv, SseTypeOK
  <1>4. ASSUME NEW n \in Node, Subscribe(n) PROVE FanoutInv'
    BY <1>1, <1>4, QuietKeeps DEF Subscribe, streams
  <1>5. CASE UNCHANGED sseVars
    BY <1>1, <1>5, QuietKeeps DEF sseVars, channel, streams
  <1> QED
    BY <1>1, <1>2, <1>3, <1>4, <1>5, OpenKeeps, SendKeeps, ForwardKeeps, ReceiveKeeps,
       LoseRedisKeeps, RestartKeeps
    DEF SseNext

LEMMA FanoutInit == SseInit => FanoutInv
  <1> SUFFICES ASSUME SseInit PROVE FanoutInv
    OBVIOUS
  <1>1. SseTypeOK BY SeqOps DEF SseInit, SseTypeOK
  <1>2. Numbered BY EmptyOrder DEF SseInit, Numbered
  <1>3. Unforwarded BY DEF SseInit, Unforwarded
  <1>4. Ordered BY EmptyOrder DEF SseInit, Ordered, Precedes
  <1>5. Owned BY EmptyOrder DEF SseInit, Owned
  <1>6. NothingSkipped BY DEF SseInit, NothingSkipped
  <1> QED BY <1>1, <1>2, <1>3, <1>4, <1>5, <1>6 DEF FanoutInv

\* The invariant holds of every fan-out.
THEOREM FanoutInvariant == SseSpec => []FanoutInv
  BY FanoutInit, FanoutStep, PTL DEF SseSpec

LEMMA OrderedShows == FanoutInv => OneOrder
  <1> SUFFICES ASSUME FanoutInv, NEW s \in Stream, NEW t \in Stream,
                      NEW i \in 1..Len(written[s]), NEW j \in 1..Len(written[s])
               PROVE  /\ written[s][i].user = owner[s]
                      /\ i < j =>
                            /\ written[s][i] # written[s][j]
                            /\ ~ \E k, l \in 1..Len(written[t]) :
                                    /\ k < l
                                    /\ written[t][k] = written[s][j]
                                    /\ written[t][l] = written[s][i]
    BY DEF OneOrder
  <1> DEFINE e == written[s][i]
             f == written[s][j]
  <1>1. e \in Event /\ f \in Event BY ElementOfSeq, Sequences DEF FanoutInv
  <1>2. In(written[s], e) BY DEF In
  <1>3. e.user = owner[s] BY <1>1, <1>2 DEF FanoutInv, Owned
  <1>4. ASSUME i < j PROVE ~Precedes(f, e)
    <2>1. Precedes(e, f) BY <1>4 DEF Precedes, Before
    <2> QED BY <1>1, <2>1 DEF FanoutInv, Ordered
  <1>5. ASSUME i < j, e = f PROVE FALSE
    <2>1. Before(written[s], f, e) BY <1>5 DEF Before
    <2> QED BY <1>4, <1>5, <2>1 DEF Precedes
  <1>6. ASSUME i < j, NEW k \in 1..Len(written[t]), NEW l \in 1..Len(written[t]),
               k < l, written[t][k] = f, written[t][l] = e
        PROVE  FALSE
    <2>1. Before(written[t], f, e) BY <1>6 DEF Before
    <2> QED BY <1>4, <1>6, <2>1 DEF Precedes
  <1> QED BY <1>3, <1>5, <1>6

\* Every stream shows each event once, its own user's, and no two streams show two events
\* in different orders, whichever nodes send, restart or reconnect.
THEOREM OneOrderCorrect == SseSpec => []OneOrder
  BY FanoutInvariant, OrderedShows, PTL

\* What was sent to a stream's node is shown or on its way.
THEOREM NothingSkippedCorrect == SseSpec => []NothingSkipped
  <1>1. FanoutInv => NothingSkipped BY DEF FanoutInv
  <1> QED BY <1>1, FanoutInvariant, PTL
=============================================================================
