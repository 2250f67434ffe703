-------------------------- MODULE GroupStreamProofs --------------------------
(***************************************************************************)
(* Proofs about GroupStream, for any events, callers, buffer, number of    *)
(* streams and number of faults: an Ack that returned nil has settled its  *)
(* event, no member of the group outlives Unsubscribe, and an event that   *)
(* is out and was read can be settled.                                     *)
(***************************************************************************)
EXTENDS GroupStream, FiniteSetTheorems, TLAPS

\* What is on the wire and in the channels.
Acks == [by : Callers, id : Nat \ {0}, ev : Events, kind : {"ack", "nak"}]
EventFrames == [type : {"event"}, ev : Events]
ResultFrames == [type : {"ok", "rejected"}, by : Callers, id : Nat \ {0}]
Frames == EventFrames \cup ResultFrames
Items == [ev : Events, on : Streams]

\* The server's variables have their types.
ServerTypes ==
    /\ member \in [Streams -> {"none", "member", "ended"}]
    /\ held \in [Streams -> SUBSET Events]
    /\ settled \in SUBSET Events
    /\ up \in [Streams -> Seq(Acks)] /\ down \in [Streams -> Seq(Frames)]

\* Those of the run goroutine and the pump.
RunTypes ==
    /\ opened \in 0 .. MaxStreams /\ cur \in 0 .. MaxStreams
    /\ ended \in [Streams -> BOOLEAN] /\ halfClosed \in [Streams -> BOOLEAN]
    /\ copies \in [Streams -> [Events -> Nat]]
    /\ run = "offering" => offer \in Events
    /\ queue \in Seq(Items) /\ events \in Seq(Items)
    /\ pump = "offering" => hand \in Items
    /\ stop \in {"no", "stopping", "returned"}

\* Those of the callers.
CallTypes ==
    /\ at \in [Callers -> {"idle", "holding", "entered", "sending", "sent", "stuck"}]
    /\ ev \in [Callers -> Items \cup {Nothing}]
    /\ via \in [Callers -> 0 .. MaxStreams] /\ ack \in [Callers -> Nat]
    /\ kind \in [Callers -> {"ack", "nak"}]
    /\ box \in [Callers -> {"none", "ok", "rejected", "ended"}]
    /\ waiting \in SUBSET Callers
    /\ nextAck \in [Streams -> Nat]

\* Before the first stream nothing was received.
NoStreamYet ==
    /\ cur = 0 =>
         /\ run \in {"opening", "joined", "failed"} /\ pump = "scan"
         /\ events = <<>> /\ \A k \in Callers : at[k] = "idle"
         /\ stop = "no"
    /\ run = "joined" => opened # 0

\* A call of settle: what it has at each of its places.
CallPlaces ==
    \A k \in Callers :
        /\ at[k] # "idle" => ev[k] \in Items
        /\ at[k] \in {"idle", "holding", "entered"} =>
              ack[k] = 0 /\ box[k] = "none" /\ k \notin waiting
        /\ at[k] \in {"sending", "sent", "stuck"} => ack[k] # 0
        /\ at[k] \in {"entered", "sending", "sent", "stuck"} => via[k] \in Streams

\* Streams are joined one after the other.
InOrder == \A s \in Streams : s > opened => member[s] = "none"

TypesInv == ServerTypes /\ RunTypes /\ CallTypes /\ NoStreamYet /\ CallPlaces /\ InOrder

\* What a queue holds.
Elems(q) == {q[i] : i \in 1 .. Len(q)}

\* The event went out on the stream and has not come back, or somebody settled
\* it or sent it back.
Reached(s, e) == member[s] = "ended" \/ e \in held[s] \cup settled \cup nakked

\* Only events that went out on a stream are counted, acked, or on their way
\* there.
OnlyReached ==
    /\ \A s \in Streams : \A f \in Elems(down[s]) : f.type = "event" => Reached(s, f.ev)
    /\ \A s \in Streams : \A e \in Events : copies[s][e] # 0 => Reached(s, e)
    /\ \A s \in Streams : \A a \in Elems(up[s]) :
           Reached(s, a.ev) /\ (a.kind = "nak" => a.ev \in nakked)
    /\ \A k \in Callers : at[k] = "sending" => Reached(via[k], ev[k].ev)

\* The ack ids in use on a stream that has not ended were all handed out by it.
FreshIds ==
    \A s \in Streams : ~ended[s] =>
        /\ \A a \in Elems(up[s]) : a.id <= nextAck[s]
        /\ \A f \in Elems(down[s]) : f.type # "event" => f.id <= nextAck[s]
        /\ \A k \in Callers : via[k] = s => ack[k] <= nextAck[s]

\* The ack and its result belong to the call that waits for them, and an OK
\* means that the event is settled or was sent back.
ResultsMatch ==
    /\ \A s \in Streams : \A a \in Elems(up[s]) :
           via[a.by] = s /\ ack[a.by] = a.id => ev[a.by].ev = a.ev /\ kind[a.by] = a.kind
    /\ \A s \in Streams : \A f \in Elems(down[s]) :
           f.type = "ok" /\ via[f.by] = s /\ ack[f.by] = f.id /\ kind[f.by] = "ack" =>
               ev[f.by].ev \in settled \cup nakked
    /\ \A k \in Callers : box[k] = "ok" /\ kind[k] = "ack" => ev[k].ev \in settled \cup nakked

\* The inductive invariant.
GroupInv == TypesInv /\ OnlyReached /\ FreshIds /\ ResultsMatch /\ AckedIsSettled

-----------------------------------------------------------------------------
(* Queues, and which steps leave what alone. *)

\* Queueing and taking.
LEMMA Queues ==
    ASSUME NEW S, NEW q \in Seq(S)
    PROVE  /\ Elems(<<>>) = {} /\ Elems(q) \subseteq S
           /\ \A m \in S : Append(q, m) \in Seq(S) /\ Elems(Append(q, m)) = Elems(q) \cup {m}
           /\ q # <<>> => /\ Head(q) \in S /\ Head(q) \in Elems(q)
                          /\ Tail(q) \in Seq(S) /\ Elems(Tail(q)) \subseteq Elems(q)
<1>1. Elems(<<>>) = {} /\ Elems(q) \subseteq S
  BY DEF Elems
<1>2. ASSUME NEW m \in S PROVE Append(q, m) \in Seq(S) /\ Elems(Append(q, m)) = Elems(q) \cup {m}
  <2>1. /\ Append(q, m) \in Seq(S) /\ Len(Append(q, m)) = Len(q) + 1 /\ Len(q) \in Nat
        /\ \A i \in 1 .. Len(q) : Append(q, m)[i] = q[i]
        /\ Append(q, m)[Len(q) + 1] = m
    OBVIOUS
  <2> QED
    BY <2>1 DEF Elems
<1>3. ASSUME q # <<>>
      PROVE  /\ Head(q) \in S /\ Head(q) \in Elems(q)
             /\ Tail(q) \in Seq(S) /\ Elems(Tail(q)) \subseteq Elems(q)
  <2>1. /\ Head(q) = q[1] /\ Len(q) \in Nat \ {0} /\ Head(q) \in S
        /\ Tail(q) \in Seq(S) /\ Len(Tail(q)) = Len(q) - 1
        /\ \A i \in 1 .. Len(Tail(q)) : Tail(q)[i] = q[i + 1]
    BY <1>3
  <2>2. Head(q) \in Elems(q)
    BY <2>1 DEF Elems
  <2>3. Elems(Tail(q)) \subseteq Elems(q)
    BY <2>1 DEF Elems
  <2> QED
    BY <2>1, <2>2, <2>3
<1> QED
  BY <1>1, <1>2, <1>3

\* The reader is on a stream.
LEMMA Reading ==
    ASSUME TypesInv, run \notin {"opening", "joined", "failed"} PROVE cur \in Streams
BY DEF TypesInv, NoStreamYet, RunTypes, Streams

\* The steps that do not involve the wire.
OffWire(k) ==
    \/ Registered \/ OpenFails \/ Reconnect \/ Signal \/ Offered \/ Exit \/ Closed \/ PumpSteps
    \/ Take(k) \/ Abandon(k) \/ (\E how \in {"ack", "nak"} : Settle(k, how))
    \/ Register(k) \/ SendFails(k) \/ SendStuck(k) \/ StuckReturns(k) \/ Answered(k) \/ TimesOut(k)
    \/ Unsubscribe \/ HalfClose \/ ForceCancel \/ JoinCtxDone \/ IdleTimeout

\* Every step is one of these, of the server, of open, of the reader or a Send.
LEMMA StepKinds ==
    ASSUME Next
    PROVE  \/ ServerSteps \/ StreamJoined \/ ReadEvent \/ SkipMalformed \/ ReadAuto \/ ReadResult \/ ReadEnds
           \/ Registered \/ OpenFails \/ Reconnect \/ Signal \/ Offered \/ Exit \/ Closed \/ PumpSteps
           \/ Unsubscribe \/ HalfClose \/ ForceCancel \/ JoinCtxDone \/ IdleTimeout
           \/ \E k \in Callers : CallerSteps(k)
BY DEF Next, RunSteps

\* They leave the server and its wire alone, and nothing is sent back.
LEMMA OffWireFrame ==
    ASSUME NEW k, OffWire(k) PROVE UNCHANGED <<member, held, settled, up, down, nakked>>
<1>1. CASE Registered \/ OpenFails \/ Reconnect \/ Signal \/ Offered \/ Exit \/ Closed \/ PumpSteps
  BY <1>1 DEF Registered, OpenFails, Reconnect, Signal, Offered, Exit, Closed, PumpSteps, PumpScan,
     PumpOffers, PumpWakes, server, history
<1>2. CASE \/ Take(k) \/ Abandon(k) \/ (\E how \in {"ack", "nak"} : Settle(k, how))
           \/ Register(k) \/ SendFails(k) \/ SendStuck(k) \/ StuckReturns(k) \/ Answered(k) \/ TimesOut(k)
  BY <1>2 DEF Take, Abandon, Settle, Register, SendFails, SendStuck, StuckReturns, Answered, TimesOut,
     server, history
<1>3. CASE Unsubscribe \/ HalfClose \/ ForceCancel \/ JoinCtxDone \/ IdleTimeout
  BY <1>3 DEF Unsubscribe, HalfClose, ForceCancel, JoinCtxDone, IdleTimeout, server, history
<1> QED
  BY <1>1, <1>2, <1>3 DEF OffWire

-----------------------------------------------------------------------------
(* Types. *)

\* A frame the reader takes.
LEMMA FrameTaken ==
    ASSUME TypesInv, NEW t, NextFrame(t)
    PROVE  /\ cur \in Streams /\ down[cur] \in Seq(Frames) /\ down[cur] # <<>>
           /\ Head(down[cur]) \in Frames /\ Head(down[cur]) \in Elems(down[cur])
           /\ Head(down[cur]).type = t
           /\ down' \in [Streams -> Seq(Frames)]
           /\ \A s \in Streams : Elems(down'[s]) \subseteq Elems(down[s])
<1>1. /\ cur \in Streams /\ down[cur] # <<>> /\ Head(down[cur]).type = t
      /\ down \in [Streams -> Seq(Frames)] /\ down' = [down EXCEPT ![cur] = Tail(@)]
  BY Reading DEF TypesInv, ServerTypes, NextFrame
<1>2. /\ down[cur] \in Seq(Frames) /\ Head(down[cur]) \in Frames
      /\ Head(down[cur]) \in Elems(down[cur])
      /\ Tail(down[cur]) \in Seq(Frames) /\ Elems(Tail(down[cur])) \subseteq Elems(down[cur])
  <2>1. down[cur] \in Seq(Frames)
    BY <1>1
  <2> QED
    BY <1>1, <2>1, Queues
<1> QED
  BY <1>1, <1>2

\* An event frame names an event, a result a caller and an id.
LEMMA FrameFields ==
    ASSUME NEW f \in Frames
    PROVE  /\ f.type \in {"event", "ok", "rejected"}
           /\ f.type = "event" => f.ev \in Events
           /\ f.type # "event" => f.by \in Callers /\ f.id \in Nat \ {0}
BY DEF Frames, EventFrames, ResultFrames

\* What Return leaves: a call that is over.
LEMMA Returned ==
    ASSUME CallTypes, NEW k \in Callers, NEW place \in {"idle", "holding"}, Return(k, place)
    PROVE  /\ at' = [at EXCEPT ![k] = place] /\ box' = [box EXCEPT ![k] = "none"]
           /\ waiting' = waiting \ {k} /\ via' = [via EXCEPT ![k] = 0]
           /\ ack' = [ack EXCEPT ![k] = 0] /\ kind' = [kind EXCEPT ![k] = "ack"]
           /\ ev' \in [Callers -> Items \cup {Nothing}]
           /\ \A l \in Callers : (l # k \/ place = "holding") => ev'[l] = ev[l]
BY DEF Return, CallTypes

\* The server's types.
LEMMA ServerTypesStep ==
    ASSUME TypesInv, [Next]_vars PROVE ServerTypes'
<1>0. ServerTypes
  BY DEF TypesInv
<1>1. CASE UNCHANGED <<member, held, settled, up, down>>
  BY <1>0, <1>1 DEF ServerTypes
<1>2. ASSUME NEW s \in Streams, NEW e \in Events, ServerSends(s, e) PROVE ServerTypes'
  <2>1. [type |-> "event", ev |-> e] \in Frames /\ down[s] \in Seq(Frames)
    BY <1>0 DEF Frames, EventFrames, ServerTypes
  <2>2. Append(down[s], [type |-> "event", ev |-> e]) \in Seq(Frames)
    BY <2>1
  <2> QED
    BY <1>0, <1>2, <2>2 DEF ServerTypes, ServerSends
<1>3. ASSUME NEW s \in Streams, ServerAnswers(s) PROVE ServerTypes'
  <2> DEFINE a == Head(up[s])
  <2>1. up[s] \in Seq(Acks) /\ up[s] # <<>> /\ down[s] \in Seq(Frames)
    BY <1>0, <1>3 DEF ServerTypes, ServerAnswers
  <2>2. a \in Acks /\ Tail(up[s]) \in Seq(Acks)
    BY <2>1, Queues
  <2>3. /\ a.ev \in Events
        /\ \A t \in {"ok", "rejected"} :
              Append(down[s], [type |-> t, by |-> a.by, id |-> a.id]) \in Seq(Frames)
    BY <2>1, <2>2 DEF Acks, Frames, ResultFrames
  <2>4. /\ up' = [up EXCEPT ![s] = Tail(@)] /\ member' = member
        /\ held' \in {held, [held EXCEPT ![s] = @ \ {a.ev}]}
        /\ settled' \in {settled, settled \cup {a.ev}}
        /\ \E t \in {"ok", "rejected"} :
              down' = [down EXCEPT ![s] = Append(@, [type |-> t, by |-> a.by, id |-> a.id])]
    BY <1>3 DEF ServerAnswers
  <2> HIDE DEF a
  <2> QED
    BY <1>0, <2>2, <2>3, <2>4 DEF ServerTypes
<1>4. ASSUME NEW s \in Streams, ServerEnds(s) PROVE ServerTypes'
  BY <1>0, <1>4 DEF ServerTypes, ServerEnds
<1>5. CASE StreamJoined
  BY <1>0, <1>5 DEF ServerTypes, StreamJoined
<1>6. CASE ReadEvent \/ SkipMalformed \/ ReadAuto \/ ReadResult
  <2>1. down' \in [Streams -> Seq(Frames)]
    BY <1>6, FrameTaken DEF ReadEvent, SkipMalformed, ReadAuto, ReadResult
  <2>2. UNCHANGED <<member, held, settled, up>>
    BY <1>6 DEF ReadEvent, SkipMalformed, ReadAuto, ReadResult
  <2> QED
    BY <1>0, <2>1, <2>2 DEF ServerTypes
<1>7. CASE ReadEnds
  <2>1. down' = [down EXCEPT ![cur] = <<>>] /\ UNCHANGED <<member, held, settled, up>>
    BY <1>7 DEF ReadEnds
  <2>2. <<>> \in Seq(Frames)
    OBVIOUS
  <2>3. down' \in [Streams -> Seq(Frames)]
    BY <1>0, <2>1, <2>2 DEF ServerTypes
  <2> QED
    BY <1>0, <2>1, <2>3 DEF ServerTypes
<1>8. ASSUME NEW k \in Callers, Send(k) PROVE ServerTypes'
  <2>1. /\ ev[k] \in Items /\ via[k] \in Streams /\ ack[k] \in Nat \ {0} /\ kind[k] \in {"ack", "nak"}
    BY <1>8 DEF TypesInv, CallPlaces, CallTypes, Send
  <2>2. [by |-> k, id |-> ack[k], ev |-> ev[k].ev, kind |-> kind[k]] \in Acks
    BY <2>1 DEF Items, Acks
  <2>3. Append(up[via[k]], [by |-> k, id |-> ack[k], ev |-> ev[k].ev, kind |-> kind[k]]) \in Seq(Acks)
    BY <1>0, <2>1, <2>2 DEF ServerTypes
  <2> QED
    BY <1>0, <1>8, <2>1, <2>3 DEF ServerTypes, Send, OnWire
<1>9. ASSUME NEW k, OffWire(k) PROVE ServerTypes'
  BY <1>1, <1>9, OffWireFrame
<1>10. CASE UNCHANGED vars
  BY <1>1, <1>10 DEF vars, server
<1> QED
  BY <1>2, <1>3, <1>4, <1>5, <1>6, <1>7, <1>8, <1>9, <1>10, StepKinds DEF ServerSteps, CallerSteps, OffWire

\* The types of the run goroutine, the pump and Unsubscribe.
LEMMA RunTypesStep ==
    ASSUME TypesInv, [Next]_vars PROVE RunTypes'
<1>0. RunTypes /\ MaxStreams \in Nat
  BY GroupAssumption DEF TypesInv
<1>1. CASE UNCHANGED <<opened, cur, ended, halfClosed, copies, run, offer, queue, events, pump, hand, stop>>
  BY <1>0, <1>1 DEF RunTypes
<1>2. CASE ServerSteps
  BY <1>1, <1>2 DEF ServerSteps, ServerSends, ServerAnswers, ServerEnds, conns, pumpVars, stopVars
<1>3. CASE StreamJoined
  BY <1>0, <1>3 DEF RunTypes, StreamJoined, pumpVars, stopVars
<1>4. CASE Registered
  BY <1>0, <1>4 DEF RunTypes, Registered, pumpVars, stopVars
<1>5. CASE OpenFails \/ Reconnect \/ Signal \/ Exit \/ Closed \/ SkipMalformed
  <2>1. UNCHANGED <<opened, cur, ended, halfClosed, copies, offer, queue, events, pump, hand, stop>>
    BY <1>5 DEF OpenFails, Reconnect, Signal, Exit, Closed, SkipMalformed, conns, pumpVars, stopVars
  <2>2. run' # "offering" \/ run' = run
    BY <1>5 DEF OpenFails, Reconnect, Signal, Exit, Closed, SkipMalformed
  <2> QED
    BY <1>0, <2>1, <2>2 DEF RunTypes
<1>6. CASE ReadEvent
  <2>1. NextFrame("event")
    BY <1>6 DEF ReadEvent
  <2>2. cur \in Streams /\ Head(down[cur]).ev \in Events
    BY <2>1, FrameTaken, FrameFields
  <2>3. queue \in Seq(Items) /\ [ev |-> Head(down[cur]).ev, on |-> cur] \in Items
    BY <1>0, <2>2 DEF RunTypes, Items
  <2>4. queue' = Append(queue, [ev |-> Head(down[cur]).ev, on |-> cur])
    BY <1>6 DEF ReadEvent
  <2>5. queue' \in Seq(Items)
    BY <2>3, <2>4
  <2>6. copies' \in [Streams -> [Events -> Nat]]
    <3>1. PICK old \in SUBSET Events :
             copies' = [copies EXCEPT ![cur] =
                          [f \in Events |-> (IF f \in old THEN 0 ELSE @[f])
                                            + (IF f = Head(down[cur]).ev THEN 1 ELSE 0)]]
      BY <1>6 DEF ReadEvent
    <3>2. [f \in Events |-> (IF f \in old THEN 0 ELSE copies[cur][f])
                            + (IF f = Head(down[cur]).ev THEN 1 ELSE 0)] \in [Events -> Nat]
      BY <1>0, <2>2 DEF RunTypes
    <3> QED
      BY <1>0, <3>1, <3>2 DEF RunTypes
  <2> QED
    BY <1>0, <1>6, <2>5, <2>6 DEF RunTypes, ReadEvent, conns, stopVars
<1>7. CASE ReadAuto
  <2>1. Head(down[cur]).ev \in Events
    BY <1>7, FrameTaken, FrameFields DEF ReadAuto
  <2> QED
    BY <1>0, <1>7, <2>1 DEF RunTypes, ReadAuto, conns, pumpVars, stopVars
<1>8. CASE Offered
  <2>1. [ev |-> offer, on |-> cur] \in Items /\ events \in Seq(Items)
    BY <1>0, <1>8, Reading DEF RunTypes, Offered, Items
  <2>2. events' \in Seq(Items)
    BY <1>8, <2>1 DEF Offered
  <2> QED
    BY <1>0, <1>8, <2>2 DEF RunTypes, Offered, conns, pumpVars, stopVars
<1>9. CASE ReadResult
  BY <1>1, <1>9 DEF ReadResult, NextFrame, conns, pumpVars, stopVars
<1>10. CASE ReadEnds
  <2>1. /\ ended' = [ended EXCEPT ![cur] = TRUE] /\ run' # "offering"
        /\ copies' = [copies EXCEPT ![cur] = [e \in Events |-> 0]]
        /\ UNCHANGED <<opened, cur, halfClosed, queue, events, pump, hand, stop>>
    BY <1>10 DEF ReadEnds, finish, pumpVars, stopVars
  <2> QED
    BY <1>0, <2>1 DEF RunTypes
<1>11. CASE PumpSteps
  <2>1. CASE PumpScan
    <3>1. queue # <<>> => Head(queue) \in Items /\ Tail(queue) \in Seq(Items)
      BY <1>0, Queues DEF RunTypes
    <3>2. queue' \in Seq(Items) /\ (pump' = "offering" => hand' \in Items)
      BY <1>0, <2>1, <3>1 DEF RunTypes, PumpScan
    <3> QED
      BY <1>0, <2>1, <3>2 DEF RunTypes, PumpScan, conns, stopVars
  <2>2. CASE PumpOffers
    <3>1. events' \in Seq(Items) /\ pump' # "offering"
      <4>1. events \in Seq(Items) /\ hand \in Items /\ events' \in {events, Append(events, hand)}
        BY <1>0, <2>2 DEF RunTypes, PumpOffers
      <4>2. Append(events, hand) \in Seq(Items)
        BY <4>1
      <4> QED
        BY <2>2, <4>1, <4>2 DEF PumpOffers
    <3> QED
      BY <1>0, <2>2, <3>1 DEF RunTypes, PumpOffers, conns, stopVars
  <2>3. CASE PumpWakes
    BY <1>0, <2>3 DEF RunTypes, PumpWakes, conns, stopVars
  <2> QED
    BY <1>11, <2>1, <2>2, <2>3 DEF PumpSteps
<1>12. ASSUME NEW k \in Callers, CallerSteps(k) PROVE RunTypes'
  <2>1. CASE Take(k)
    <3>1. events' \in Seq(Items)
      BY <1>0, <2>1, Queues DEF RunTypes, Take
    <3> QED
      BY <1>0, <2>1, <3>1 DEF RunTypes, Take, conns, pumpVars, stopVars
  <2>2. CASE Answered(k)
    <3>1. copies' \in [Streams -> [Events -> Nat]]
      <4>1. CASE applyResult(k)
        <5>1. /\ via[k] \in Streams /\ ev[k].ev \in Events
              /\ copies \in [Streams -> [Events -> Nat]] /\ copies[via[k]][ev[k].ev] \in Nat
          BY <1>0, <2>2 DEF TypesInv, CallPlaces, Items, RunTypes, Answered
        <5>2. copies' = [copies EXCEPT ![via[k]][ev[k].ev] = IF @ = 0 THEN 0 ELSE @ - 1]
          BY <4>1 DEF applyResult
        <5>3. (IF copies[via[k]][ev[k].ev] = 0 THEN 0 ELSE copies[via[k]][ev[k].ev] - 1) \in Nat
          BY <5>1
        <5> QED
          BY <5>1, <5>2, <5>3
      <4>2. CASE UNCHANGED copies
        BY <1>0, <4>2 DEF RunTypes
      <4> QED
        BY <2>2, <4>1, <4>2 DEF Answered
    <3> QED
      BY <1>0, <2>2, <3>1 DEF RunTypes, Answered, conns, pumpVars, stopVars
  <2>3. CASE \/ Abandon(k) \/ (\E how \in {"ack", "nak"} : Settle(k, how)) \/ Register(k) \/ Send(k)
             \/ SendFails(k) \/ StuckReturns(k) \/ TimesOut(k)
    BY <1>1, <2>3 DEF Abandon, Settle, Register, Send, SendFails, StuckReturns, TimesOut, conns,
       pumpVars, stopVars
  <2>4. CASE SendStuck(k)
    BY <1>1, <2>4 DEF SendStuck, pumpVars, stopVars
  <2> QED
    BY <1>12, <2>1, <2>2, <2>3, <2>4 DEF CallerSteps
<1>13. CASE Unsubscribe \/ HalfClose \/ ForceCancel \/ JoinCtxDone \/ IdleTimeout
  <2>1. CASE Unsubscribe
    BY <1>0, <2>1 DEF RunTypes, Unsubscribe, conns, pumpVars
  <2>2. CASE HalfClose
    BY <1>0, <2>2 DEF RunTypes, HalfClose, pumpVars
  <2>3. CASE ForceCancel \/ JoinCtxDone \/ IdleTimeout
    BY <1>1, <2>3 DEF ForceCancel, JoinCtxDone, IdleTimeout, conns, pumpVars, stopVars
  <2> QED
    BY <1>13, <2>1, <2>2, <2>3
<1>14. CASE UNCHANGED vars
  BY <1>1, <1>14 DEF vars, conns, pumpVars, stopVars
<1> QED
  BY <1>2, <1>3, <1>4, <1>5, <1>6, <1>7, <1>8, <1>9, <1>10, <1>11, <1>12, <1>13, <1>14, StepKinds

\* The callers' types and places.
LEMMA CallTypesStep ==
    ASSUME TypesInv, [Next]_vars PROVE CallTypes' /\ CallPlaces'
<1>0. CallTypes /\ CallPlaces /\ RunTypes /\ NoStreamYet
  BY DEF TypesInv
<1>1. CASE UNCHANGED callVars
  BY <1>0, <1>1 DEF CallTypes, CallPlaces, callVars
<1>2. CASE ServerSteps
  BY <1>1, <1>2 DEF ServerSteps, ServerSends, ServerAnswers, ServerEnds
<1>3. CASE \/ StreamJoined \/ Registered \/ OpenFails \/ Reconnect \/ ReadEvent \/ Signal \/ SkipMalformed
           \/ ReadAuto \/ Offered \/ Exit \/ Closed \/ PumpSteps
  BY <1>1, <1>3 DEF StreamJoined, Registered, OpenFails, Reconnect, ReadEvent, Signal, SkipMalformed,
     ReadAuto, Offered, Exit, Closed, PumpSteps, PumpScan, PumpOffers, PumpWakes
<1>4. CASE Unsubscribe \/ HalfClose \/ ForceCancel \/ JoinCtxDone \/ IdleTimeout
  BY <1>1, <1>4 DEF Unsubscribe, HalfClose, ForceCancel, JoinCtxDone, IdleTimeout
<1>5. CASE ReadResult
  <2>1. /\ Head(down[cur]).by \in Callers /\ Head(down[cur]).type \in {"ok", "rejected"}
    BY <1>5, FrameTaken, FrameFields DEF ReadResult
  <2>2. /\ UNCHANGED <<at, ev, via, ack, kind, nextAck>>
        /\ \/ UNCHANGED <<box, waiting>>
           \/ /\ Head(down[cur]).by \in waiting
              /\ box' = [box EXCEPT ![Head(down[cur]).by] = Head(down[cur]).type]
              /\ waiting' = waiting \ {Head(down[cur]).by}
    BY <1>5 DEF ReadResult
  <2> QED
    BY <1>0, <2>1, <2>2 DEF CallTypes, CallPlaces
<1>6. CASE ReadEnds
  <2>1. /\ UNCHANGED <<at, ev, via, ack, kind>> /\ nextAck' = [nextAck EXCEPT ![cur] = 0]
        /\ box' = [k \in Callers |-> IF k \in {l \in waiting : via[l] = cur} THEN "ended" ELSE box[k]]
        /\ waiting' = waiting \ {l \in waiting : via[l] = cur}
    BY <1>6 DEF ReadEnds, finish
  <2> QED
    BY <1>0, <2>1 DEF CallTypes, CallPlaces
<1>7. ASSUME NEW k \in Callers, NEW place \in {"idle", "holding"}, Return(k, place),
             place = "holding" => at[k] # "idle", UNCHANGED nextAck
      PROVE  CallTypes' /\ CallPlaces'
  <2>1. CallTypes'
    <3>1. 0 \in 0 .. MaxStreams
      BY GroupAssumption
    <3> QED
      BY <1>0, <1>7, <3>1, Returned DEF CallTypes
  <2>2. ASSUME NEW l \in Callers
        PROVE  /\ at'[l] # "idle" => ev'[l] \in Items
               /\ at'[l] \in {"idle", "holding", "entered"} =>
                     ack'[l] = 0 /\ box'[l] = "none" /\ l \notin waiting'
               /\ at'[l] \in {"sending", "sent", "stuck"} => ack'[l] # 0
               /\ at'[l] \in {"entered", "sending", "sent", "stuck"} => via'[l] \in Streams
    <3>1. CASE l = k
      BY <1>0, <1>7, <3>1, Returned DEF CallTypes, CallPlaces
    <3>2. CASE l # k
      BY <1>0, <1>7, <3>2, Returned DEF CallTypes, CallPlaces
    <3> QED
      BY <3>1, <3>2
  <2> QED
    BY <2>1, <2>2 DEF CallPlaces
<1>8. ASSUME NEW k \in Callers, CallerSteps(k) PROVE CallTypes' /\ CallPlaces'
  <2>1. CASE Take(k)
    <3>1. Head(events) \in Items
      BY <1>0, <2>1, Queues DEF RunTypes, Take
    <3> QED
      BY <1>0, <2>1, <3>1 DEF CallTypes, CallPlaces, Take
  <2>2. CASE Abandon(k)
    BY <1>7, <2>2 DEF Abandon
  <2>3. CASE \E how \in {"ack", "nak"} : Settle(k, how)
    <3>1. CASE manual
      <4>1. cur \in Streams
        BY <1>0, <2>3 DEF NoStreamYet, RunTypes, Streams, Settle
      <4>2. PICK how \in {"ack", "nak"} :
               /\ at[k] = "holding" /\ via' = [via EXCEPT ![k] = cur] /\ kind' = [kind EXCEPT ![k] = how]
               /\ at' = [at EXCEPT ![k] = "entered"]
               /\ UNCHANGED <<ev, ack, box, waiting, nextAck>>
        BY <2>3, <3>1 DEF Settle
      <4> QED
        BY <1>0, <4>1, <4>2 DEF CallTypes, CallPlaces, Streams
    <3>2. CASE ~manual
      BY <1>7, <2>3, <3>2 DEF Settle
    <3> QED
      BY <3>1, <3>2
  <2>4. CASE Register(k)
    <3>1. CASE ended[via[k]] \/ copies[via[k]][ev[k].ev] = 0
      BY <1>7, <2>4, <3>1 DEF Register
    <3>2. CASE ~(ended[via[k]] \/ copies[via[k]][ev[k].ev] = 0)
      <4>1. /\ at[k] = "entered" /\ nextAck' = [nextAck EXCEPT ![via[k]] = @ + 1]
            /\ ack' = [ack EXCEPT ![k] = nextAck[via[k]] + 1] /\ waiting' = waiting \cup {k}
            /\ at' = [at EXCEPT ![k] = "sending"] /\ UNCHANGED <<ev, via, kind, box>>
        BY <2>4, <3>2 DEF Register
      <4>2. via[k] \in Streams /\ nextAck[via[k]] \in Nat
        BY <1>0, <4>1 DEF CallTypes, CallPlaces
      <4> QED
        BY <1>0, <4>1, <4>2 DEF CallTypes, CallPlaces
    <3> QED
      BY <3>1, <3>2
  <2>5. CASE Send(k)
    BY <1>0, <2>5 DEF CallTypes, CallPlaces, Send
  <2>6. CASE SendStuck(k)
    BY <1>0, <2>6 DEF CallTypes, CallPlaces, SendStuck
  <2>7. CASE SendFails(k) \/ StuckReturns(k) \/ TimesOut(k) \/ Answered(k)
    <3>1. \E place \in {"idle", "holding"} : Return(k, place)
      BY <2>7 DEF SendFails, StuckReturns, TimesOut, Answered
    <3>2. UNCHANGED nextAck /\ at[k] # "idle"
      BY <2>7 DEF SendFails, StuckReturns, TimesOut, Answered
    <3> QED
      BY <1>7, <3>1, <3>2
  <2> QED
    BY <1>8, <2>1, <2>2, <2>3, <2>4, <2>5, <2>6, <2>7 DEF CallerSteps
<1>9. CASE UNCHANGED vars
  BY <1>1, <1>9 DEF vars
<1> QED
  BY <1>2, <1>3, <1>4, <1>5, <1>6, <1>8, <1>9, StepKinds

\* Nothing is received before the first stream is registered.
LEMMA NoStreamStep ==
    ASSUME TypesInv, [Next]_vars PROVE NoStreamYet'
<1>0. NoStreamYet /\ RunTypes /\ CallTypes /\ MaxStreams \in Nat
  BY GroupAssumption DEF TypesInv
<1>1. CASE UNCHANGED <<cur, run, pump, events, at, stop, opened>>
  BY <1>0, <1>1 DEF NoStreamYet
<1>2. CASE ServerSteps
  BY <1>1, <1>2 DEF ServerSteps, ServerSends, ServerAnswers, ServerEnds, conns, pumpVars, callVars, stopVars
<1>3. CASE StreamJoined
  BY <1>0, <1>3 DEF NoStreamYet, RunTypes, StreamJoined, pumpVars, callVars, stopVars
<1>4. CASE Registered
  BY <1>0, <1>4 DEF NoStreamYet, RunTypes, Registered, stopped, pumpVars, callVars, stopVars
<1>5. CASE OpenFails
  BY <1>0, <1>5 DEF NoStreamYet, OpenFails, conns, pumpVars, callVars, stopVars
<1>6. CASE cur # 0 /\ UNCHANGED cur /\ run' # "joined"
  BY <1>6 DEF NoStreamYet
<1>7. CASE Reconnect \/ Signal \/ Offered \/ Exit \/ Closed \/ ReadEvent \/ ReadAuto \/ ReadEnds
  <2>1. cur # 0
    BY <1>0, <1>7 DEF NoStreamYet, Reconnect, Signal, Offered, Exit, Closed, ReadEvent, ReadAuto, NextFrame,
       ReadEnds
  <2>2. UNCHANGED cur /\ run' # "joined"
    BY <1>7 DEF Reconnect, Signal, Offered, Exit, Closed, ReadEvent, ReadAuto, ReadEnds, conns
  <2> QED
    BY <1>6, <2>1, <2>2
<1>8. CASE SkipMalformed \/ ReadResult
  BY <1>1, <1>8 DEF SkipMalformed, ReadResult, conns, pumpVars, callVars, stopVars
<1>9. CASE PumpSteps
  <2>1. UNCHANGED <<cur, run, opened, at, stop>>
    BY <1>9 DEF PumpSteps, PumpScan, PumpOffers, PumpWakes, conns, callVars, stopVars
  <2>2. cur # 0
    BY <1>0, <1>9 DEF NoStreamYet, PumpSteps, PumpScan, PumpOffers, PumpWakes
  <2> QED
    BY <1>0, <2>1, <2>2 DEF NoStreamYet
<1>10. ASSUME NEW k \in Callers, CallerSteps(k) PROVE NoStreamYet'
  <2>1. UNCHANGED <<cur, run, opened, pump, stop>>
    BY <1>10 DEF CallerSteps, Take, Abandon, Settle, Register, Send, SendFails, SendStuck, StuckReturns,
       Answered, TimesOut, conns, pumpVars, stopVars
  <2>2. cur # 0
    BY <1>0, <1>10 DEF NoStreamYet, CallerSteps, Take, Abandon, Settle, Register, Send, SendFails, SendStuck,
       StuckReturns, Answered, TimesOut
  <2> QED
    BY <1>0, <2>1, <2>2 DEF NoStreamYet
<1>11. CASE Unsubscribe \/ HalfClose \/ ForceCancel \/ JoinCtxDone \/ IdleTimeout
  BY <1>0, <1>11 DEF NoStreamYet, Unsubscribe, HalfClose, ForceCancel, JoinCtxDone, IdleTimeout, conns,
     pumpVars, callVars
<1>12. CASE UNCHANGED vars
  BY <1>1, <1>12 DEF vars, conns, pumpVars, callVars, stopVars
<1> QED
  BY <1>2, <1>3, <1>4, <1>5, <1>7, <1>8, <1>9, <1>10, <1>11, <1>12, StepKinds

\* A stream that was not joined yet is no member and has not ended.
LEMMA InOrderStep ==
    ASSUME TypesInv, [Next]_vars PROVE InOrder'
<1>0. ServerTypes /\ RunTypes /\ InOrder /\ MaxStreams \in Nat
  BY GroupAssumption DEF TypesInv
<1>1. CASE UNCHANGED <<opened, member>>
  BY <1>0, <1>1 DEF InOrder
<1>2. CASE ServerSteps
  <2>1. UNCHANGED opened /\ \A s \in Streams : member[s] = "none" => member'[s] = "none"
    BY <1>0, <1>2 DEF ServerSteps, ServerSends, ServerAnswers, ServerEnds, ServerTypes, conns
  <2> QED
    BY <1>0, <2>1 DEF InOrder
<1>3. CASE StreamJoined
  BY <1>0, <1>3 DEF InOrder, ServerTypes, RunTypes, StreamJoined, Streams
<1>4. CASE ReadEvent \/ SkipMalformed \/ ReadAuto \/ ReadResult \/ ReadEnds
  BY <1>1, <1>4 DEF ReadEvent, SkipMalformed, ReadAuto, ReadResult, ReadEnds, conns
<1>5. CASE Registered \/ OpenFails \/ Reconnect \/ Signal \/ Offered \/ Exit \/ Closed \/ PumpSteps
  BY <1>1, <1>5 DEF Registered, OpenFails, Reconnect, Signal, Offered, Exit, Closed, PumpSteps, PumpScan,
     PumpOffers, PumpWakes, server, conns
<1>6. ASSUME NEW k \in Callers, CallerSteps(k) PROVE InOrder'
  BY <1>1, <1>6 DEF CallerSteps, Take, Abandon, Settle, Register, Send, SendFails, SendStuck, StuckReturns,
     Answered, TimesOut, server, conns
<1>7. CASE Unsubscribe \/ HalfClose \/ ForceCancel \/ JoinCtxDone \/ IdleTimeout
  BY <1>1, <1>7 DEF Unsubscribe, HalfClose, ForceCancel, JoinCtxDone, IdleTimeout, server, conns
<1>8. CASE UNCHANGED vars
  BY <1>1, <1>8 DEF vars, server, conns
<1> QED
  BY <1>2, <1>3, <1>4, <1>5, <1>6, <1>7, <1>8, StepKinds

\* Every step keeps the types and places.
LEMMA TypesStep ==
    ASSUME TypesInv, [Next]_vars PROVE TypesInv'
BY ServerTypesStep, RunTypesStep, CallTypesStep, NoStreamStep, InOrderStep DEF TypesInv

-----------------------------------------------------------------------------
(* What a step may do to the wire, the copies and the calls. *)

\* The server answers OK only after it settled an acked event that was out.
Answer(s, t) ==
    t = "ok" =>
        /\ Head(up[s]).ev \notin held'[s]
        /\ Head(up[s]).ev \in held[s] /\ Head(up[s]).kind = "ack" => Head(up[s]).ev \in settled'

\* Frames appear only when the server sends one.
LEMMA DownMoves ==
    ASSUME TypesInv, Next, NEW s \in Streams, NEW f \in Elems(down'[s])
    PROVE  \/ f \in Elems(down[s])
           \/ \E e \in Events : ServerSends(s, e) /\ f = [type |-> "event", ev |-> e]
           \/ /\ ServerAnswers(s) /\ Head(up[s]) \in Elems(up[s]) /\ Head(up[s]) \in Acks
              /\ \E t \in {"ok", "rejected"} :
                    f = [type |-> t, by |-> Head(up[s]).by, id |-> Head(up[s]).id] /\ Answer(s, t)
<1>0. ServerTypes /\ down[s] \in Seq(Frames) /\ up[s] \in Seq(Acks)
  BY DEF TypesInv, ServerTypes
<1>1. CASE UNCHANGED down
  BY <1>1
<1>2. ASSUME NEW r \in Streams, NEW e \in Events, ServerSends(r, e)
      PROVE  f \in Elems(down[s]) \/ (ServerSends(s, e) /\ f = [type |-> "event", ev |-> e])
  <2>1. CASE r = s
    <3>1. down'[s] = Append(down[s], [type |-> "event", ev |-> e]) /\ [type |-> "event", ev |-> e] \in Frames
      BY <1>0, <1>2, <2>1 DEF ServerTypes, ServerSends, Frames, EventFrames
    <3>2. Elems(down'[s]) = Elems(down[s]) \cup {[type |-> "event", ev |-> e]}
      BY <1>0, <3>1, Queues
    <3> QED
      BY <1>2, <2>1, <3>2
  <2>2. CASE r # s
    BY <1>0, <1>2, <2>2 DEF ServerTypes, ServerSends
  <2> QED
    BY <2>1, <2>2
<1>3. ASSUME NEW r \in Streams, ServerAnswers(r)
      PROVE  \/ f \in Elems(down[s])
             \/ /\ ServerAnswers(s) /\ Head(up[s]) \in Elems(up[s]) /\ Head(up[s]) \in Acks
                /\ \E t \in {"ok", "rejected"} :
                    f = [type |-> t, by |-> Head(up[s]).by, id |-> Head(up[s]).id] /\ Answer(s, t)
  <2>1. CASE r = s
    <3>1. up[s] # <<>>
      BY <1>3, <2>1 DEF ServerAnswers
    <3>2. Head(up[s]) \in Elems(up[s]) /\ Head(up[s]) \in Acks
      BY <1>0, <3>1, Queues
    <3>3. PICK t \in {"ok", "rejected"} :
             /\ down'[s] = Append(down[s], [type |-> t, by |-> Head(up[s]).by, id |-> Head(up[s]).id])
             /\ Answer(s, t)
      BY <1>0, <1>3, <2>1 DEF ServerTypes, ServerAnswers, Answer
    <3>4. [type |-> t, by |-> Head(up[s]).by, id |-> Head(up[s]).id] \in Frames
      BY <3>2 DEF Acks, Frames, ResultFrames
    <3>5. Elems(down'[s]) = Elems(down[s]) \cup {[type |-> t, by |-> Head(up[s]).by, id |-> Head(up[s]).id]}
      BY <1>0, <3>3, <3>4, Queues
    <3> QED
      BY <1>3, <2>1, <3>2, <3>3, <3>5
  <2>2. CASE r # s
    BY <1>0, <1>3, <2>2 DEF ServerTypes, ServerAnswers
  <2> QED
    BY <2>1, <2>2
<1>4. CASE ReadEvent \/ SkipMalformed \/ ReadAuto \/ ReadResult
  BY <1>4, FrameTaken DEF ReadEvent, SkipMalformed, ReadAuto, ReadResult
<1>5. CASE ReadEnds
  <2>1. down' = [down EXCEPT ![cur] = <<>>]
    BY <1>5 DEF ReadEnds
  <2>2. down'[s] = down[s] \/ down'[s] = <<>>
    BY <1>0, <2>1 DEF ServerTypes
  <2> QED
    BY <1>0, <2>2, Queues
<1>6. CASE StreamJoined \/ (\E r \in Streams : ServerEnds(r)) \/ (\E k \in Callers : Send(k))
  BY <1>1, <1>6 DEF StreamJoined, ServerEnds, Send
<1>7. ASSUME NEW k, OffWire(k) PROVE UNCHANGED down
  BY <1>7, OffWireFrame
<1> QED
  BY <1>1, <1>2, <1>3, <1>4, <1>5, <1>6, <1>7, StepKinds DEF ServerSteps, CallerSteps, OffWire

\* Acks appear only when a call sends one.
LEMMA UpMoves ==
    ASSUME TypesInv, Next, NEW s \in Streams, NEW a \in Elems(up'[s])
    PROVE  \/ a \in Elems(up[s])
           \/ \E k \in Callers :
                 /\ Send(k) /\ via[k] = s
                 /\ a = [by |-> k, id |-> ack[k], ev |-> ev[k].ev, kind |-> kind[k]]
<1>0. ServerTypes /\ up[s] \in Seq(Acks)
  BY DEF TypesInv, ServerTypes
<1>1. CASE UNCHANGED up
  BY <1>1
<1>2. CASE \E r \in Streams : \E e \in Events : ServerSends(r, e)
  BY <1>1, <1>2 DEF ServerSends
<1>3. ASSUME NEW r \in Streams, ServerAnswers(r) PROVE a \in Elems(up[s])
  <2>1. up[r] # <<>> /\ up' = [up EXCEPT ![r] = Tail(@)]
    BY <1>3 DEF ServerAnswers
  <2>2. up'[s] = up[s] \/ (s = r /\ up'[s] = Tail(up[s]))
    BY <1>0, <2>1 DEF ServerTypes
  <2> QED
    BY <1>0, <2>1, <2>2, Queues
<1>4. ASSUME NEW r \in Streams, ServerEnds(r) PROVE a \in Elems(up[s])
  <2>1. up' = [up EXCEPT ![r] = <<>>]
    BY <1>4 DEF ServerEnds
  <2>2. up'[s] = up[s] \/ up'[s] = <<>>
    BY <1>0, <2>1 DEF ServerTypes
  <2> QED
    BY <1>0, <2>2, Queues
<1>5. CASE StreamJoined \/ ReadEvent \/ SkipMalformed \/ ReadAuto \/ ReadResult \/ ReadEnds
  BY <1>1, <1>5 DEF StreamJoined, ReadEvent, SkipMalformed, ReadAuto, ReadResult, ReadEnds
<1>6. ASSUME NEW k \in Callers, Send(k)
      PROVE  \/ a \in Elems(up[s])
             \/ via[k] = s /\ a = [by |-> k, id |-> ack[k], ev |-> ev[k].ev, kind |-> kind[k]]
  <2>1. /\ ev[k] \in Items /\ via[k] \in Streams /\ ack[k] \in Nat \ {0} /\ kind[k] \in {"ack", "nak"}
    BY <1>6 DEF TypesInv, CallPlaces, CallTypes, Send
  <2>2. [by |-> k, id |-> ack[k], ev |-> ev[k].ev, kind |-> kind[k]] \in Acks
    BY <2>1 DEF Items, Acks
  <2>3. CASE via[k] = s
    <3>1. up'[s] = Append(up[s], [by |-> k, id |-> ack[k], ev |-> ev[k].ev, kind |-> kind[k]])
      BY <1>0, <1>6, <2>3 DEF ServerTypes, Send, OnWire
    <3>2. Elems(up'[s]) = Elems(up[s]) \cup {[by |-> k, id |-> ack[k], ev |-> ev[k].ev, kind |-> kind[k]]}
      BY <1>0, <2>2, <3>1, Queues
    <3> QED
      BY <2>3, <3>2
  <2>4. CASE via[k] # s
    BY <1>0, <1>6, <2>4 DEF ServerTypes, Send, OnWire
  <2> QED
    BY <2>3, <2>4
<1>7. ASSUME NEW k, OffWire(k) PROVE UNCHANGED up
  BY <1>7, OffWireFrame
<1> QED
  BY <1>1, <1>2, <1>3, <1>4, <1>5, <1>6, <1>7, StepKinds DEF ServerSteps, CallerSteps, OffWire

\* Copies are counted when an event frame is read.
LEMMA CopiesMoves ==
    ASSUME TypesInv, Next, NEW s \in Streams, NEW e \in Events, copies'[s][e] # 0
    PROVE  \/ copies[s][e] # 0
           \/ s = cur /\ \E f \in Elems(down[s]) : f.type = "event" /\ f.ev = e
<1>0. copies \in [Streams -> [Events -> Nat]]
  BY DEF TypesInv, RunTypes
<1>1. CASE UNCHANGED copies
  BY <1>1
<1>2. CASE ServerSteps
  BY <1>1, <1>2 DEF ServerSteps, ServerSends, ServerAnswers, ServerEnds
<1>3. CASE \/ StreamJoined \/ Registered \/ OpenFails \/ Reconnect \/ Signal \/ SkipMalformed \/ ReadAuto
           \/ Offered \/ ReadResult \/ Exit \/ Closed \/ PumpSteps
  BY <1>1, <1>3 DEF StreamJoined, Registered, OpenFails, Reconnect, Signal, SkipMalformed, ReadAuto, Offered,
     ReadResult, Exit, Closed, PumpSteps, PumpScan, PumpOffers, PumpWakes
<1>4. CASE Unsubscribe \/ HalfClose \/ ForceCancel \/ JoinCtxDone \/ IdleTimeout
  BY <1>1, <1>4 DEF Unsubscribe, HalfClose, ForceCancel, JoinCtxDone, IdleTimeout
<1>5. CASE ReadEvent
  <2>1. /\ cur \in Streams /\ Head(down[cur]) \in Elems(down[cur]) /\ Head(down[cur]).type = "event"
    BY <1>5, FrameTaken DEF ReadEvent
  <2>2. PICK old \in SUBSET Events :
           copies' = [copies EXCEPT ![cur] =
                        [f \in Events |-> (IF f \in old THEN 0 ELSE @[f])
                                          + (IF f = Head(down[cur]).ev THEN 1 ELSE 0)]]
    BY <1>5 DEF ReadEvent
  <2>3. CASE s = cur
    <3>1. copies'[s][e] = (IF e \in old THEN 0 ELSE copies[s][e]) + (IF e = Head(down[cur]).ev THEN 1 ELSE 0)
      BY <1>0, <2>1, <2>2, <2>3
    <3>2. CASE e = Head(down[cur]).ev
      BY <2>1, <2>3, <3>2
    <3>3. CASE e # Head(down[cur]).ev
      BY <1>0, <3>1, <3>3
    <3> QED
      BY <3>2, <3>3
  <2>4. CASE s # cur
    BY <1>0, <2>2, <2>4
  <2> QED
    BY <2>3, <2>4
<1>6. CASE ReadEnds
  <2>1. copies' = [copies EXCEPT ![cur] = [f \in Events |-> 0]]
    BY <1>6 DEF ReadEnds
  <2> QED
    BY <1>0, <2>1
<1>7. ASSUME NEW k \in Callers, CallerSteps(k) PROVE copies[s][e] # 0
  <2>1. CASE UNCHANGED copies
    BY <2>1
  <2>2. CASE applyResult(k) /\ Answered(k)
    <3>1. /\ via[k] \in Streams /\ ev[k].ev \in Events
      BY <2>2 DEF TypesInv, CallPlaces, Items, Answered
    <3>2. copies' = [copies EXCEPT ![via[k]][ev[k].ev] = IF @ = 0 THEN 0 ELSE @ - 1]
      BY <2>2 DEF applyResult
    <3> QED
      BY <1>0, <3>1, <3>2
  <2> QED
    BY <1>7, <2>1, <2>2 DEF CallerSteps, Take, Abandon, Settle, Register, Send, SendFails, SendStuck,
       StuckReturns, Answered, TimesOut
<1> QED
  BY <1>1, <1>2, <1>3, <1>4, <1>5, <1>6, <1>7, StepKinds

\* A call keeps its stream, id, event and kind, or ends, or gets a new id from a
\* stream that has not ended and has copies of the event.
LEMMA CallMoves ==
    ASSUME TypesInv, Next, NEW k \in Callers
    PROVE  \/ UNCHANGED <<via[k], ack[k], ev[k], kind[k]>> /\ (at'[k] = "sending" => at[k] = "sending")
           \/ ack'[k] = 0 /\ at'[k] \in {"idle", "holding", "entered"}
           \/ /\ at[k] = "entered" /\ ~ended[via[k]] /\ copies[via[k]][ev[k].ev] # 0
              /\ ack'[k] = nextAck[via[k]] + 1 /\ nextAck'[via[k]] = nextAck[via[k]] + 1
              /\ UNCHANGED <<via[k], ev[k], kind[k], box[k], ended>>
<1>0. CallTypes /\ CallPlaces
  BY DEF TypesInv
<1>1. CASE UNCHANGED <<via, ack, ev, kind, at>>
  BY <1>1
<1>2. CASE ServerSteps
  BY <1>1, <1>2 DEF ServerSteps, ServerSends, ServerAnswers, ServerEnds, callVars
<1>3. CASE \/ StreamJoined \/ Registered \/ OpenFails \/ Reconnect \/ ReadEvent \/ Signal \/ SkipMalformed
           \/ ReadAuto \/ Offered \/ ReadResult \/ ReadEnds \/ Exit \/ Closed \/ PumpSteps
  BY <1>1, <1>3 DEF StreamJoined, Registered, OpenFails, Reconnect, ReadEvent, Signal, SkipMalformed, ReadAuto,
     Offered, ReadResult, ReadEnds, Exit, Closed, PumpSteps, PumpScan, PumpOffers, PumpWakes, callVars
<1>4. CASE Unsubscribe \/ HalfClose \/ ForceCancel \/ JoinCtxDone \/ IdleTimeout
  BY <1>1, <1>4 DEF Unsubscribe, HalfClose, ForceCancel, JoinCtxDone, IdleTimeout, callVars
<1>5. ASSUME NEW l \in Callers, CallerSteps(l), l # k
      PROVE  UNCHANGED <<via[k], ack[k], ev[k], kind[k], at[k]>>
  <2>1. ASSUME NEW place \in {"idle", "holding"}, Return(l, place)
        PROVE  UNCHANGED <<via[k], ack[k], ev[k], kind[k], at[k]>>
    BY <1>0, <1>5, <2>1, Returned DEF CallTypes
  <2>2. CASE Take(l) \/ Send(l) \/ SendStuck(l)
    BY <1>0, <1>5, <2>2 DEF CallTypes, Take, Send, SendStuck
  <2>3. CASE (\E how \in {"ack", "nak"} : Settle(l, how)) \/ Register(l)
    BY <1>0, <1>5, <2>1, <2>3 DEF CallTypes, Settle, Register
  <2>4. CASE Abandon(l) \/ SendFails(l) \/ StuckReturns(l) \/ Answered(l) \/ TimesOut(l)
    BY <2>1, <2>4 DEF Abandon, SendFails, StuckReturns, Answered, TimesOut
  <2> QED
    BY <1>5, <2>2, <2>3, <2>4 DEF CallerSteps
<1>6. ASSUME NEW place \in {"idle", "holding"}, Return(k, place)
      PROVE  ack'[k] = 0 /\ at'[k] \in {"idle", "holding", "entered"}
  BY <1>0, <1>6, Returned DEF CallTypes
<1>7. CASE Take(k) \/ Send(k) \/ SendStuck(k)
  BY <1>0, <1>7 DEF CallTypes, CallPlaces, Take, Send, SendStuck
<1>8. CASE \E how \in {"ack", "nak"} : Settle(k, how)
  BY <1>0, <1>6, <1>8 DEF CallTypes, CallPlaces, Settle
<1>9. CASE Register(k)
  <2>1. CASE ended[via[k]] \/ copies[via[k]][ev[k].ev] = 0
    BY <1>6, <1>9, <2>1 DEF Register
  <2>2. CASE ~(ended[via[k]] \/ copies[via[k]][ev[k].ev] = 0)
    <3>1. via[k] \in Streams
      BY <1>0, <1>9 DEF CallPlaces, Register
    <3> QED
      BY <1>0, <1>9, <2>2, <3>1 DEF CallTypes, Register, conns
  <2> QED
    BY <2>1, <2>2
<1>10. CASE Abandon(k) \/ SendFails(k) \/ StuckReturns(k) \/ Answered(k) \/ TimesOut(k)
  BY <1>6, <1>10 DEF Abandon, SendFails, StuckReturns, Answered, TimesOut
<1>11. CASE CallerSteps(k)
  BY <1>7, <1>8, <1>9, <1>10, <1>11 DEF CallerSteps
<1> QED
  BY <1>1, <1>2, <1>3, <1>4, <1>5, <1>11, StepKinds

\* What is settled or was sent back stays so, and an event that went out on a
\* stream leaves it only then.
LEMMA ReachedStays ==
    ASSUME TypesInv, OnlyReached, Next
    PROVE  /\ settled \subseteq settled' /\ nakked \subseteq nakked'
           /\ \A s \in Streams : \A e \in Events : Reached(s, e) => Reached(s, e)'
<1>0. ServerTypes
  BY DEF TypesInv
<1>1. CASE UNCHANGED <<member, held, settled>> /\ nakked \subseteq nakked'
  BY <1>1 DEF Reached
<1>2. ASSUME NEW r \in Streams, NEW e \in Events, ServerSends(r, e)
      PROVE  /\ settled \subseteq settled' /\ nakked \subseteq nakked'
             /\ \A s \in Streams : \A f \in Events : Reached(s, f) => Reached(s, f)'
  BY <1>0, <1>2 DEF ServerTypes, ServerSends, Reached, history
<1>3. ASSUME NEW r \in Streams, ServerAnswers(r)
      PROVE  /\ settled \subseteq settled' /\ nakked \subseteq nakked'
             /\ \A s \in Streams : \A f \in Events : Reached(s, f) => Reached(s, f)'
  <2> DEFINE a == Head(up[r])
  <2>1. up[r] # <<>> /\ up[r] \in Seq(Acks)
    BY <1>0, <1>3 DEF ServerTypes, ServerAnswers
  <2>2. a \in Elems(up[r]) /\ a \in Acks
    BY <2>1, Queues
  <2>3. (a.kind = "nak" => a.ev \in nakked) /\ a.kind \in {"ack", "nak"}
    BY <2>2 DEF OnlyReached, Acks
  <2>4. \/ UNCHANGED <<member, held, settled, nakked>>
        \/ /\ held' = [held EXCEPT ![r] = @ \ {a.ev}]
           /\ settled' = IF a.ev \in held[r] /\ a.kind = "ack" THEN settled \cup {a.ev} ELSE settled
           /\ UNCHANGED <<member, nakked>>
    BY <1>3 DEF ServerAnswers, history
  <2> HIDE DEF a
  <2> QED
    BY <1>0, <2>3, <2>4 DEF ServerTypes, Reached
<1>4. ASSUME NEW r \in Streams, ServerEnds(r)
      PROVE  /\ settled \subseteq settled' /\ nakked \subseteq nakked'
             /\ \A s \in Streams : \A f \in Events : Reached(s, f) => Reached(s, f)'
  BY <1>0, <1>4 DEF ServerTypes, ServerEnds, Reached, history
<1>5. CASE StreamJoined
  <2>1. member' = [member EXCEPT ![opened + 1] = "member"] /\ UNCHANGED <<held, settled, nakked>>
    BY <1>5 DEF StreamJoined, history
  <2>2. opened + 1 \in Streams /\ member[opened + 1] = "none"
    BY <1>5, GroupAssumption DEF StreamJoined, Streams, TypesInv, InOrder, RunTypes
  <2> QED
    BY <1>0, <2>1, <2>2 DEF Reached, ServerTypes
<1>6. CASE ReadEvent \/ SkipMalformed \/ ReadAuto \/ ReadResult \/ ReadEnds
  BY <1>1, <1>6 DEF ReadEvent, SkipMalformed, ReadAuto, ReadResult, ReadEnds, history
<1>7. CASE \E k \in Callers : Send(k)
  BY <1>1, <1>7 DEF Send, OnWire
<1>8. ASSUME NEW k, OffWire(k) PROVE UNCHANGED <<member, held, settled, nakked>>
  BY <1>8, OffWireFrame
<1> QED
  BY <1>1, <1>2, <1>3, <1>4, <1>5, <1>6, <1>7, <1>8, StepKinds DEF ServerSteps, CallerSteps, OffWire

\* Ack ids on a stream only grow until it has ended, and it does not come back.
LEMMA IdsMoves ==
    ASSUME TypesInv, Next, NEW s \in Streams, ~ended'[s]
    PROVE  ~ended[s] /\ nextAck'[s] >= nextAck[s]
<1>0. ended \in [Streams -> BOOLEAN] /\ nextAck \in [Streams -> Nat]
  BY DEF TypesInv, RunTypes, CallTypes
<1>1. CASE UNCHANGED <<ended, nextAck>>
  BY <1>0, <1>1
<1>2. CASE ServerSteps
  BY <1>1, <1>2 DEF ServerSteps, ServerSends, ServerAnswers, ServerEnds, conns, callVars
<1>3. CASE \/ StreamJoined \/ OpenFails \/ Reconnect \/ ReadEvent \/ Signal \/ SkipMalformed
           \/ ReadAuto \/ Offered \/ ReadResult \/ Exit \/ Closed \/ PumpSteps
  BY <1>1, <1>3 DEF StreamJoined, OpenFails, Reconnect, ReadEvent, Signal, SkipMalformed, ReadAuto,
     Offered, ReadResult, Exit, Closed, PumpSteps, PumpScan, PumpOffers, PumpWakes, conns, callVars
<1>4. CASE Registered
  <2>1. UNCHANGED nextAck /\ ended' \in {ended, [ended EXCEPT ![opened] = TRUE]}
    BY <1>4 DEF Registered, callVars
  <2> QED
    BY <1>0, <2>1
<1>5. CASE ReadEnds
  <2>1. ended' = [ended EXCEPT ![cur] = TRUE] /\ nextAck' = [nextAck EXCEPT ![cur] = 0]
    BY <1>5 DEF ReadEnds, finish
  <2> QED
    BY <1>0, <2>1
<1>6. ASSUME NEW k \in Callers, CallerSteps(k) PROVE ~ended[s] /\ nextAck'[s] >= nextAck[s]
  <2>1. CASE Register(k)
    <3>1. UNCHANGED ended /\ nextAck' \in {nextAck, [nextAck EXCEPT ![via[k]] = @ + 1]}
      BY <2>1 DEF Register, conns
    <3> QED
      BY <1>0, <3>1
  <2>2. CASE ~Register(k)
    BY <1>1, <1>6, <2>2 DEF CallerSteps, Take, Abandon, Settle, Send, SendFails, SendStuck, StuckReturns,
       Answered, TimesOut, conns
  <2> QED
    BY <2>1, <2>2
<1>7. CASE Unsubscribe \/ HalfClose \/ ForceCancel \/ JoinCtxDone \/ IdleTimeout
  BY <1>1, <1>7 DEF Unsubscribe, HalfClose, ForceCancel, JoinCtxDone, IdleTimeout, conns, callVars
<1> QED
  BY <1>2, <1>3, <1>4, <1>5, <1>6, <1>7, StepKinds

\* An OK gets into a call's box only from a result frame with its ack id.
LEMMA BoxMoves ==
    ASSUME TypesInv, Next, NEW k \in Callers, box'[k] = "ok"
    PROVE  \/ box[k] = "ok"
           \/ /\ cur \in Streams /\ via[k] = cur /\ k \in waiting
              /\ \E f \in Elems(down[cur]) : f.type = "ok" /\ f.by = k /\ f.id = ack[k]
<1>0. CallTypes
  BY DEF TypesInv
<1>1. CASE UNCHANGED box
  BY <1>1
<1>2. CASE ServerSteps
  BY <1>1, <1>2 DEF ServerSteps, ServerSends, ServerAnswers, ServerEnds, callVars
<1>3. CASE \/ StreamJoined \/ Registered \/ OpenFails \/ Reconnect \/ ReadEvent \/ Signal \/ SkipMalformed
           \/ ReadAuto \/ Offered \/ Exit \/ Closed \/ PumpSteps
  BY <1>1, <1>3 DEF StreamJoined, Registered, OpenFails, Reconnect, ReadEvent, Signal, SkipMalformed, ReadAuto,
     Offered, Exit, Closed, PumpSteps, PumpScan, PumpOffers, PumpWakes, callVars
<1>4. CASE Unsubscribe \/ HalfClose \/ ForceCancel \/ JoinCtxDone \/ IdleTimeout
  BY <1>1, <1>4 DEF Unsubscribe, HalfClose, ForceCancel, JoinCtxDone, IdleTimeout, callVars
<1>5. CASE ReadResult
  <2>1. cur \in Streams /\ Head(down[cur]) \in Elems(down[cur])
    BY <1>5, FrameTaken DEF ReadResult
  <2>2. \/ UNCHANGED box
        \/ /\ via[Head(down[cur]).by] = cur /\ ack[Head(down[cur]).by] = Head(down[cur]).id
           /\ Head(down[cur]).by \in waiting
           /\ box' = [box EXCEPT ![Head(down[cur]).by] = Head(down[cur]).type]
    BY <1>5 DEF ReadResult
  <2> QED
    BY <1>0, <2>1, <2>2 DEF CallTypes
<1>6. CASE ReadEnds
  BY <1>6 DEF ReadEnds, finish
<1>7. ASSUME NEW l \in Callers, CallerSteps(l) PROVE box[k] = "ok"
  <2>1. ASSUME NEW place \in {"idle", "holding"}, Return(l, place) PROVE box[k] = "ok"
    BY <1>0, <2>1, Returned DEF CallTypes
  <2> QED
    BY <1>1, <1>7, <2>1 DEF CallerSteps, Take, Abandon, Settle, Register, Send, SendFails, SendStuck,
       StuckReturns, Answered, TimesOut
<1> QED
  BY <1>2, <1>3, <1>4, <1>5, <1>6, <1>7, StepKinds

-----------------------------------------------------------------------------
(* The parts of the invariant. *)

\* Only what went out on a stream is counted, acked or on its way there.
LEMMA OnlyReachedStep ==
    ASSUME TypesInv, OnlyReached, Next PROVE OnlyReached'
<1>0. ServerTypes /\ CallPlaces /\ CallPlaces' /\ CallTypes'
  BY TypesStep DEF TypesInv
<1>1. ASSUME NEW s \in Streams, NEW f \in Elems(down'[s]), f.type = "event" PROVE Reached(s, f.ev)'
  <2>1. CASE f \in Elems(down[s])
    <3>1. Reached(s, f.ev)
      BY <1>1, <2>1 DEF OnlyReached
    <3>2. f \in Frames
      BY <1>0, <2>1, Queues DEF ServerTypes
    <3> QED
      BY <1>1, <3>1, <3>2, FrameFields, ReachedStays
  <2>2. ASSUME NEW e \in Events, ServerSends(s, e), f = [type |-> "event", ev |-> e]
        PROVE  Reached(s, f.ev)'
    BY <1>0, <2>2 DEF Reached, ServerSends, ServerTypes
  <2> QED
    BY <1>1, <2>1, <2>2, DownMoves
<1>2. ASSUME NEW s \in Streams, NEW e \in Events, copies'[s][e] # 0 PROVE Reached(s, e)'
  <2>1. Reached(s, e)
    BY <1>2, CopiesMoves DEF OnlyReached
  <2> QED
    BY <2>1, ReachedStays
<1>3. ASSUME NEW s \in Streams, NEW a \in Elems(up'[s])
      PROVE  Reached(s, a.ev)' /\ (a.kind = "nak" => a.ev \in nakked')
  <2>1. CASE a \in Elems(up[s])
    <3>1. Reached(s, a.ev) /\ (a.kind = "nak" => a.ev \in nakked)
      BY <2>1 DEF OnlyReached
    <3>2. a \in Acks
      BY <1>0, <2>1, Queues DEF ServerTypes
    <3>3. a.ev \in Events
      BY <3>2 DEF Acks
    <3> QED
      BY <3>1, <3>3, ReachedStays
  <2>2. ASSUME NEW k \in Callers, Send(k), via[k] = s,
               a = [by |-> k, id |-> ack[k], ev |-> ev[k].ev, kind |-> kind[k]]
        PROVE  Reached(s, a.ev)' /\ (a.kind = "nak" => a.ev \in nakked')
    <3>1. at[k] = "sending" /\ ev[k].ev \in Events
      BY <1>0, <2>2 DEF Send, CallPlaces, Items
    <3>2. Reached(s, a.ev)
      BY <2>2, <3>1 DEF OnlyReached
    <3>3. a.kind = "nak" => a.ev \in nakked'
      BY <2>2 DEF Send, OnWire
    <3> QED
      BY <2>2, <3>1, <3>2, <3>3, ReachedStays
  <2> QED
    BY <1>3, <2>1, <2>2, UpMoves
<1>4. ASSUME NEW k \in Callers, at'[k] = "sending" PROVE Reached(via[k], ev[k].ev)'
  <2>1. UNCHANGED <<via[k], ev[k]>> /\ Reached(via[k], ev[k].ev)
    <3>1. CASE UNCHANGED <<via[k], ack[k], ev[k], kind[k]>> /\ at[k] = "sending"
      BY <3>1 DEF OnlyReached
    <3>2. CASE at[k] = "entered" /\ copies[via[k]][ev[k].ev] # 0 /\ UNCHANGED <<via[k], ev[k]>>
      <4>1. via[k] \in Streams /\ ev[k].ev \in Events
        BY <1>0, <3>2 DEF CallPlaces, Items
      <4> QED
        BY <3>2, <4>1 DEF OnlyReached
    <3> QED
      BY <1>4, <3>1, <3>2, CallMoves
  <2>2. via'[k] \in Streams /\ ev'[k].ev \in Events
    BY <1>0, <1>4 DEF CallPlaces, Items
  <2> QED
    BY <2>1, <2>2, ReachedStays DEF Reached
<1> QED
  BY <1>1, <1>2, <1>3, <1>4 DEF OnlyReached

\* Ids on the wire and in the calls were handed out.
LEMMA FreshIdsStep ==
    ASSUME TypesInv, FreshIds, Next PROVE FreshIds'
<1>0. ServerTypes /\ CallTypes /\ CallPlaces /\ ServerTypes' /\ CallTypes'
  BY TypesStep DEF TypesInv
<1> SUFFICES ASSUME NEW s \in Streams, ~ended'[s]
             PROVE  /\ \A a \in Elems(up'[s]) : a.id <= nextAck'[s]
                    /\ \A f \in Elems(down'[s]) : f.type # "event" => f.id <= nextAck'[s]
                    /\ \A k \in Callers : via'[k] = s => ack'[k] <= nextAck'[s]
  BY DEF FreshIds
<1>1. /\ ~ended[s] /\ nextAck[s] \in Nat /\ nextAck'[s] \in Nat /\ nextAck'[s] >= nextAck[s]
  BY <1>0, IdsMoves DEF CallTypes
<1>2. /\ \A a \in Elems(up[s]) : a.id <= nextAck[s]
      /\ \A f \in Elems(down[s]) : f.type # "event" => f.id <= nextAck[s]
      /\ \A k \in Callers : via[k] = s => ack[k] <= nextAck[s]
  BY <1>1 DEF FreshIds
<1>3. ASSUME NEW a \in Elems(up'[s]) PROVE a.id <= nextAck'[s]
  <2>1. a.id <= nextAck[s]
    BY <1>2, <1>3, UpMoves
  <2>2. a.id \in Nat
    <3>1. up'[s] \in Seq(Acks)
      BY <1>0 DEF ServerTypes
    <3>2. a \in Acks
      BY <3>1, Queues
    <3> QED
      BY <3>2 DEF Acks
  <2> QED
    BY <1>1, <2>1, <2>2
<1>4. ASSUME NEW f \in Elems(down'[s]), f.type # "event" PROVE f.id <= nextAck'[s]
  <2>1. f.id <= nextAck[s]
    BY <1>2, <1>4, DownMoves
  <2>2. f.id \in Nat
    <3>1. down'[s] \in Seq(Frames)
      BY <1>0 DEF ServerTypes
    <3> QED
      BY <1>4, <3>1, Queues, FrameFields
  <2> QED
    BY <1>1, <2>1, <2>2
<1>5. ASSUME NEW k \in Callers, via'[k] = s PROVE ack'[k] <= nextAck'[s]
  <2>1. \/ via[k] = s /\ ack'[k] = ack[k]
        \/ ack'[k] = 0
        \/ ack'[k] = nextAck[via[k]] + 1 /\ nextAck'[via[k]] = nextAck[via[k]] + 1 /\ via[k] = s
    BY <1>5, CallMoves
  <2>2. ack[k] \in Nat /\ (via[k] = s => ack[k] <= nextAck[s])
    BY <1>0, <1>2 DEF CallTypes
  <2> QED
    BY <1>1, <2>1, <2>2
<1> QED
  BY <1>3, <1>4, <1>5

\* Acks and results belong to the calls that wait for them, and an OK means that
\* the event is settled or was sent back.
LEMMA ResultsMatchStep ==
    ASSUME TypesInv, OnlyReached, FreshIds, ResultsMatch, Next PROVE ResultsMatch'
<1>0. /\ ServerTypes /\ CallTypes /\ CallPlaces /\ ServerTypes' /\ CallTypes' /\ CallPlaces'
      /\ settled \subseteq settled' /\ nakked \subseteq nakked'
  BY TypesStep, ReachedStays DEF TypesInv
<1>1. ASSUME NEW s \in Streams, NEW a \in Elems(up'[s]), via'[a.by] = s, ack'[a.by] = a.id
      PROVE  ev'[a.by].ev = a.ev /\ kind'[a.by] = a.kind
  <2>1. a.by \in Callers /\ a.id \in Nat \ {0}
    <3>1. up'[s] \in Seq(Acks)
      BY <1>0 DEF ServerTypes
    <3>2. a \in Acks
      BY <3>1, Queues
    <3> QED
      BY <3>2 DEF Acks
  <2>2. CASE a \in Elems(up[s])
    <3>1. CASE UNCHANGED <<via[a.by], ack[a.by], ev[a.by], kind[a.by]>>
      BY <1>1, <2>2, <3>1 DEF ResultsMatch
    <3>2. CASE ack'[a.by] = 0
      BY <1>1, <2>1, <3>2
    <3>3. CASE ~ended[via[a.by]] /\ ack'[a.by] = nextAck[via[a.by]] + 1 /\ UNCHANGED via[a.by]
      <4>1. a.id <= nextAck[s] /\ nextAck[s] \in Nat
        BY <1>0, <1>1, <2>2, <3>3 DEF FreshIds, CallTypes
      <4> QED
        BY <1>1, <2>1, <3>3, <4>1
    <3> QED
      BY <2>1, <3>1, <3>2, <3>3, CallMoves
  <2>3. ASSUME NEW k \in Callers, Send(k), a = [by |-> k, id |-> ack[k], ev |-> ev[k].ev, kind |-> kind[k]]
        PROVE  ev'[a.by].ev = a.ev /\ kind'[a.by] = a.kind
    BY <2>3 DEF Send
  <2> QED
    BY <1>1, <2>2, <2>3, UpMoves
<1>2. ASSUME NEW s \in Streams, NEW f \in Elems(down'[s]), f.type = "ok",
             via'[f.by] = s, ack'[f.by] = f.id, kind'[f.by] = "ack"
      PROVE  ev'[f.by].ev \in settled' \cup nakked'
  <2>1. f.by \in Callers /\ f.id \in Nat \ {0}
    <3>1. down'[s] \in Seq(Frames)
      BY <1>0 DEF ServerTypes
    <3> QED
      BY <1>2, <3>1, Queues, FrameFields
  <2>2. ~ended[s] => f.id <= nextAck[s]
    BY <1>2, DownMoves DEF FreshIds
  <2>3. UNCHANGED <<via[f.by], ack[f.by], ev[f.by], kind[f.by]>>
    <3>1. CASE ack'[f.by] = 0
      BY <1>2, <2>1, <3>1
    <3>2. CASE ~ended[via[f.by]] /\ ack'[f.by] = nextAck[via[f.by]] + 1 /\ UNCHANGED via[f.by]
      <4>1. f.id <= nextAck[s] /\ nextAck[s] \in Nat
        BY <1>0, <1>2, <2>2, <3>2 DEF CallTypes
      <4> QED
        BY <1>2, <2>1, <3>2, <4>1
    <3> QED
      BY <2>1, <3>1, <3>2, CallMoves
  <2>4. CASE f \in Elems(down[s])
    BY <1>0, <1>2, <2>3, <2>4 DEF ResultsMatch
  <2>5. ASSUME ServerAnswers(s), Head(up[s]) \in Elems(up[s]), Head(up[s]) \in Acks, Answer(s, "ok"),
               f.by = Head(up[s]).by, f.id = Head(up[s]).id
        PROVE  ev'[f.by].ev \in settled' \cup nakked'
    <3> DEFINE a == Head(up[s])
    <3>1. ev[f.by].ev = a.ev /\ a.kind = "ack"
      BY <1>2, <2>3, <2>5 DEF ResultsMatch
    <3>2. Reached(s, a.ev) /\ member[s] = "member"
      BY <2>5 DEF OnlyReached, ServerAnswers
    <3>3. a.ev \in settled' \cup nakked'
      BY <1>0, <2>5, <3>1, <3>2 DEF Reached, Answer
    <3> QED
      BY <2>3, <3>1, <3>3
  <2> QED
    BY <1>2, <2>4, <2>5, DownMoves
<1>3. ASSUME NEW k \in Callers, box'[k] = "ok", kind'[k] = "ack" PROVE ev'[k].ev \in settled' \cup nakked'
  <2>1. UNCHANGED <<via[k], ack[k], ev[k], kind[k]>>
    <3>1. at'[k] \notin {"idle", "holding", "entered"}
      BY <1>0, <1>3 DEF CallPlaces
    <3>2. ~(at[k] = "entered" /\ UNCHANGED box[k])
      BY <1>0, <1>3 DEF CallPlaces
    <3> QED
      BY <3>1, <3>2, CallMoves
  <2>2. ev[k].ev \in settled \cup nakked
    BY <1>3, <2>1, BoxMoves DEF ResultsMatch
  <2> QED
    BY <1>0, <2>1, <2>2
<1> QED
  BY <1>1, <1>2, <1>3 DEF ResultsMatch

\* Ack returns nil only with an OK in its box.
LEMMA AckedStep ==
    ASSUME TypesInv, OnlyReached, ResultsMatch, AckedIsSettled, Next PROVE AckedIsSettled'
<1>0. settled \subseteq settled' /\ nakked \subseteq nakked'
  BY ReachedStays
<1>1. CASE UNCHANGED acked
  BY <1>0, <1>1 DEF AckedIsSettled
<1>2. CASE ServerSteps
  BY <1>1, <1>2 DEF ServerSteps, ServerSends, ServerAnswers, ServerEnds, history
<1>3. CASE \/ StreamJoined \/ Registered \/ OpenFails \/ Reconnect \/ ReadEvent \/ Signal \/ SkipMalformed
           \/ ReadAuto \/ Offered \/ ReadResult \/ ReadEnds \/ Exit \/ Closed \/ PumpSteps
  BY <1>1, <1>3 DEF StreamJoined, Registered, OpenFails, Reconnect, ReadEvent, Signal, SkipMalformed, ReadAuto,
     Offered, ReadResult, ReadEnds, Exit, Closed, PumpSteps, PumpScan, PumpOffers, PumpWakes, history
<1>4. CASE Unsubscribe \/ HalfClose \/ ForceCancel \/ JoinCtxDone \/ IdleTimeout
  BY <1>1, <1>4 DEF Unsubscribe, HalfClose, ForceCancel, JoinCtxDone, IdleTimeout, history
<1>5. ASSUME NEW k \in Callers, CallerSteps(k) PROVE AckedIsSettled'
  <2>1. CASE Answered(k)
    <3>1. UNCHANGED acked \/ (box[k] = "ok" /\ kind[k] = "ack" /\ acked' = acked \cup {ev[k].ev})
      BY <2>1 DEF Answered
    <3>2. box[k] = "ok" /\ kind[k] = "ack" => ev[k].ev \in settled \cup nakked
      BY DEF ResultsMatch
    <3> QED
      BY <1>0, <3>1, <3>2 DEF AckedIsSettled
  <2>2. CASE ~Answered(k)
    BY <1>1, <1>5, <2>2 DEF CallerSteps, Take, Abandon, Settle, Register, Send, SendFails, SendStuck,
       StuckReturns, TimesOut, history
  <2> QED
    BY <2>1, <2>2
<1> QED
  BY <1>2, <1>3, <1>4, <1>5, StepKinds

-----------------------------------------------------------------------------
(* Results. *)

\* The subscription starts with nothing on the wire and no call under way.
LEMMA GroupInit ==
    ASSUME Init PROVE GroupInv
<1>0. MaxStreams \in Nat \ {0}
  BY GroupAssumption
<1>1. ServerTypes
  BY DEF Init, ServerTypes
<1>2. RunTypes
  BY <1>0 DEF Init, RunTypes
<1>3. CallTypes /\ CallPlaces
  BY <1>0 DEF Init, CallTypes, CallPlaces
<1>4. NoStreamYet /\ InOrder
  BY DEF Init, NoStreamYet, InOrder
<1>5. \A s \in Streams : Elems(up[s]) = {} /\ Elems(down[s]) = {}
  BY DEF Init, Elems
<1>6. OnlyReached
  BY <1>5 DEF Init, OnlyReached
<1>7. FreshIds
  BY <1>5 DEF Init, FreshIds
<1>8. ResultsMatch
  BY <1>5 DEF Init, ResultsMatch
<1> QED
  BY <1>1, <1>2, <1>3, <1>4, <1>6, <1>7, <1>8 DEF GroupInv, TypesInv, Init, AckedIsSettled

\* Every step keeps the invariant.
LEMMA GroupStep ==
    ASSUME GroupInv, [Next]_vars PROVE GroupInv'
<1>1. CASE Next
  BY <1>1, TypesStep, OnlyReachedStep, FreshIdsStep, ResultsMatchStep, AckedStep DEF GroupInv
<1>2. CASE UNCHANGED vars
  <2>1. TypesInv'
    BY <1>2, TypesStep DEF GroupInv
  <2>2. OnlyReached'
    BY <1>2 DEF GroupInv, OnlyReached, Reached, vars, server, callVars, history
  <2>3. FreshIds' /\ ResultsMatch' /\ AckedIsSettled'
    BY <1>2 DEF GroupInv, FreshIds, ResultsMatch, AckedIsSettled, vars, server, conns, callVars, history
  <2> QED
    BY <2>1, <2>2, <2>3 DEF GroupInv
<1> QED
  BY <1>1, <1>2

\* Once Unsubscribe has returned, the stream it found is half-closed.
StopHalfCloses == stop = "returned" => halfClosed[cur]

\* No other stream becomes the current one after Unsubscribe, and none is opened
\* for writing again.
LEMMA StopStep ==
    ASSUME TypesInv, StopHalfCloses, [Next]_vars PROVE StopHalfCloses'
<1>0. RunTypes /\ NoStreamYet /\ MaxStreams \in Nat
  BY GroupAssumption DEF TypesInv
<1>1. CASE UNCHANGED <<stop, cur, halfClosed>>
  BY <1>1 DEF StopHalfCloses
<1>2. CASE ServerSteps
  BY <1>1, <1>2 DEF ServerSteps, ServerSends, ServerAnswers, ServerEnds, conns, stopVars
<1>3. CASE \/ StreamJoined \/ OpenFails \/ Reconnect \/ ReadEvent \/ Signal \/ SkipMalformed
           \/ ReadAuto \/ Offered \/ ReadResult \/ ReadEnds \/ Exit \/ Closed \/ PumpSteps
  BY <1>1, <1>3 DEF StreamJoined, OpenFails, Reconnect, ReadEvent, Signal, SkipMalformed, ReadAuto,
     Offered, ReadResult, ReadEnds, Exit, Closed, PumpSteps, PumpScan, PumpOffers, PumpWakes, conns, stopVars
<1>4. CASE Registered
  BY <1>4 DEF StopHalfCloses, Registered, stopped, stopVars
<1>5. CASE Unsubscribe \/ ForceCancel \/ JoinCtxDone \/ IdleTimeout
  BY <1>5 DEF StopHalfCloses, Unsubscribe, ForceCancel, JoinCtxDone, IdleTimeout, conns, stopVars
<1>6. CASE HalfClose
  <2>1. cur \in Streams
    BY <1>0, <1>6 DEF NoStreamYet, RunTypes, Streams, HalfClose
  <2> QED
    BY <1>0, <1>6, <2>1 DEF StopHalfCloses, RunTypes, HalfClose
<1>7. ASSUME NEW k \in Callers, CallerSteps(k) PROVE StopHalfCloses'
  BY <1>1, <1>7 DEF CallerSteps, Take, Abandon, Settle, Register, Send, SendFails, SendStuck, StuckReturns,
     Answered, TimesOut, conns, stopVars
<1>8. CASE UNCHANGED vars
  BY <1>1, <1>8 DEF vars, conns, stopVars
<1> QED
  BY <1>2, <1>3, <1>4, <1>5, <1>6, <1>7, <1>8, StepKinds

\* The wire, the queues and the calls of settle keep their types and places: an
\* ack carries the id its call got, and no call is under way before the first
\* stream (streamConn.settle).
THEOREM TypeCorrect == Spec => []TypesInv
<1>1. Init => TypesInv
  BY GroupInit DEF GroupInv
<1>2. TypesInv /\ [Next]_vars => TypesInv'
  BY TypesStep
<1> QED
  BY <1>1, <1>2, PTL DEF Spec

\* An Ack or Term that returned nil has settled its event on the server, for any
\* number of streams, callers, redeliveries, lost answers and timeouts, unless
\* the application also sent a Nak of it (ErrStaleAck, streamConn.settle).
THEOREM AckIsHonest == Spec => []AckedIsSettled
<1>1. Init => GroupInv
  BY GroupInit
<1>2. GroupInv /\ [Next]_vars => GroupInv'
  BY GroupStep
<1>3. GroupInv => AckedIsSettled
  BY DEF GroupInv
<1> QED
  BY <1>1, <1>2, <1>3, PTL DEF Spec

\* When Unsubscribe has returned, the current stream is half-closed or torn
\* down, however it races with the reconnect loop (unsubscribe, open).
THEOREM UnsubscribeIsComplete == Spec => []NoMemberOutlives
<1>1. Init => StopHalfCloses
  BY DEF Init, StopHalfCloses
<1>2. TypesInv /\ StopHalfCloses /\ [Next]_vars => StopHalfCloses'
  BY StopStep
<1>3. StopHalfCloses => NoMemberOutlives
  BY DEF StopHalfCloses, NoMemberOutlives
<1> QED
  BY <1>1, <1>2, <1>3, TypeCorrect, PTL DEF Spec

-----------------------------------------------------------------------------
(* Copies. *)

\* How often m is in the queue q.
Occ(q, m) == Cardinality({i \in 1 .. Len(q) : q[i] = m})

\* A copy of e that came on the stream s, and the frame it came in.
Copy(s, e) == [ev |-> e, on |-> s]
EventFrame(e) == [type |-> "event", ev |-> e]

\* The callers that hold a copy, and the copies of an event on their way to the
\* application or there.
Holding(s, e) == {k \in Callers : ev[k] = Copy(s, e)}
InHand(s, e) == IF hand = Copy(s, e) THEN 1 ELSE 0
Given(s, e) ==
    Occ(queue, Copy(s, e)) + Occ(events, Copy(s, e)) + InHand(s, e) + Cardinality(Holding(s, e))

\* The calls that will take a copy of e off the count of s: an OK is there for them.
OkComes(k) == \E f \in Elems(down[via[k]]) : f.type = "ok" /\ f.by = k /\ f.id = ack[k]
Settling(s, e) ==
    {k \in Callers : via[k] = s /\ ev[k].ev = e /\ (box[k] = "ok" \/ (k \in waiting /\ OkComes(k)))}

\* An ack of a copy that came on another stream is the exception of the property.
Own(k) == ev[k].on = via[k] \/ ev[k].ev \in dropped
AcksAreOwn ==
    /\ \A s \in Streams : \A a \in Elems(up[s]) : via[a.by] = s /\ ack[a.by] = a.id => Own(a.by)
    /\ \A s \in Streams : \A f \in Elems(down[s]) :
           f.type # "event" /\ via[f.by] = s /\ ack[f.by] = f.id => Own(f.by)
    /\ \A k \in Callers : box[k] = "ok" => Own(k)

\* Every copy given to the application is counted.
GivenAreCounted ==
    \A s \in Streams : \A e \in Events \ dropped : ~ended[s] => copies[s][e] >= Given(s, e)

\* An event that is out on the stream is counted once more than will be settled,
\* or comes again.
HeldAreCounted ==
    \A s \in Streams : \A e \in Events \ dropped :
        ~ended[s] /\ e \in held[s] =>
            copies[s][e] + Occ(down[s], EventFrame(e)) > Cardinality(Settling(s, e))

\* The inductive invariant for copies.
CopiesInv ==
    /\ GroupInv /\ IsFiniteSet({k \in Callers : ev[k] # Nothing})
    /\ AcksAreOwn
    /\ manual => run # "offering" /\ GivenAreCounted /\ HeldAreCounted

\* Counting in a queue.
LEMMA Occurs ==
    ASSUME NEW S, NEW q \in Seq(S), NEW m
    PROVE  /\ Occ(q, m) \in Nat /\ Occ(<<>>, m) = 0
           /\ Occ(q, m) # 0 => \E i \in 1 .. Len(q) : q[i] = m
           /\ \A x \in S : Occ(Append(q, x), m) = Occ(q, m) + (IF x = m THEN 1 ELSE 0)
           /\ q # <<>> => Occ(q, m) = Occ(Tail(q), m) + (IF Head(q) = m THEN 1 ELSE 0)
<1> DEFINE At(p) == {i \in 1 .. Len(p) : p[i] = m}
<1>0. \A p : Occ(p, m) = Cardinality(At(p))
  BY DEF Occ
<1>1. ASSUME NEW p \in Seq(S) PROVE IsFiniteSet(At(p)) /\ Cardinality(At(p)) \in Nat
  <2>1. IsFiniteSet(1 .. Len(p)) /\ At(p) \in SUBSET (1 .. Len(p))
    BY <1>1, FS_Interval
  <2>2. IsFiniteSet(At(p))
    BY <2>1, FS_Subset
  <2> QED
    BY <2>2, FS_CardinalityType
<1>2. Cardinality(At(<<>>)) = 0
  <2>1. At(<<>>) = {}
    OBVIOUS
  <2> QED
    BY <2>1, FS_EmptySet
<1>3. Cardinality(At(q)) # 0 => \E i \in 1 .. Len(q) : q[i] = m
  <2>1. At(q) = {} => Cardinality(At(q)) = 0
    BY FS_EmptySet
  <2> QED
    BY <2>1
<1>4. ASSUME NEW x \in S
      PROVE  Cardinality(At(Append(q, x))) = Cardinality(At(q)) + (IF x = m THEN 1 ELSE 0)
  <2>1. /\ Len(Append(q, x)) = Len(q) + 1 /\ Len(q) \in Nat /\ Append(q, x)[Len(q) + 1] = x
        /\ \A i \in 1 .. Len(q) : Append(q, x)[i] = q[i]
    OBVIOUS
  <2>2. CASE x = m
    <3>1. At(Append(q, x)) = At(q) \cup {Len(q) + 1} /\ Len(q) + 1 \notin At(q)
      BY <2>1, <2>2
    <3> HIDE DEF At
    <3> QED
      BY <1>1, <2>2, <3>1, FS_AddElement
  <2>3. CASE x # m
    <3>1. At(Append(q, x)) = At(q)
      BY <2>1, <2>3
    <3> HIDE DEF At
    <3> QED
      BY <1>1, <2>3, <3>1
  <2> QED
    BY <2>2, <2>3
<1>5. ASSUME q # <<>>
      PROVE  Cardinality(At(q)) = Cardinality(At(Tail(q))) + (IF Head(q) = m THEN 1 ELSE 0)
  <2>1. /\ Head(q) = q[1] /\ Len(q) \in Nat \ {0} /\ Tail(q) \in Seq(S) /\ Len(Tail(q)) = Len(q) - 1
        /\ \A i \in 1 .. Len(Tail(q)) : Tail(q)[i] = q[i + 1]
    BY <1>5
  <2> DEFINE T == At(q) \ {1}
             h == [i \in T |-> i - 1]
  <2>2. \A i \in T : i - 1 \in At(Tail(q))
    <3> SUFFICES ASSUME NEW i \in T PROVE i - 1 \in At(Tail(q))
      OBVIOUS
    <3>1. i \in 2 .. Len(q) /\ q[i] = m
      BY <2>1
    <3>2. i - 1 \in 1 .. Len(Tail(q)) /\ Tail(q)[i - 1] = q[(i - 1) + 1] /\ (i - 1) + 1 = i
      BY <2>1, <3>1
    <3> QED
      BY <3>1, <3>2
  <2>3. \A j \in At(Tail(q)) : j + 1 \in T /\ (j + 1) - 1 = j
    BY <2>1
  <2>4. h \in [T -> At(Tail(q))] /\ \A i \in T : h[i] = i - 1
    BY <2>2
  <2>5. T \subseteq Int
    BY <2>1
  <2>6. h \in Bijection(T, At(Tail(q)))
    <3>1. \A j \in At(Tail(q)) : \E i \in T : h[i] = j
      BY <2>3, <2>4
    <3>2. \A i, j \in T : h[i] = h[j] => i = j
      BY <2>4, <2>5
    <3>3. DOMAIN h = T
      BY <2>4
    <3> HIDE DEF h, T, At
    <3> QED
      BY <2>4, <3>1, <3>2, <3>3 DEF Bijection, Injection, Surjection, IsInjective
  <2>7. 1 \in At(q) <=> Head(q) = m
    BY <2>1
  <2>8. IsFiniteSet(At(q)) /\ Cardinality(At(q)) \in Nat /\ Cardinality(At(Tail(q))) \in Nat
    BY <1>1, <2>1
  <2> HIDE DEF h, At
  <2>9. IsFiniteSet(T) /\ Cardinality(T) = IF 1 \in At(q) THEN Cardinality(At(q)) - 1 ELSE Cardinality(At(q))
    BY <2>8, FS_RemoveElement
  <2>10. Cardinality(At(Tail(q))) = Cardinality(T)
    BY <2>6, <2>9, FS_Bijection DEF ExistsBijection
  <2> QED
    BY <2>7, <2>8, <2>9, <2>10
<1> HIDE DEF At
<1> QED
  BY <1>0, <1>1, <1>2, <1>3, <1>4, <1>5

\* What is excepted stays so.
LEMMA DroppedGrows ==
    ASSUME Next PROVE dropped \subseteq dropped'
<1>1. CASE UNCHANGED dropped
  BY <1>1
<1>2. CASE ServerSteps
  BY <1>1, <1>2 DEF ServerSteps, ServerSends, ServerAnswers, ServerEnds, history
<1>3. CASE \/ StreamJoined \/ Registered \/ OpenFails \/ Reconnect \/ ReadEvent \/ Signal \/ SkipMalformed
           \/ ReadAuto \/ Offered \/ ReadResult \/ ReadEnds \/ Exit \/ Closed \/ PumpSteps
  BY <1>3 DEF StreamJoined, Registered, OpenFails, Reconnect, ReadEvent, Signal, SkipMalformed, ReadAuto,
     Offered, ReadResult, ReadEnds, Exit, Closed, PumpSteps, PumpScan, PumpOffers, PumpWakes, history
<1>4. CASE Unsubscribe \/ HalfClose \/ ForceCancel \/ JoinCtxDone \/ IdleTimeout
  BY <1>1, <1>4 DEF Unsubscribe, HalfClose, ForceCancel, JoinCtxDone, IdleTimeout, history
<1>5. ASSUME NEW k \in Callers, CallerSteps(k) PROVE dropped \subseteq dropped'
  BY <1>5 DEF CallerSteps, Take, Abandon, Settle, Register, Send, OnWire, SendFails, SendStuck,
     StuckReturns, Answered, TimesOut, history
<1> QED
  BY <1>2, <1>3, <1>4, <1>5, StepKinds

\* A call begins to wait with a new id.
LEMMA WaitingMoves ==
    ASSUME TypesInv, Next, NEW k \in Callers, k \in waiting'
    PROVE  k \in waiting \/ at[k] = "entered"
<1>0. CallTypes
  BY DEF TypesInv
<1>1. CASE waiting' \subseteq waiting
  BY <1>1
<1>2. CASE ServerSteps
  BY <1>1, <1>2 DEF ServerSteps, ServerSends, ServerAnswers, ServerEnds, callVars
<1>3. CASE \/ StreamJoined \/ Registered \/ OpenFails \/ Reconnect \/ ReadEvent \/ Signal \/ SkipMalformed
           \/ ReadAuto \/ Offered \/ ReadResult \/ ReadEnds \/ Exit \/ Closed \/ PumpSteps
  BY <1>1, <1>3 DEF StreamJoined, Registered, OpenFails, Reconnect, ReadEvent, Signal, SkipMalformed, ReadAuto,
     Offered, ReadResult, ReadEnds, finish, Exit, Closed, PumpSteps, PumpScan, PumpOffers, PumpWakes, callVars
<1>4. CASE Unsubscribe \/ HalfClose \/ ForceCancel \/ JoinCtxDone \/ IdleTimeout
  BY <1>1, <1>4 DEF Unsubscribe, HalfClose, ForceCancel, JoinCtxDone, IdleTimeout, callVars
<1>5. ASSUME NEW l \in Callers, CallerSteps(l) PROVE k \in waiting \/ at[k] = "entered"
  <2>1. ASSUME NEW place, Return(l, place) PROVE waiting' \subseteq waiting
    BY <2>1 DEF Return
  <2>2. CASE Register(l)
    <3>1. at[l] = "entered" /\ waiting' \in {waiting, waiting \ {l}, waiting \cup {l}}
      BY <2>2 DEF Register, Return
    <3> QED
      BY <3>1
  <2> QED
    BY <1>1, <1>5, <2>1, <2>2 DEF CallerSteps, Take, Abandon, Settle, Send, SendFails, SendStuck,
       StuckReturns, Answered, TimesOut
<1> QED
  BY <1>2, <1>3, <1>4, <1>5, StepKinds

\* A call whose id is on the wire after a step had it before.
LEMMA SameCall ==
    ASSUME TypesInv, FreshIds, Next, NEW s \in Streams, NEW k \in Callers, via'[k] = s, ack'[k] \in Nat \ {0},
           ~ended[s] => ack'[k] <= nextAck[s]
    PROVE  UNCHANGED <<via[k], ack[k], ev[k], kind[k]>>
<1>1. nextAck[s] \in Nat
  BY DEF TypesInv, CallTypes
<1>2. CASE ack'[k] = 0
  BY <1>2
<1>3. CASE ~ended[via[k]] /\ ack'[k] = nextAck[via[k]] + 1 /\ UNCHANGED via[k]
  BY <1>1, <1>3
<1> QED
  BY <1>2, <1>3, CallMoves

\* Acks of copies of another stream are excepted when they are sent.
LEMMA OwnStep ==
    ASSUME TypesInv, FreshIds, AcksAreOwn, Next PROVE AcksAreOwn'
<1>0. /\ ServerTypes /\ CallTypes /\ CallPlaces /\ ServerTypes' /\ CallTypes' /\ CallPlaces'
      /\ dropped \subseteq dropped'
  BY TypesStep, DroppedGrows DEF TypesInv
<1>1. ASSUME NEW k \in Callers, UNCHANGED <<via[k], ev[k]>>, Own(k) PROVE Own(k)'
  BY <1>0, <1>1 DEF Own
<1>2. ASSUME NEW s \in Streams, NEW a \in Elems(up'[s]), via'[a.by] = s, ack'[a.by] = a.id PROVE Own(a.by)'
  <2>1. a.by \in Callers /\ a.id \in Nat \ {0}
    <3>1. up'[s] \in Seq(Acks)
      BY <1>0 DEF ServerTypes
    <3>2. a \in Acks
      BY <3>1, Queues
    <3> QED
      BY <3>2 DEF Acks
  <2>2. CASE a \in Elems(up[s])
    <3>1. UNCHANGED <<via[a.by], ack[a.by], ev[a.by]>>
      BY <1>2, <2>1, <2>2, SameCall DEF FreshIds
    <3> QED
      BY <1>1, <1>2, <2>1, <2>2, <3>1 DEF AcksAreOwn
  <2>3. ASSUME NEW k \in Callers, Send(k), a.by = k PROVE Own(a.by)'
    BY <2>3 DEF Send, OnWire, Own
  <2> QED
    BY <1>2, <2>2, <2>3, UpMoves
<1>3. ASSUME NEW s \in Streams, NEW f \in Elems(down'[s]), f.type # "event", via'[f.by] = s, ack'[f.by] = f.id
      PROVE  Own(f.by)'
  <2>1. f.by \in Callers /\ f.id \in Nat \ {0}
    <3>1. down'[s] \in Seq(Frames)
      BY <1>0 DEF ServerTypes
    <3> QED
      BY <1>3, <3>1, Queues, FrameFields
  <2>2. ~ended[s] => f.id <= nextAck[s]
    BY <1>3, DownMoves DEF FreshIds
  <2>3. UNCHANGED <<via[f.by], ack[f.by], ev[f.by]>>
    BY <1>3, <2>1, <2>2, SameCall
  <2>4. CASE f \in Elems(down[s])
    BY <1>1, <1>3, <2>1, <2>3, <2>4 DEF AcksAreOwn
  <2>5. ASSUME Head(up[s]) \in Elems(up[s]), f.by = Head(up[s]).by, f.id = Head(up[s]).id PROVE Own(f.by)'
    BY <1>1, <1>3, <2>1, <2>3, <2>5 DEF AcksAreOwn
  <2> QED
    BY <1>3, <2>4, <2>5, DownMoves
<1>4. ASSUME NEW k \in Callers, box'[k] = "ok" PROVE Own(k)'
  <2>1. UNCHANGED <<via[k], ev[k]>>
    <3>1. at'[k] \notin {"idle", "holding", "entered"}
      BY <1>0, <1>4 DEF CallPlaces
    <3>2. ~(at[k] = "entered" /\ UNCHANGED box[k])
      BY <1>0, <1>4 DEF CallPlaces
    <3> QED
      BY <3>1, <3>2, CallMoves
  <2>2. Own(k)
    BY <1>4, BoxMoves DEF AcksAreOwn
  <2> QED
    BY <1>1, <2>1, <2>2
<1> QED
  BY <1>2, <1>3, <1>4 DEF AcksAreOwn

\* An OK comes for a call only when the server takes the event back.
LEMMA SettlingMoves ==
    ASSUME TypesInv, FreshIds, ResultsMatch, Next, NEW s \in Streams, NEW e \in Events,
           ~ended'[s], e \in held'[s]
    PROVE  Settling(s, e)' \subseteq Settling(s, e)
<1>0. ServerTypes /\ CallTypes /\ CallPlaces /\ ServerTypes' /\ CallTypes' /\ CallPlaces'
  BY TypesStep DEF TypesInv
<1> SUFFICES ASSUME NEW k \in Callers, via'[k] = s, ev'[k].ev = e,
                    box'[k] = "ok" \/ (k \in waiting' /\ OkComes(k)')
             PROVE  k \in Settling(s, e)
  BY DEF Settling
<1>1. CASE box'[k] = "ok"
  <2>1. UNCHANGED <<via[k], ev[k]>>
    <3>1. at'[k] \notin {"idle", "holding", "entered"}
      BY <1>0, <1>1 DEF CallPlaces
    <3>2. ~(at[k] = "entered" /\ UNCHANGED box[k])
      BY <1>0, <1>1 DEF CallPlaces
    <3> QED
      BY <3>1, <3>2, CallMoves
  <2> QED
    BY <1>1, <2>1, BoxMoves DEF Settling, OkComes
<1>2. CASE k \in waiting' /\ OkComes(k)'
  <2>1. PICK f \in Elems(down'[s]) : f.type = "ok" /\ f.by = k /\ f.id = ack'[k]
    BY <1>2 DEF OkComes
  <2>2. f.id \in Nat \ {0}
    <3>1. down'[s] \in Seq(Frames)
      BY <1>0 DEF ServerTypes
    <3> QED
      BY <2>1, <3>1, Queues, FrameFields
  <2>3. ~ended[s] => f.id <= nextAck[s]
    BY <2>1, DownMoves DEF FreshIds
  <2>4. UNCHANGED <<via[k], ack[k], ev[k]>>
    BY <2>1, <2>2, <2>3, SameCall
  <2>5. k \in waiting
    BY <1>0, <1>2, <2>1, <2>2, <2>4, WaitingMoves DEF CallPlaces
  <2>6. CASE f \in Elems(down[s])
    BY <2>1, <2>4, <2>5, <2>6 DEF Settling, OkComes
  <2>7. ASSUME ServerAnswers(s), Head(up[s]) \in Elems(up[s]), Answer(s, "ok"),
               f.by = Head(up[s]).by, f.id = Head(up[s]).id
        PROVE  FALSE
    <3> DEFINE a == Head(up[s])
    <3>0. a \in Elems(up[s]) /\ a.by = k /\ via[a.by] = s /\ ack[a.by] = a.id
      BY <2>1, <2>4, <2>7
    <3> HIDE DEF a
    <3>1. ev[k].ev = a.ev
      BY <3>0 DEF ResultsMatch
    <3>2. a.ev \notin held'[s]
      BY <2>7 DEF Answer, a
    <3> QED
      BY <2>4, <3>1, <3>2
  <2> QED
    BY <2>1, <2>6, <2>7, DownMoves
<1> QED
  BY <1>1, <1>2

\* What a caller holds changes when it takes a copy or is done with one.
LEMMA EvMoves ==
    ASSUME TypesInv, Next
    PROVE  \/ UNCHANGED ev
           \/ \E k \in Callers : Take(k)
           \/ \E k \in Callers : ev' = [ev EXCEPT ![k] = Nothing]
<1>1. CASE ServerSteps
  BY <1>1 DEF ServerSteps, ServerSends, ServerAnswers, ServerEnds, callVars
<1>2. CASE \/ StreamJoined \/ Registered \/ OpenFails \/ Reconnect \/ ReadEvent \/ Signal \/ SkipMalformed
           \/ ReadAuto \/ Offered \/ ReadResult \/ ReadEnds \/ Exit \/ Closed \/ PumpSteps
  BY <1>2 DEF StreamJoined, Registered, OpenFails, Reconnect, ReadEvent, Signal, SkipMalformed, ReadAuto,
     Offered, ReadResult, ReadEnds, Exit, Closed, PumpSteps, PumpScan, PumpOffers, PumpWakes, callVars
<1>3. CASE Unsubscribe \/ HalfClose \/ ForceCancel \/ JoinCtxDone \/ IdleTimeout
  BY <1>3 DEF Unsubscribe, HalfClose, ForceCancel, JoinCtxDone, IdleTimeout, callVars
<1>4. ASSUME NEW k \in Callers, CallerSteps(k)
      PROVE  UNCHANGED ev \/ Take(k) \/ ev' = [ev EXCEPT ![k] = Nothing]
  <2>1. ASSUME NEW place, Return(k, place) PROVE UNCHANGED ev \/ ev' = [ev EXCEPT ![k] = Nothing]
    BY <2>1 DEF Return
  <2> QED
    BY <1>4, <2>1 DEF CallerSteps, Abandon, Settle, Register, Send, SendFails, SendStuck,
       StuckReturns, Answered, TimesOut
<1> QED
  BY <1>1, <1>2, <1>3, <1>4, StepKinds

\* The callers that hold something are finitely many.
LEMMA HoldersStep ==
    ASSUME TypesInv, Next, IsFiniteSet({k \in Callers : ev[k] # Nothing})
    PROVE  IsFiniteSet({k \in Callers : ev[k] # Nothing}')
<1> DEFINE H == {k \in Callers : ev[k] # Nothing}
<1>0. DOMAIN ev = Callers
  BY DEF TypesInv, CallTypes
<1>1. \E k : H' \in SUBSET (H \cup {k})
  <2>1. CASE UNCHANGED ev
    BY <2>1
  <2>2. ASSUME NEW k \in Callers, Take(k) PROVE H' \in SUBSET (H \cup {k})
    <3>1. ev' = [ev EXCEPT ![k] = Head(events)]
      BY <2>2 DEF Take
    <3> QED
      BY <1>0, <3>1
  <2>3. ASSUME NEW k \in Callers, ev' = [ev EXCEPT ![k] = Nothing] PROVE H' \in SUBSET (H \cup {k})
    BY <1>0, <2>3
  <2> QED
    BY <2>1, <2>2, <2>3, EvMoves
<1>2. PICK k : H' \in SUBSET (H \cup {k})
  BY <1>1
<1> HIDE DEF H
<1>3. IsFiniteSet(H \cup {k})
  BY FS_AddElement DEF H
<1>4. IsFiniteSet(H')
  BY <1>2, <1>3, FS_Subset
<1> QED
  BY <1>4 DEF H

\* The sets of callers that are counted.
LEMMA CallersCount ==
    ASSUME TypesInv, AcksAreOwn, IsFiniteSet({k \in Callers : ev[k] # Nothing}),
           NEW s \in Streams, NEW e \in Events
    PROVE  /\ IsFiniteSet(Holding(s, e)) /\ Cardinality(Holding(s, e)) \in Nat
           /\ e \notin dropped => Settling(s, e) \subseteq Holding(s, e)
<1>1. Holding(s, e) \in SUBSET {k \in Callers : ev[k] # Nothing}
  BY GroupAssumption DEF Holding, Copy, Nothing
<1>2. IsFiniteSet(Holding(s, e))
  BY <1>1, FS_Subset
<1>3. ASSUME e \notin dropped, NEW k \in Settling(s, e) PROVE k \in Holding(s, e)
  <2>1. k \in Callers /\ via[k] = s /\ ev[k].ev = e /\ (box[k] = "ok" \/ OkComes(k))
    BY <1>3 DEF Settling
  <2>2. Own(k)
    <3>1. CASE box[k] = "ok"
      BY <2>1, <3>1 DEF AcksAreOwn
    <3>2. CASE OkComes(k)
      BY <2>1, <3>2 DEF AcksAreOwn, OkComes
    <3> QED
      BY <2>1, <3>1, <3>2
  <2>3. ev[k].on = s
    BY <1>3, <2>1, <2>2 DEF Own
  <2>4. ev[k] \in Items
    <3>1. ev[k] \in Items \cup {Nothing} /\ Nothing.ev = NoEvent
      BY <2>1 DEF TypesInv, CallTypes, Nothing
    <3> QED
      BY <2>1, <3>1, GroupAssumption
  <2> QED
    BY <2>1, <2>3, <2>4 DEF Holding, Copy, Items
<1> QED
  BY <1>2, <1>3, FS_CardinalityType

\* The copies given, in numbers.
LEMMA GivenCount ==
    ASSUME TypesInv, AcksAreOwn, IsFiniteSet({k \in Callers : ev[k] # Nothing}),
           NEW s \in Streams, NEW e \in Events
    PROVE  /\ Occ(queue, Copy(s, e)) \in Nat /\ Occ(events, Copy(s, e)) \in Nat
           /\ InHand(s, e) \in Nat /\ Given(s, e) \in Nat /\ copies[s][e] \in Nat
           /\ Given(s, e) >= Cardinality(Holding(s, e))
<1>1. queue \in Seq(Items) /\ events \in Seq(Items) /\ copies[s][e] \in Nat
  BY DEF TypesInv, RunTypes
<1>2. Occ(queue, Copy(s, e)) \in Nat /\ Occ(events, Copy(s, e)) \in Nat
  BY <1>1, Occurs
<1>3. InHand(s, e) \in Nat
  BY DEF InHand
<1>4. Cardinality(Holding(s, e)) \in Nat
  BY CallersCount
<1> QED
  BY <1>1, <1>2, <1>3, <1>4 DEF Given

\* The count of an event changes when a frame is read, when a call is answered OK
\* and when the stream ends.
LEMMA CountMoves ==
    ASSUME TypesInv, Next, NEW s \in Streams, NEW e \in Events, ~ended'[s], e \notin dropped'
    PROVE  \/ copies'[s][e] = copies[s][e]
           \/ ReadEvent /\ s = cur /\ Head(down[s]).ev = e /\ copies'[s][e] = copies[s][e] + 1
           \/ \E k \in Callers :
                 /\ Answered(k) /\ box[k] = "ok" /\ via[k] = s /\ ev[k].ev = e
                 /\ copies'[s][e] = IF copies[s][e] = 0 THEN 0 ELSE copies[s][e] - 1
<1>0. copies \in [Streams -> [Events -> Nat]] /\ ended \in [Streams -> BOOLEAN]
  BY DEF TypesInv, RunTypes
<1>1. CASE UNCHANGED copies
  BY <1>1
<1>2. CASE ServerSteps
  BY <1>1, <1>2 DEF ServerSteps, ServerSends, ServerAnswers, ServerEnds
<1>3. CASE \/ StreamJoined \/ Registered \/ OpenFails \/ Reconnect \/ Signal \/ SkipMalformed \/ ReadAuto
           \/ Offered \/ ReadResult \/ Exit \/ Closed \/ PumpSteps
  BY <1>1, <1>3 DEF StreamJoined, Registered, OpenFails, Reconnect, Signal, SkipMalformed, ReadAuto, Offered,
     ReadResult, Exit, Closed, PumpSteps, PumpScan, PumpOffers, PumpWakes
<1>4. CASE Unsubscribe \/ HalfClose \/ ForceCancel \/ JoinCtxDone \/ IdleTimeout
  BY <1>1, <1>4 DEF Unsubscribe, HalfClose, ForceCancel, JoinCtxDone, IdleTimeout
<1>5. CASE ReadEvent
  <2>1. PICK old \in SUBSET Events :
           /\ copies' = [copies EXCEPT ![cur] =
                            [f \in Events |-> (IF f \in old THEN 0 ELSE @[f])
                                              + (IF f = Head(down[cur]).ev THEN 1 ELSE 0)]]
           /\ dropped' = dropped \cup old
    BY <1>5 DEF ReadEvent
  <2>2. CASE s = cur
    <3>1. copies'[s][e] = copies[s][e] + (IF e = Head(down[cur]).ev THEN 1 ELSE 0)
      BY <1>0, <2>1, <2>2
    <3> QED
      BY <1>0, <1>5, <2>2, <3>1
  <2>3. CASE s # cur
    BY <1>0, <2>1, <2>3
  <2> QED
    BY <2>2, <2>3
<1>6. CASE ReadEnds
  <2>1. copies' = [copies EXCEPT ![cur] = [f \in Events |-> 0]] /\ ended' = [ended EXCEPT ![cur] = TRUE]
    BY <1>6 DEF ReadEnds, finish
  <2> QED
    BY <1>0, <2>1
<1>7. ASSUME NEW k \in Callers, CallerSteps(k), ~UNCHANGED copies
      PROVE  \/ copies'[s][e] = copies[s][e]
             \/ /\ Answered(k) /\ box[k] = "ok" /\ via[k] = s /\ ev[k].ev = e
                /\ copies'[s][e] = IF copies[s][e] = 0 THEN 0 ELSE copies[s][e] - 1
  <2>1. Answered(k) /\ box[k] = "ok" /\ applyResult(k)
    BY <1>7 DEF CallerSteps, Take, Abandon, Settle, Register, Send, SendFails, SendStuck,
       StuckReturns, Answered, TimesOut
  <2>2. via[k] \in Streams /\ ev[k].ev \in Events
    BY <2>1 DEF TypesInv, CallPlaces, Items, Answered
  <2>3. copies' = [copies EXCEPT ![via[k]][ev[k].ev] = IF @ = 0 THEN 0 ELSE @ - 1]
    BY <2>1 DEF applyResult
  <2>4. CASE via[k] = s /\ ev[k].ev = e
    BY <1>0, <2>1, <2>3, <2>4
  <2>5. CASE ~(via[k] = s /\ ev[k].ev = e)
    BY <1>0, <2>2, <2>3, <2>5
  <2> QED
    BY <2>4, <2>5
<1> QED
  BY <1>1, <1>2, <1>3, <1>4, <1>5, <1>6, <1>7, StepKinds

\* Where copies move: into the queue, the pump's hand, Events and a caller.
LEMMA CopiesPlaces ==
    ASSUME Next
    PROVE  \/ UNCHANGED <<queue, events, hand>>
           \/ ReadEvent \/ PumpScan \/ PumpOffers \/ Offered \/ \E k \in Callers : Take(k)
<1>1. CASE ServerSteps
  BY <1>1 DEF ServerSteps, ServerSends, ServerAnswers, ServerEnds, pumpVars
<1>2. CASE \/ StreamJoined \/ Registered \/ OpenFails \/ Reconnect \/ Signal \/ SkipMalformed
           \/ ReadAuto \/ ReadResult \/ ReadEnds \/ Exit \/ Closed \/ PumpWakes
  BY <1>2 DEF StreamJoined, Registered, OpenFails, Reconnect, Signal, SkipMalformed, ReadAuto,
     ReadResult, ReadEnds, Exit, Closed, PumpWakes, pumpVars
<1>3. CASE Unsubscribe \/ HalfClose \/ ForceCancel \/ JoinCtxDone \/ IdleTimeout
  BY <1>3 DEF Unsubscribe, HalfClose, ForceCancel, JoinCtxDone, IdleTimeout, pumpVars
<1>4. ASSUME NEW k \in Callers, CallerSteps(k), ~Take(k) PROVE UNCHANGED <<queue, events, hand>>
  BY <1>4 DEF CallerSteps, Abandon, Settle, Register, Send, SendFails, SendStuck,
     StuckReturns, Answered, TimesOut, pumpVars
<1> QED
  BY <1>1, <1>2, <1>3, <1>4, StepKinds DEF PumpSteps

\* Copies that move stay as many.
LEMMA GivenStep ==
    ASSUME TypesInv, AcksAreOwn, IsFiniteSet({k \in Callers : ev[k] # Nothing}), manual, run # "offering",
           GivenAreCounted, Next
    PROVE  GivenAreCounted'
<1>0. /\ TypesInv' /\ dropped \subseteq dropped' /\ queue \in Seq(Items) /\ events \in Seq(Items)
      /\ DOMAIN ev = Callers
  BY TypesStep, DroppedGrows DEF TypesInv, RunTypes, CallTypes
<1> SUFFICES ASSUME NEW s \in Streams, NEW e \in Events, e \notin dropped', ~ended'[s]
             PROVE  copies'[s][e] >= Given(s, e)'
  BY DEF GivenAreCounted
<1> DEFINE m == Copy(s, e)
           H == Holding(s, e)
<1>1. ~ended[s] /\ e \notin dropped
  BY <1>0, IdsMoves
<1>2. copies[s][e] >= Given(s, e)
  BY <1>1 DEF GivenAreCounted
<1>3. /\ Occ(queue, m) \in Nat /\ Occ(events, m) \in Nat /\ InHand(s, e) \in Nat /\ copies[s][e] \in Nat
      /\ IsFiniteSet(H) /\ Cardinality(H) \in Nat
  BY GivenCount, CallersCount
<1>4. /\ Given(s, e) = Occ(queue, m) + Occ(events, m) + InHand(s, e) + Cardinality(H)
      /\ Given(s, e)' = Occ(queue', m) + Occ(events', m) + InHand(s, e)' + Cardinality(H')
  BY DEF Given, Copy
<1>5. /\ UNCHANGED ev => Cardinality(H') = Cardinality(H)
      /\ (\E k \in Callers : ev' = [ev EXCEPT ![k] = Nothing]) =>
            H' \subseteq H /\ Cardinality(H') <= Cardinality(H) /\ Cardinality(H') \in Nat
  <2>1. ASSUME UNCHANGED ev PROVE Cardinality(H') = Cardinality(H)
    BY <2>1 DEF Holding, Copy
  <2>2. ASSUME NEW k \in Callers, ev' = [ev EXCEPT ![k] = Nothing]
        PROVE  H' \subseteq H
    <3>1. Nothing # m
      BY GroupAssumption DEF Nothing, Copy
    <3> QED
      BY <1>0, <2>2, <3>1 DEF Holding, Copy
  <2>3. ASSUME H' \subseteq H PROVE Cardinality(H') <= Cardinality(H) /\ Cardinality(H') \in Nat
    <3> HIDE DEF H
    <3>1. IsFiniteSet(H') /\ Cardinality(H') <= Cardinality(H)
      BY <1>3, <2>3, FS_Subset
    <3> QED
      BY <3>1, FS_CardinalityType
  <2> QED
    BY <2>1, <2>2, <2>3
<1>6. UNCHANGED hand => InHand(s, e)' = InHand(s, e)
  BY DEF InHand, Copy
<1> HIDE DEF m, H
<1>7. ASSUME NEW k \in Callers, Answered(k), box[k] = "ok", via[k] = s, ev[k].ev = e,
             copies'[s][e] = IF copies[s][e] = 0 THEN 0 ELSE copies[s][e] - 1
      PROVE  copies'[s][e] >= Given(s, e)'
  <2>1. ev[k] \in Items /\ Own(k)
    BY <1>7 DEF Answered, TypesInv, CallPlaces, AcksAreOwn
  <2>2. ev[k] = Copy(s, e)
    BY <1>1, <1>7, <2>1 DEF Own, Items, Copy
  <2>3. ev' = [ev EXCEPT ![k] = Nothing] /\ UNCHANGED <<queue, events, hand>>
    BY <1>7 DEF Answered, Return, pumpVars
  <2>4. H' \in SUBSET (H \ {k}) /\ k \in H
    <3>1. Nothing # Copy(s, e)
      BY GroupAssumption DEF Nothing, Copy
    <3> QED
      BY <1>0, <1>7, <2>2, <2>3, <3>1 DEF H, Holding, Copy
  <2>5. IsFiniteSet(H \ {k}) /\ Cardinality(H \ {k}) = Cardinality(H) - 1
    BY <1>3, <2>4, FS_RemoveElement
  <2>6. IsFiniteSet(H') /\ Cardinality(H') <= Cardinality(H) - 1
    BY <2>4, <2>5, FS_Subset
  <2>7. Cardinality(H') \in Nat
    BY <2>6, FS_CardinalityType
  <2> QED
    BY <1>2, <1>3, <1>4, <1>6, <1>7, <2>3, <2>6, <2>7
<1>8. CASE /\ UNCHANGED <<queue, events, hand>> /\ copies'[s][e] = copies[s][e]
  <2>1. ~(\E k \in Callers : Take(k))
    <3> SUFFICES ASSUME NEW k \in Callers, Take(k) PROVE FALSE
      OBVIOUS
    <3>1. events # <<>> /\ events' = Tail(events)
      BY DEF Take
    <3>2. Len(Tail(events)) = Len(events) - 1 /\ Len(events) \in Nat
      BY <1>0, <3>1
    <3> QED
      BY <1>8, <3>1, <3>2
  <2>2. Cardinality(H') <= Cardinality(H) /\ Cardinality(H') \in Nat
    BY <1>3, <1>5, <2>1, EvMoves
  <2> QED
    BY <1>2, <1>3, <1>4, <1>6, <1>8, <2>2
<1>9. CASE ReadEvent
  <2>1. /\ UNCHANGED <<events, hand, ev>> /\ queue' = Append(queue, Copy(cur, Head(down[cur]).ev))
        /\ cur \in Streams /\ Head(down[cur]) \in Frames /\ Head(down[cur]).type = "event"
    BY <1>9, FrameTaken DEF ReadEvent, callVars, Copy
  <2>2. Copy(cur, Head(down[cur]).ev) \in Items
    BY <2>1, FrameFields DEF Copy, Items
  <2>3. Occ(queue', m) = Occ(queue, m) + (IF Copy(cur, Head(down[cur]).ev) = m THEN 1 ELSE 0)
    BY <1>0, <2>1, <2>2, Occurs
  <2>4. Copy(cur, Head(down[cur]).ev) = m <=> cur = s /\ Head(down[cur]).ev = e
    BY DEF m, Copy
  <2>5. copies'[s][e] = copies[s][e] + (IF s = cur /\ Head(down[cur]).ev = e THEN 1 ELSE 0)
    <3>1. PICK old \in SUBSET Events :
             /\ copies' = [copies EXCEPT ![cur] =
                              [f \in Events |-> (IF f \in old THEN 0 ELSE @[f])
                                                + (IF f = Head(down[cur]).ev THEN 1 ELSE 0)]]
             /\ dropped' = dropped \cup old
      BY <1>9 DEF ReadEvent
    <3>2. copies \in [Streams -> [Events -> Nat]]
      BY DEF TypesInv, RunTypes
    <3>3. CASE s = cur
      BY <3>1, <3>2, <3>3
    <3>4. CASE s # cur
      BY <3>1, <3>2, <3>4
    <3> QED
      BY <3>3, <3>4
  <2> QED
    BY <1>2, <1>3, <1>4, <1>5, <1>6, <2>1, <2>3, <2>4, <2>5
<1>10. CASE PumpScan
  <2>1. UNCHANGED <<events, ev, copies>>
    BY <1>10 DEF PumpScan, callVars
  <2>2. CASE queue = <<>>
    <3>1. UNCHANGED <<queue, hand>>
      BY <1>10, <2>2 DEF PumpScan
    <3> QED
      BY <1>8, <2>1, <3>1
  <2>3. CASE queue # <<>>
    <3>1. queue' = Tail(queue) /\ hand' \in {Nothing, Head(queue)}
      BY <1>10, <2>3 DEF PumpScan
    <3>2. Occ(queue, m) = Occ(Tail(queue), m) + (IF Head(queue) = m THEN 1 ELSE 0)
      BY <1>0, <2>3, Occurs
    <3>3. Occ(Tail(queue), m) \in Nat
      <4>1. Tail(queue) \in Seq(Items)
        BY <1>0, <2>3
      <4> QED
        BY <4>1, Occurs
    <3>4. InHand(s, e)' <= (IF Head(queue) = m THEN 1 ELSE 0) /\ InHand(s, e)' \in Nat
      <4>1. Nothing # m
        BY GroupAssumption DEF m, Copy, Nothing
      <4> QED
        BY <3>1, <4>1 DEF InHand, m, Copy
    <3>5. Occ(queue', m) + InHand(s, e)' <= Occ(queue, m) /\ Occ(queue', m) \in Nat
      BY <3>1, <3>2, <3>3, <3>4
    <3>6. Cardinality(H') = Cardinality(H) /\ Occ(events', m) = Occ(events, m)
      BY <1>5, <2>1
    <3> QED
      BY <1>2, <1>3, <1>4, <2>1, <3>4, <3>5, <3>6
  <2> QED
    BY <2>2, <2>3
<1>11. CASE PumpOffers
  <2>1. UNCHANGED <<queue, ev, copies>> /\ hand' = Nothing /\ hand \in Items
    BY <1>11 DEF PumpOffers, callVars, TypesInv, RunTypes
  <2>2. events' = events \/ events' = Append(events, hand)
    BY <1>11 DEF PumpOffers
  <2>3. Occ(events', m) <= Occ(events, m) + InHand(s, e) /\ Occ(events', m) \in Nat
    <3>1. Occ(Append(events, hand), m) = Occ(events, m) + (IF hand = m THEN 1 ELSE 0)
      BY <1>0, <2>1, Occurs
    <3>2. InHand(s, e) = IF hand = m THEN 1 ELSE 0
      BY DEF InHand, m
    <3>3. CASE events' = events
      BY <1>3, <3>3
    <3>4. CASE events' = Append(events, hand)
      BY <1>3, <3>1, <3>2, <3>4
    <3> QED
      BY <2>2, <3>3, <3>4
  <2>4. InHand(s, e)' = 0
    <3>1. Nothing # m
      BY GroupAssumption DEF m, Copy, Nothing
    <3> QED
      BY <2>1, <3>1 DEF InHand, m, Copy
  <2> QED
    BY <1>2, <1>3, <1>4, <1>5, <2>1, <2>3, <2>4
<1>12. CASE Offered
  BY <1>12 DEF Offered
<1>13. ASSUME NEW k \in Callers, Take(k) PROVE copies'[s][e] >= Given(s, e)'
  <2>1. /\ UNCHANGED <<queue, hand, copies>> /\ events # <<>> /\ events' = Tail(events)
        /\ ev' = [ev EXCEPT ![k] = Head(events)]
    BY <1>13 DEF Take, pumpVars
  <2>2. Occ(events, m) = Occ(Tail(events), m) + (IF Head(events) = m THEN 1 ELSE 0)
    BY <1>0, <2>1, Occurs
  <2>3. Occ(Tail(events), m) \in Nat
    <3>1. Tail(events) \in Seq(Items)
      BY <1>0, <2>1
    <3> QED
      BY <3>1, Occurs
  <2>4. Cardinality(H') <= Cardinality(H) + (IF Head(events) = m THEN 1 ELSE 0) /\ Cardinality(H') \in Nat
    <3>1. CASE Head(events) = m
      <4>1. H' \in SUBSET (H \cup {k})
        BY <1>0, <2>1 DEF H, Holding, Copy
      <4>2. IsFiniteSet(H \cup {k}) /\ Cardinality(H \cup {k}) \in {Cardinality(H), Cardinality(H) + 1}
        BY <1>3, FS_AddElement
      <4>3. IsFiniteSet(H') /\ Cardinality(H') <= Cardinality(H \cup {k})
        BY <4>1, <4>2, FS_Subset
      <4>4. Cardinality(H') \in Nat /\ Cardinality(H \cup {k}) \in Nat
        BY <4>2, <4>3, FS_CardinalityType
      <4> QED
        BY <1>3, <3>1, <4>2, <4>3, <4>4
    <3>2. CASE Head(events) # m
      <4>1. H' \in SUBSET H
        BY <1>0, <2>1, <3>2 DEF H, Holding, Copy, m
      <4>2. IsFiniteSet(H') /\ Cardinality(H') <= Cardinality(H)
        BY <1>3, <4>1, FS_Subset
      <4>3. Cardinality(H') \in Nat
        BY <4>2, FS_CardinalityType
      <4> QED
        BY <1>3, <3>2, <4>2, <4>3
    <3> QED
      BY <3>1, <3>2
  <2>5. Occ(events', m) + Cardinality(H') <= Occ(events, m) + Cardinality(H) /\ Occ(events', m) \in Nat
    BY <1>3, <2>1, <2>2, <2>3, <2>4
  <2>6. InHand(s, e)' = InHand(s, e) /\ Occ(queue', m) = Occ(queue, m)
    BY <1>6, <2>1
  <2>7. Given(s, e)' <= Given(s, e) /\ Given(s, e)' \in Nat /\ Given(s, e) \in Nat
    BY <1>3, <1>4, <2>4, <2>5, <2>6
  <2> QED
    BY <1>2, <1>3, <2>1, <2>7
<1> QED
  BY <1>7, <1>8, <1>9, <1>10, <1>11, <1>12, <1>13, CopiesPlaces, CountMoves

\* The event frames on a stream: one comes when the server sends it, and one goes
\* when it is read and counted.
LEMMA FramesMove ==
    ASSUME TypesInv, manual, Next, NEW s \in Streams, NEW e \in Events, ~ended'[s], e \notin dropped'
    PROVE  \/ Occ(down'[s], EventFrame(e)) = Occ(down[s], EventFrame(e))
           \/ /\ ServerSends(s, e)
              /\ Occ(down'[s], EventFrame(e)) = Occ(down[s], EventFrame(e)) + 1
           \/ /\ ReadEvent /\ s = cur /\ Head(down[s]).ev = e
              /\ Occ(down'[s], EventFrame(e)) + 1 = Occ(down[s], EventFrame(e))
<1> DEFINE m == EventFrame(e)
<1>0. ServerTypes /\ down[s] \in Seq(Frames) /\ up[s] \in Seq(Acks) /\ ended \in [Streams -> BOOLEAN]
  BY DEF TypesInv, ServerTypes, RunTypes
<1>1. /\ Occ(down[s], m) \in Nat
      /\ \A x \in Frames : Occ(Append(down[s], x), m) = Occ(down[s], m) + (IF x = m THEN 1 ELSE 0)
      /\ down[s] # <<>> => Occ(down[s], m) = Occ(Tail(down[s]), m) + (IF Head(down[s]) = m THEN 1 ELSE 0)
  BY <1>0, Occurs
<1>2. CASE UNCHANGED down
  BY <1>2
<1>3. ASSUME NEW r \in Streams, NEW f \in Events, ServerSends(r, f)
      PROVE  \/ Occ(down'[s], m) = Occ(down[s], m)
             \/ ServerSends(s, e) /\ Occ(down'[s], m) = Occ(down[s], m) + 1
  <2>1. CASE r # s
    BY <1>0, <1>3, <2>1 DEF ServerTypes, ServerSends
  <2>2. CASE r = s
    <3>1. down'[s] = Append(down[s], EventFrame(f)) /\ EventFrame(f) \in Frames
      BY <1>0, <1>3, <2>2 DEF ServerTypes, ServerSends, EventFrame, Frames, EventFrames
    <3>2. EventFrame(f) = m <=> f = e
      BY DEF EventFrame
    <3> HIDE DEF m
    <3>3. Occ(down'[s], m) = Occ(down[s], m) + (IF f = e THEN 1 ELSE 0)
      BY <1>1, <3>1, <3>2
    <3> QED
      BY <1>1, <1>3, <2>2, <3>3
  <2> QED
    BY <2>1, <2>2
<1>4. ASSUME NEW r \in Streams, ServerAnswers(r) PROVE Occ(down'[s], m) = Occ(down[s], m)
  <2>1. CASE r # s
    BY <1>0, <1>4, <2>1 DEF ServerTypes, ServerAnswers
  <2>2. CASE r = s
    <3>1. PICK t \in {"ok", "rejected"} :
             down'[s] = Append(down[s], [type |-> t, by |-> Head(up[s]).by, id |-> Head(up[s]).id])
      BY <1>0, <1>4, <2>2 DEF ServerTypes, ServerAnswers
    <3>2. Head(up[s]) \in Acks
      BY <1>0, <1>4, <2>2, Queues DEF ServerAnswers
    <3>3. [type |-> t, by |-> Head(up[s]).by, id |-> Head(up[s]).id] \in Frames
      BY <3>2 DEF Acks, Frames, ResultFrames
    <3>4. [type |-> t, by |-> Head(up[s]).by, id |-> Head(up[s]).id] # m
      <4>1. [type |-> t, by |-> Head(up[s]).by, id |-> Head(up[s]).id].type # m.type
        BY DEF EventFrame
      <4> QED
        BY <4>1
    <3> HIDE DEF m
    <3> QED
      BY <1>1, <3>1, <3>3, <3>4
  <2> QED
    BY <2>1, <2>2
<1>5. ASSUME NEW t, NextFrame(t)
      PROVE  \/ Occ(down'[s], m) = Occ(down[s], m)
             \/ s = cur /\ t = "event" /\ Head(down[s]).ev = e /\ Occ(down'[s], m) + 1 = Occ(down[s], m)
  <2>1. /\ cur \in Streams /\ down[cur] # <<>> /\ Head(down[cur]).type = t
        /\ down' = [down EXCEPT ![cur] = Tail(@)]
    BY <1>5, FrameTaken DEF NextFrame
  <2>2. CASE s # cur
    BY <1>0, <2>1, <2>2 DEF ServerTypes
  <2>3. CASE s = cur
    <3>1. down'[s] = Tail(down[s]) /\ Tail(down[s]) \in Seq(Frames)
      BY <1>0, <2>1, <2>3 DEF ServerTypes
    <3>2. Occ(Tail(down[s]), m) \in Nat
      BY <3>1, Occurs
    <3>3. Head(down[s]) = m => t = "event" /\ Head(down[s]).ev = e
      BY <2>1, <2>3 DEF EventFrame
    <3> HIDE DEF m
    <3> QED
      BY <1>1, <2>1, <2>3, <3>1, <3>2, <3>3
  <2> QED
    BY <2>2, <2>3
<1> HIDE DEF m
<1>6. CASE ReadEvent
  <2>1. NextFrame("event")
    BY <1>6 DEF ReadEvent
  <2> QED
    BY <1>5, <1>6, <2>1 DEF m
<1>7. CASE SkipMalformed
  <2>1. NextFrame("event") /\ dropped' = dropped \cup {Head(down[cur]).ev}
    BY <1>7 DEF SkipMalformed
  <2> QED
    BY <1>5, <2>1 DEF m
<1>8. CASE ReadAuto
  BY <1>8 DEF ReadAuto
<1>9. CASE ReadResult
  <2>1. PICK t \in {"ok", "rejected"} : NextFrame(t)
    BY <1>9 DEF ReadResult
  <2> QED
    BY <1>5, <2>1 DEF m
<1>10. CASE ReadEnds
  <2>1. down' = [down EXCEPT ![cur] = <<>>] /\ ended' = [ended EXCEPT ![cur] = TRUE]
    BY <1>10 DEF ReadEnds, finish
  <2> QED
    BY <1>0, <2>1 DEF ServerTypes
<1>11. CASE StreamJoined \/ (\E r \in Streams : ServerEnds(r)) \/ (\E k \in Callers : Send(k))
  BY <1>2, <1>11 DEF StreamJoined, ServerEnds, Send
<1>12. ASSUME NEW k, OffWire(k) PROVE UNCHANGED down
  BY <1>12, OffWireFrame
<1> QED
  BY <1>2, <1>3, <1>4, <1>6, <1>7, <1>8, <1>9, <1>10, <1>11, <1>12, StepKinds
     DEF ServerSteps, CallerSteps, OffWire, m

\* An event is out on a stream only when it was sent there.
LEMMA HeldMoves ==
    ASSUME TypesInv, Next, NEW s \in Streams, NEW e \in Events, e \in held'[s]
    PROVE  e \in held[s] \/ ServerSends(s, e)
<1>0. ServerTypes
  BY DEF TypesInv
<1>1. ASSUME NEW r \in Streams, NEW f \in Events, ServerSends(r, f) PROVE e \in held[s] \/ ServerSends(s, e)
  <2>1. held' = [held EXCEPT ![r] = @ \cup {f}]
    BY <1>1 DEF ServerSends
  <2> QED
    BY <1>0, <1>1, <2>1 DEF ServerTypes
<1>2. ASSUME NEW r \in Streams, ServerAnswers(r) \/ ServerEnds(r) PROVE e \in held[s]
  <2>1. \/ UNCHANGED held \/ held' = [held EXCEPT ![r] = @ \ {Head(up[r]).ev}]
        \/ held' = [held EXCEPT ![r] = {}]
    BY <1>2 DEF ServerAnswers, ServerEnds
  <2> QED
    BY <1>0, <2>1 DEF ServerTypes
<1>3. CASE \/ StreamJoined \/ ReadEvent \/ SkipMalformed \/ ReadAuto \/ ReadResult \/ ReadEnds
           \/ \E k \in Callers : Send(k)
  BY <1>3 DEF StreamJoined, ReadEvent, SkipMalformed, ReadAuto, ReadResult, ReadEnds, Send
<1>4. ASSUME NEW k, OffWire(k) PROVE UNCHANGED held
  BY <1>4, OffWireFrame
<1> QED
  BY <1>1, <1>2, <1>3, <1>4, StepKinds DEF ServerSteps, CallerSteps, OffWire

\* The count of an event that is out stays ahead of the calls that settle it.
LEMMA HeldStep ==
    ASSUME TypesInv, FreshIds, ResultsMatch, AcksAreOwn, IsFiniteSet({k \in Callers : ev[k] # Nothing}), manual,
           GivenAreCounted, HeldAreCounted, Next
    PROVE  HeldAreCounted'
<1> SUFFICES ASSUME NEW s \in Streams, NEW e \in Events, e \notin dropped', ~ended'[s], e \in held'[s]
             PROVE  copies'[s][e] + Occ(down'[s], EventFrame(e)) > Cardinality(Settling(s, e)')
  BY DEF HeldAreCounted, EventFrame
<1> DEFINE P == Settling(s, e)
           D == Occ(down[s], EventFrame(e))
<1>1. ~ended[s] /\ e \notin dropped
  BY IdsMoves, DroppedGrows
<1>2. copies[s][e] \in Nat /\ D \in Nat /\ copies[s][e] >= Cardinality(Holding(s, e))
  <2>1. D \in Nat
    BY Occurs DEF TypesInv, ServerTypes
  <2>2. copies[s][e] >= Given(s, e)
    BY <1>1 DEF GivenAreCounted
  <2>3. /\ copies[s][e] \in Nat /\ Given(s, e) \in Nat /\ Given(s, e) >= Cardinality(Holding(s, e))
        /\ Cardinality(Holding(s, e)) \in Nat
    BY GivenCount, CallersCount
  <2> QED
    BY <2>1, <2>2, <2>3
<1>3. IsFiniteSet(P) /\ Cardinality(P) \in Nat /\ Cardinality(P) <= Cardinality(Holding(s, e))
  <2>1. P \in SUBSET Holding(s, e) /\ IsFiniteSet(Holding(s, e))
    BY <1>1, CallersCount
  <2> HIDE DEF P
  <2> QED
    BY <2>1, FS_Subset, FS_CardinalityType
<1>4. P' \in SUBSET P
  BY SettlingMoves
<1>5. Cardinality(Holding(s, e)) \in Nat
  BY CallersCount
<1>6. e \in held[s] => copies[s][e] + D > Cardinality(P)
  BY <1>1 DEF HeldAreCounted
<1> HIDE DEF P
<1>7. Cardinality(P') \in Nat /\ Cardinality(P') <= Cardinality(P)
  BY <1>3, <1>4, FS_Subset, FS_CardinalityType
<1>8. \/ D' = D
      \/ ServerSends(s, e) /\ D' = D + 1
      \/ ReadEvent /\ s = cur /\ Head(down[s]).ev = e /\ D' + 1 = D
  BY FramesMove DEF EventFrame
<1>9. D' \in Nat
  <2>1. down'[s] \in Seq(Frames)
    BY TypesStep DEF TypesInv, ServerTypes
  <2> QED
    BY <2>1, Occurs DEF EventFrame
<1>10. copies'[s][e] + D' > Cardinality(P')
  <2> HIDE DEF D
  <2>1. CASE ServerSends(s, e)
    <3>1. UNCHANGED copies
      BY <2>1 DEF ServerSends
    <3>2. D' = D + 1
      <4>1. ~ReadEvent
        <5>1. UNCHANGED run
          BY <2>1 DEF ServerSends
        <5> QED
          BY <5>1 DEF ReadEvent, NextFrame
      <4>2. D' # D
        <5>1. down'[s] = Append(down[s], EventFrame(e)) /\ EventFrame(e) \in Frames /\ down[s] \in Seq(Frames)
          BY <2>1 DEF TypesInv, ServerTypes, ServerSends, EventFrame, Frames, EventFrames
        <5>2. Occ(down'[s], EventFrame(e)) = D + 1
          BY <5>1, Occurs DEF D
        <5> QED
          BY <1>2, <5>2 DEF D, EventFrame
      <4> QED
        BY <1>8, <4>1, <4>2
    <3> QED
      BY <1>2, <1>3, <1>5, <1>7, <3>1, <3>2
  <2>2. CASE ~ServerSends(s, e)
    <3>1. copies[s][e] + D > Cardinality(P)
      BY <1>6, <2>2, HeldMoves
    <3>2. ASSUME ReadEvent, s = cur, Head(down[s]).ev = e PROVE copies'[s][e] = copies[s][e] + 1
      <4>1. PICK old \in SUBSET Events :
               /\ copies' = [copies EXCEPT ![cur] =
                                [f \in Events |-> (IF f \in old THEN 0 ELSE @[f])
                                                  + (IF f = Head(down[cur]).ev THEN 1 ELSE 0)]]
               /\ dropped' = dropped \cup old
        BY <3>2 DEF ReadEvent
      <4>2. copies \in [Streams -> [Events -> Nat]]
        BY DEF TypesInv, RunTypes
      <4> QED
        BY <3>2, <4>1, <4>2
    <3>3. CASE ReadEvent /\ s = cur /\ Head(down[s]).ev = e
      <4>1. D' = D \/ D' + 1 = D
        BY <1>8, <2>2
      <4>2. copies'[s][e] = copies[s][e] + 1
        BY <3>2, <3>3
      <4>3. \A c, d, d1, p, p1 \in Nat :
               c + d > p /\ p1 <= p /\ (d1 = d \/ d1 + 1 = d) => (c + 1) + d1 > p1
        OBVIOUS
      <4>4. copies[s][e] \in Nat /\ D \in Nat /\ D' \in Nat /\ Cardinality(P) \in Nat /\ Cardinality(P') \in Nat
        BY <1>2, <1>3, <1>7, <1>9
      <4>5. Cardinality(P') <= Cardinality(P)
        BY <1>7
      <4>6. (copies[s][e] + 1) + D' > Cardinality(P')
        BY <3>1, <4>1, <4>3, <4>4, <4>5, Zenon
      <4> QED
        BY <4>2, <4>6, Zenon
    <3>4. CASE D' = D /\ copies'[s][e] = copies[s][e]
      BY <1>2, <1>3, <1>7, <3>1, <3>4
    <3>5. ASSUME NEW k \in Callers, Answered(k), box[k] = "ok", via[k] = s, ev[k].ev = e, D' = D,
                 copies'[s][e] = IF copies[s][e] = 0 THEN 0 ELSE copies[s][e] - 1
          PROVE  copies'[s][e] + D' > Cardinality(P')
      <4>1. k \in P /\ k \notin P'
        <5>1. box' = [box EXCEPT ![k] = "none"] /\ waiting' = waiting \ {k}
          BY <3>5 DEF Answered, Return
        <5>2. box'[k] # "ok" /\ k \notin waiting'
          BY <5>1 DEF TypesInv, CallTypes
        <5> QED
          BY <3>5, <5>2 DEF P, Settling
      <4>2. P' \in SUBSET (P \ {k}) /\ IsFiniteSet(P \ {k}) /\ Cardinality(P \ {k}) = Cardinality(P) - 1
        BY <1>3, <1>4, <4>1, FS_RemoveElement
      <4>3. Cardinality(P') <= Cardinality(P) - 1
        BY <4>2, FS_Subset
      <4>4. Cardinality(P) # 0
        BY <1>3, <4>1, FS_EmptySet
      <4>5. copies'[s][e] = copies[s][e] - 1
        BY <1>2, <1>3, <1>5, <3>5, <4>4
      <4> QED
        BY <1>2, <1>3, <1>7, <3>1, <3>5, <4>3, <4>5
    <3> QED
      BY <1>8, <2>2, <3>3, <3>4, <3>5, CountMoves
  <2> QED
    BY <2>1, <2>2
<1> QED
  BY <1>10 DEF P, D, EventFrame

\* A manual subscription offers nothing itself: only ReadAuto has an event to offer.
LEMMA ManualStep ==
    ASSUME Next, manual, run # "offering"
    PROVE  run' # "offering"
<1>1. CASE UNCHANGED run
  BY <1>1
<1>2. CASE ServerSteps
  BY <1>1, <1>2 DEF ServerSteps, ServerSends, ServerAnswers, ServerEnds
<1>3. CASE \/ StreamJoined \/ Registered \/ OpenFails \/ Reconnect \/ ReadEvent \/ Signal \/ SkipMalformed
           \/ Offered \/ ReadResult \/ ReadEnds \/ Exit \/ Closed \/ PumpSteps
  BY <1>3 DEF StreamJoined, Registered, OpenFails, Reconnect, ReadEvent, Signal, SkipMalformed,
     Offered, ReadResult, ReadEnds, finish, Exit, Closed, PumpSteps, PumpScan, PumpOffers, PumpWakes
<1>4. CASE ReadAuto
  BY <1>4 DEF ReadAuto
<1>5. CASE Unsubscribe \/ HalfClose \/ ForceCancel \/ JoinCtxDone \/ IdleTimeout
  BY <1>1, <1>5 DEF Unsubscribe, HalfClose, ForceCancel, JoinCtxDone, IdleTimeout
<1>6. ASSUME NEW k \in Callers, CallerSteps(k) PROVE run' # "offering"
  BY <1>1, <1>6 DEF CallerSteps, Take, Abandon, Settle, Register, Send, SendFails, SendStuck,
     StuckReturns, Answered, TimesOut
<1> QED
  BY <1>2, <1>3, <1>4, <1>5, <1>6, StepKinds

\* The group's mode is chosen once.
LEMMA ModeStays ==
    ASSUME Next PROVE UNCHANGED manual
<1>1. CASE ServerSteps
  BY <1>1 DEF ServerSteps, ServerSends, ServerAnswers, ServerEnds
<1>2. CASE \/ StreamJoined \/ Registered \/ OpenFails \/ Reconnect \/ ReadEvent \/ Signal \/ SkipMalformed
           \/ ReadAuto \/ Offered \/ ReadResult \/ ReadEnds \/ Exit \/ Closed \/ PumpSteps
  BY <1>2 DEF StreamJoined, Registered, OpenFails, Reconnect, ReadEvent, Signal, SkipMalformed, ReadAuto,
     Offered, ReadResult, ReadEnds, Exit, Closed, PumpSteps, PumpScan, PumpOffers, PumpWakes
<1>3. CASE Unsubscribe \/ HalfClose \/ ForceCancel \/ JoinCtxDone \/ IdleTimeout
  BY <1>3 DEF Unsubscribe, HalfClose, ForceCancel, JoinCtxDone, IdleTimeout
<1>4. ASSUME NEW k \in Callers, CallerSteps(k) PROVE UNCHANGED manual
  BY <1>4 DEF CallerSteps, Take, Abandon, Settle, Register, Send, SendFails, SendStuck,
     StuckReturns, Answered, TimesOut
<1> QED
  BY <1>1, <1>2, <1>3, <1>4, StepKinds

\* At the start nothing was received and nothing is out.
LEMMA CopiesInit ==
    ASSUME Init PROVE CopiesInv
<1>1. GroupInv
  BY GroupInit
<1>2. {k \in Callers : ev[k] # Nothing} = {}
  BY DEF Init
<1>3. IsFiniteSet({k \in Callers : ev[k] # Nothing})
  BY <1>2, FS_EmptySet
<1>4. AcksAreOwn
  <2>1. \A s \in Streams : Elems(up[s]) = {} /\ Elems(down[s]) = {}
    BY DEF Init, Elems
  <2> QED
    BY <2>1 DEF Init, AcksAreOwn
<1>5. GivenAreCounted
  <2> SUFFICES ASSUME NEW s \in Streams, NEW e \in Events PROVE copies[s][e] >= Given(s, e)
    BY DEF GivenAreCounted
  <2>1. Holding(s, e) = {} /\ hand # Copy(s, e)
    BY GroupAssumption DEF Init, Holding, Copy, Nothing
  <2>2. Occ(queue, Copy(s, e)) = 0 /\ Occ(events, Copy(s, e)) = 0
    <3>1. queue = <<>> /\ events = <<>> /\ queue \in Seq(Items)
      BY DEF Init
    <3> QED
      BY <3>1, Occurs
  <2>3. Cardinality(Holding(s, e)) = 0
    BY <2>1, FS_EmptySet
  <2>4. copies[s][e] = 0
    BY DEF Init
  <2> QED
    BY <2>1, <2>2, <2>3, <2>4 DEF Given, InHand
<1>6. HeldAreCounted /\ run # "offering"
  BY DEF Init, HeldAreCounted
<1> QED
  BY <1>1, <1>3, <1>4, <1>5, <1>6 DEF CopiesInv

\* Every step keeps the count.
LEMMA CopiesStep ==
    ASSUME CopiesInv, [Next]_vars PROVE CopiesInv'
<1>1. GroupInv' /\ TypesInv /\ FreshIds /\ ResultsMatch
  BY GroupStep DEF CopiesInv, GroupInv
<1>2. CASE Next
  <2>1. IsFiniteSet({k \in Callers : ev[k] # Nothing}')
    BY <1>1, <1>2, HoldersStep DEF CopiesInv
  <2>2. AcksAreOwn'
    BY <1>1, <1>2, OwnStep DEF CopiesInv
  <2>3. ASSUME manual' PROVE run' # "offering" /\ GivenAreCounted' /\ HeldAreCounted'
    <3>1. manual /\ run # "offering"
      BY <1>2, <2>3, ModeStays DEF CopiesInv
    <3>2. run' # "offering"
      BY <1>2, <3>1, ManualStep
    <3>3. GivenAreCounted'
      BY <1>1, <1>2, <3>1, GivenStep DEF CopiesInv
    <3>4. HeldAreCounted'
      BY <1>1, <1>2, <3>1, HeldStep DEF CopiesInv
    <3> QED
      BY <3>2, <3>3, <3>4
  <2> QED
    BY <1>1, <2>1, <2>2, <2>3 DEF CopiesInv
<1>3. CASE UNCHANGED vars
  <2>1. UNCHANGED <<manual, held, up, down, run, ended, copies, hand, queue, events, ev, via, ack, box, waiting, dropped>>
    BY <1>3 DEF vars, server, conns, pumpVars, callVars, history
  <2>2. IsFiniteSet({k \in Callers : ev[k] # Nothing}')
    BY <2>1 DEF CopiesInv
  <2>3. AcksAreOwn'
    BY <2>1 DEF CopiesInv, AcksAreOwn, Own
  <2>4. GivenAreCounted => GivenAreCounted'
    BY <2>1 DEF GivenAreCounted, Given, InHand, Holding
  <2>5. HeldAreCounted => HeldAreCounted'
    BY <2>1 DEF HeldAreCounted, Settling, OkComes
  <2> QED
    BY <1>1, <2>1, <2>2, <2>3, <2>4, <2>5 DEF CopiesInv
<1> QED
  BY <1>2, <1>3

\* What is counted can be settled.
LEMMA CountedIsSettleable ==
    ASSUME CopiesInv PROVE CopiesCanBeSettled
<1> SUFFICES ASSUME manual, cur # 0, NEW e \in held[cur] \ dropped, ~ended[cur], ~(copies[cur][e] > 0)
             PROVE  \E i \in DOMAIN down[cur] : down[cur][i].type = "event" /\ down[cur][i].ev = e
  BY DEF CopiesCanBeSettled
<1>0. TypesInv
  BY DEF CopiesInv, GroupInv
<1>1. cur \in Streams
  BY <1>0, GroupAssumption DEF TypesInv, RunTypes, Streams
<1>2. e \in Events /\ down[cur] \in Seq(Frames) /\ copies[cur][e] \in Nat
  BY <1>0, <1>1 DEF TypesInv, ServerTypes, RunTypes
<1>3. copies[cur][e] + Occ(down[cur], EventFrame(e)) > Cardinality(Settling(cur, e))
  BY <1>1, <1>2 DEF CopiesInv, HeldAreCounted
<1>4. Cardinality(Settling(cur, e)) \in Nat
  <2>1. IsFiniteSet(Holding(cur, e)) /\ Settling(cur, e) \in SUBSET Holding(cur, e)
    BY <1>0, <1>1, <1>2, CallersCount DEF CopiesInv
  <2>2. IsFiniteSet(Settling(cur, e))
    BY <2>1, FS_Subset
  <2> QED
    BY <2>2, FS_CardinalityType
<1>5. Occ(down[cur], EventFrame(e)) # 0
  BY <1>2, <1>3, <1>4
<1>6. PICK i \in 1 .. Len(down[cur]) : down[cur][i] = EventFrame(e)
  BY <1>2, <1>5, Occurs
<1> QED
  BY <1>2, <1>6 DEF EventFrame

\* An event that is out on the current stream of a MANUAL group and has been read
\* has an entry in sc.delivery, for any number of callers, redeliveries and
\* results, in any order (delivered.copies, applyResult).
THEOREM CopiesSettleable == Spec => []CopiesCanBeSettled
<1>1. Init => CopiesInv
  BY CopiesInit
<1>2. CopiesInv /\ [Next]_vars => CopiesInv'
  BY CopiesStep
<1>3. CopiesInv => CopiesCanBeSettled
  BY CountedIsSettleable
<1> QED
  BY <1>1, <1>2, <1>3, PTL DEF Spec

=============================================================================
