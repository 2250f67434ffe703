----------------------------- MODULE GroupStream -----------------------------
(***************************************************************************)
(* A consumer-group subscription over one SubscribeBidirectional stream    *)
(* (consumer_group_stream.go, consumer_group_stream_conn.go): the run      *)
(* goroutine that opens and reads streams, the pump that hands events to   *)
(* Events(), the goroutines of the application that receive and settle     *)
(* events, and the caller of Unsubscribe.                                  *)
(*                                                                         *)
(* The server is not part of the repository.  As this code uses it, it     *)
(* sends an event again while nobody has settled it, settles an event that *)
(* is out on the stream the ack comes from, and answers OK also to an ack  *)
(* of an event that is not out there (the "false OK" ErrStaleAck is for).  *)
(***************************************************************************)
EXTENDS Naturals, Sequences, FiniteSets

CONSTANTS
    Events,
    Callers,       \* goroutines of the application
    Capacity,      \* the buffer of the Events channel
    MaxStreams,    \* bound on the streams opened
    MaxDeliveries, \* bound on the event frames the server sends
    MaxAcks,       \* bound on the acks sent on one stream
    MaxFaults,     \* bound on errors, timeouts and lost answers
    NoEvent

ASSUME GroupAssumption ==
    /\ Capacity \in Nat \ {0} /\ MaxStreams \in Nat \ {0}
    /\ MaxDeliveries \in Nat /\ MaxAcks \in Nat /\ MaxFaults \in Nat
    /\ NoEvent \notin Events

Streams == 1..MaxStreams

VARIABLES
    manual,     \* the group's ack mode: sc.manual
    \* server
    member,     \* per stream: "none", "member" of the group, or "ended"
    held,       \* per stream: events out on it and not settled
    settled,    \* events that will not be sent again
    up, down,   \* per stream: acks and frames on their way
    sends,      \* event frames sent
    \* run goroutine
    run,        \* where it is
    opened,     \* streams the server has joined
    cur,        \* g.cur; 0 before the first
    ended,      \* sc.ended, endCh closed
    reset,      \* sc.reset was called
    halfClosed, \* CloseRequest was called on the stream
    copies,     \* sc.delivery: copies of each event not settled yet
    offer,      \* AUTO: the event that waits for room in Events
    reported,   \* an error went to Errors()
    exiting,    \* g.exiting: run will open no other stream
    \* pump
    pump, hand, queue, finished, wake, events,
    \* callers
    at, ev, via, ack, kind, box, waiting, nextAck,
    \* Unsubscribe and the contexts
    stop, gctx,
    \* history
    acked,      \* events for which Ack returned nil
    nakked,     \* events for which a Nak was sent
    dropped,    \* events that were pruned, malformed, or settled by an older copy
    faults

server == <<member, held, settled, up, down, sends>>
conns == <<opened, cur, ended, reset, halfClosed>>
pumpVars == <<pump, hand, queue, finished, wake>>
callVars == <<at, ev, via, ack, kind, box, waiting, nextAck>>
stopVars == <<stop, gctx>>
history == <<acked, nakked, dropped>>
vars == <<manual, server, run, conns, copies, offer, reported, exiting, pumpVars,
          events, callVars, stopVars, history, faults>>

Nothing == [ev |-> NoEvent, on |-> 0]

Init ==
    /\ manual \in BOOLEAN
    /\ member = [s \in Streams |-> "none"] /\ held = [s \in Streams |-> {}]
    /\ settled = {} /\ sends = 0
    /\ up = [s \in Streams |-> <<>>] /\ down = [s \in Streams |-> <<>>]
    /\ run = "opening" /\ opened = 0 /\ cur = 0
    /\ ended = [s \in Streams |-> FALSE] /\ reset = [s \in Streams |-> FALSE]
    /\ halfClosed = [s \in Streams |-> FALSE]
    /\ copies = [s \in Streams |-> [e \in Events |-> 0]]
    /\ offer = NoEvent /\ reported = FALSE /\ exiting = FALSE
    /\ pump = "scan" /\ hand = Nothing /\ queue = <<>> /\ finished = FALSE
    /\ wake = FALSE /\ events = <<>>
    /\ at = [k \in Callers |-> "idle"] /\ ev = [k \in Callers |-> Nothing]
    /\ via = [k \in Callers |-> 0] /\ ack = [k \in Callers |-> 0]
    /\ kind = [k \in Callers |-> "ack"] /\ box = [k \in Callers |-> "none"]
    /\ waiting = {} /\ nextAck = [s \in Streams |-> 0]
    /\ stop = "no" /\ gctx = FALSE
    /\ acked = {} /\ nakked = {} /\ dropped = {} /\ faults = 0

Fault == faults < MaxFaults /\ faults' = faults + 1

stopped == stop # "no"

\* The context of the stream is done, or both of its halves were closed.
TornDown(s) == ended[s] \/ reset[s] \/ gctx

closed == stopped \/ exiting \/ gctx
-----------------------------------------------------------------------------
(* The server. *)

\* An event nobody has settled is sent, or sent again (a Nak, the ack wait, a
\* stream that ended).  An AUTO group settles it on handoff.  What is sent on a
\* stream that was torn down is never read.
ServerSends(s, e) ==
    /\ member[s] = "member" /\ ~TornDown(s) /\ e \notin settled /\ sends < MaxDeliveries
    /\ down' = [down EXCEPT ![s] = Append(@, [type |-> "event", ev |-> e])]
    /\ held' = [held EXCEPT ![s] = @ \cup {e}]
    /\ settled' = IF manual THEN settled ELSE settled \cup {e}
    /\ sends' = sends + 1
    /\ UNCHANGED <<manual, member, up, run, conns, copies, offer, reported, exiting,
                   pumpVars, events, callVars, stopVars, history, faults>>

\* The answer to the next ack: OK, also when the event is not out on this
\* stream, or an error that changes nothing.
ServerAnswers(s) ==
    /\ member[s] = "member" /\ up[s] # <<>>
    /\ LET a == Head(up[s])
           out == a.ev \in held[s]
       IN  \/ /\ down' = [down EXCEPT ![s] = Append(@, [type |-> "ok", by |-> a.by, id |-> a.id])]
              /\ held' = [held EXCEPT ![s] = @ \ {a.ev}]
              /\ settled' = IF out /\ a.kind = "ack" THEN settled \cup {a.ev} ELSE settled
              /\ UNCHANGED faults
           \/ /\ down' = [down EXCEPT ![s] = Append(@, [type |-> "rejected", by |-> a.by, id |-> a.id])]
              /\ Fault
              /\ UNCHANGED <<held, settled>>
    /\ up' = [up EXCEPT ![s] = Tail(@)]
    /\ UNCHANGED <<manual, member, sends, run, conns, copies, offer, reported, exiting,
                   pumpVars, events, callVars, stopVars, history>>

\* The server ends the stream: the client half-closed it or tore it down, the
\* group was deleted, or the server went away.
ServerEnds(s) ==
    /\ member[s] = "member"
    /\ \/ (halfClosed[s] \/ TornDown(s)) /\ UNCHANGED faults
       \/ Fault
    /\ member' = [member EXCEPT ![s] = "ended"]
    /\ held' = [held EXCEPT ![s] = {}]
    /\ up' = [up EXCEPT ![s] = <<>>]
    /\ UNCHANGED <<manual, settled, down, sends, run, conns, copies, offer, reported,
                   exiting, pumpVars, events, callVars, stopVars, history>>
-----------------------------------------------------------------------------
(* open and the reconnect loop of run. *)

\* The server has joined the stream of open.
StreamJoined ==
    /\ run = "opening" /\ opened < MaxStreams /\ ~gctx
    /\ opened' = opened + 1
    /\ member' = [member EXCEPT ![opened + 1] = "member"]
    /\ run' = "joined"
    /\ UNCHANGED <<manual, held, settled, up, down, sends, cur, ended, reset, halfClosed,
                   copies, offer, reported, exiting, pumpVars, events, callVars, stopVars,
                   history, faults>>

\* Mutant: no look at stopCh under g.mu.
Registered_Always ==
    /\ run = "joined"
    /\ cur' = opened /\ run' = "reading" /\ UNCHANGED ended
    /\ UNCHANGED <<manual, server, opened, reset, halfClosed, copies, offer, reported,
                   exiting, pumpVars, events, callVars, stopVars, history, faults>>

\* The end of open, under g.mu: refused after Unsubscribe.
Registered ==
    /\ run = "joined"
    /\ IF stopped
       THEN /\ ended' = [ended EXCEPT ![opened] = TRUE]
            /\ run' = "exit" /\ UNCHANGED cur
       ELSE cur' = opened /\ run' = "reading" /\ UNCHANGED ended
    /\ UNCHANGED <<manual, server, opened, reset, halfClosed, copies, offer, reported,
                   exiting, pumpVars, events, callVars, stopVars, history, faults>>

\* Joining failed: the first time the caller gets the error, later a terminal
\* error ends the subscription and any other waits for the next try.
OpenFails ==
    /\ run = "opening"
    /\ \/ gctx /\ UNCHANGED faults
       \/ Fault
    /\ \/ run' = "failed" /\ cur = 0 /\ UNCHANGED reported
       \/ run' = "exit" /\ cur # 0 /\ (gctx \/ stopped) /\ UNCHANGED reported
       \/ run' = "exit" /\ cur # 0 /\ ~gctx /\ ~stopped /\ reported' = TRUE
       \/ run' = "waiting" /\ cur # 0 /\ ~gctx /\ ~stopped /\ UNCHANGED reported
    /\ UNCHANGED <<manual, server, conns, copies, offer, exiting, pumpVars, events,
                   callVars, stopVars, history>>

\* The reconnect delay: it passes, or Unsubscribe or the context ends it.
Reconnect ==
    /\ run = "waiting"
    /\ \/ run' = "opening" /\ opened < MaxStreams
       \/ run' = "exit" /\ (gctx \/ stopped)
    /\ UNCHANGED <<manual, server, conns, copies, offer, reported, exiting, pumpVars,
                   events, callVars, stopVars, history, faults>>
-----------------------------------------------------------------------------
(* read: one frame, or the end of the stream. *)

NextFrame(type) ==
    /\ run = "reading" /\ down[cur] # <<>> /\ Head(down[cur]).type = type
    /\ down' = [down EXCEPT ![cur] = Tail(@)]

\* markDelivered and the append of push.  After deliveryMaxAge old entries are
\* pruned first.
ReadEvent ==
    /\ NextFrame("event") /\ manual
    /\ LET e == Head(down[cur]).ev
           known == {f \in Events : copies[cur][f] > 0}
       IN  \E old \in SUBSET known :
            /\ \/ old = {} /\ UNCHANGED faults
               \/ old # {} /\ Fault
            /\ copies' = [copies EXCEPT ![cur] =
                            [f \in Events |-> (IF f \in old THEN 0 ELSE @[f])
                                              + (IF f = e THEN 1 ELSE 0)]]
            /\ dropped' = dropped \cup old
            /\ queue' = Append(queue, [ev |-> e, on |-> cur])
    /\ run' = "signalling"
    /\ UNCHANGED <<manual, member, held, settled, up, sends, conns, offer, reported, exiting,
                   pump, hand, finished, wake, events, callVars, stopVars, acked, nakked>>

\* g.signal after push.
Signal ==
    /\ run = "signalling"
    /\ wake' = TRUE /\ run' = "reading"
    /\ UNCHANGED <<manual, server, conns, copies, offer, reported, exiting, pump, hand,
                   queue, finished, events, callVars, stopVars, history, faults>>

\* An event whose payload cannot be converted is skipped.
SkipMalformed ==
    /\ NextFrame("event") /\ Fault
    /\ dropped' = dropped \cup {Head(down[cur]).ev}
    /\ UNCHANGED <<manual, member, held, settled, up, sends, run, conns, copies, offer,
                   reported, exiting, pumpVars, events, callVars, stopVars, acked, nakked>>

\* AUTO: the reader itself waits for room in Events.
ReadAuto ==
    /\ NextFrame("event") /\ ~manual
    /\ offer' = Head(down[cur]).ev /\ run' = "offering"
    /\ UNCHANGED <<manual, member, held, settled, up, sends, conns, copies, reported,
                   exiting, pumpVars, events, callVars, stopVars, history, faults>>

Offered ==
    /\ run = "offering" /\ Len(events) < Capacity
    /\ events' = Append(events, [ev |-> offer, on |-> cur])
    /\ offer' = NoEvent /\ run' = "reading"
    /\ UNCHANGED <<manual, server, conns, copies, reported, exiting, pumpVars, callVars,
                   stopVars, history, faults>>

\* resolve: a result nobody waits for any more is ignored.
ReadResult ==
    /\ NextFrame("ok") \/ NextFrame("rejected")
    /\ LET r == Head(down[cur])
           live == r.by \in waiting /\ via[r.by] = cur /\ ack[r.by] = r.id
       IN  /\ box' = IF live THEN [box EXCEPT ![r.by] = r.type] ELSE box
           /\ waiting' = IF live THEN waiting \ {r.by} ELSE waiting
    /\ UNCHANGED <<manual, member, held, settled, up, sends, run, conns, copies, offer,
                   reported, exiting, pumpVars, events, at, ev, via, ack, kind, nextAck,
                   stopVars, history, faults>>

\* finish: the stream is marked ended and every pending ack is answered.
finish(s) ==
    LET failed == {k \in waiting : via[k] = s}
    IN  /\ ended' = [ended EXCEPT ![s] = TRUE]
        /\ box' = [k \in Callers |-> IF k \in failed THEN "ended" ELSE box[k]]
        /\ waiting' = waiting \ failed

\* read returns: a clean end, a reset or another error that may be retried, a
\* terminal error, Unsubscribe or the context.  Then run decides.  The delivered
\* set and the frames die with the stream: nothing reads them afterwards.
ReadEnds ==
    /\ run \in {"reading", "offering"}
    /\ \/ /\ \/ run = "reading" /\ member[cur] = "ended" /\ down[cur] = <<>>
             \/ run = "reading" /\ TornDown(cur)
             \/ run = "offering" /\ (stopped \/ gctx)
          /\ run' = IF gctx \/ stopped THEN "exit" ELSE "waiting"
          /\ UNCHANGED <<reported, faults>>
       \/ /\ run = "reading" /\ Fault
          /\ \/ run' = IF gctx \/ stopped THEN "exit" ELSE "waiting"
             \/ run' = "exit" /\ ~gctx /\ ~stopped
          /\ reported' = (reported \/ (run' = "exit" /\ ~gctx /\ ~stopped))
    /\ finish(cur)
    /\ offer' = NoEvent
    /\ copies' = [copies EXCEPT ![cur] = [e \in Events |-> 0]]
    /\ down' = [down EXCEPT ![cur] = <<>>]
    /\ reset' = [reset EXCEPT ![cur] = FALSE]
    /\ nextAck' = [nextAck EXCEPT ![cur] = 0]
    /\ UNCHANGED <<manual, member, held, settled, up, sends, opened, cur, halfClosed,
                   exiting, pumpVars, events, at, ev, via, ack, kind, stopVars, history>>

\* No frame within groupStreamIdleTimeout: the connection is taken for dead.
IdleTimeout ==
    /\ run = "reading" /\ ~reset[cur] /\ Fault
    /\ reset' = [reset EXCEPT ![cur] = TRUE]
    /\ UNCHANGED <<manual, server, run, opened, cur, ended, halfClosed, copies, offer,
                   reported, exiting, pumpVars, events, callVars, stopVars, history>>

\* Mutant: the pump is not woken for finished.
Exit_NoSignal ==
    /\ run = "exit"
    /\ reported' = (reported \/ (gctx /\ ~stopped))
    /\ exiting' = TRUE /\ finished' = TRUE /\ run' = "closing"
    /\ UNCHANGED <<manual, server, conns, copies, offer, pump, hand, queue, wake, events,
                   callVars, stopVars, history, faults>>

\* The deferred end of run, up to its wait for the pump.
Exit ==
    /\ run = "exit"
    /\ reported' = (reported \/ (gctx /\ ~stopped))
    /\ exiting' = TRUE /\ finished' = TRUE /\ wake' = TRUE /\ run' = "closing"
    /\ UNCHANGED <<manual, server, conns, copies, offer, pump, hand, queue, events,
                   callVars, stopVars, history, faults>>

\* The pump has ended: the context is cancelled and the channels are closed.
Closed ==
    /\ run = "closing" /\ pump = "done"
    /\ gctx' = TRUE /\ run' = "done"
    /\ UNCHANGED <<manual, server, conns, copies, offer, reported, exiting, pumpVars,
                   events, callVars, stop, history, faults>>
-----------------------------------------------------------------------------
(* pump: queued MANUAL events go to Events. *)

\* One look at the queue: an event of an ended stream is dropped.
PumpScan ==
    /\ pump = "scan" /\ cur # 0
    /\ \/ /\ queue # <<>>
          /\ hand' = IF ended[Head(queue).on] THEN Nothing ELSE Head(queue)
          /\ pump' = IF ended[Head(queue).on] THEN "scan" ELSE "offering"
          /\ queue' = Tail(queue)
       \/ /\ queue = <<>>
          /\ pump' = IF finished THEN "done" ELSE "asleep"
          /\ UNCHANGED <<hand, queue>>
    /\ UNCHANGED <<manual, server, run, conns, copies, offer, reported, exiting, finished,
                   wake, events, callVars, stopVars, history, faults>>

\* The select of an event: room in Events, the end of its stream, or the end.
PumpOffers ==
    /\ pump = "offering"
    /\ \/ /\ Len(events) < Capacity
          /\ events' = Append(events, hand) /\ pump' = "scan"
       \/ ended[hand.on] /\ pump' = "scan" /\ UNCHANGED events
       \/ (stopped \/ gctx) /\ pump' = "done" /\ UNCHANGED events
    /\ hand' = Nothing
    /\ UNCHANGED <<manual, server, run, conns, copies, offer, reported, exiting, queue,
                   finished, wake, callVars, stopVars, history, faults>>

\* The select of an empty queue.
PumpWakes ==
    /\ pump = "asleep"
    /\ \/ wake /\ wake' = FALSE /\ pump' = "scan"
       \/ (stopped \/ gctx) /\ pump' = "done" /\ UNCHANGED wake
    /\ UNCHANGED <<manual, server, run, conns, copies, offer, reported, exiting, hand,
                   queue, finished, events, callVars, stopVars, history, faults>>
-----------------------------------------------------------------------------
(* The application: it receives events and settles or drops them. *)

\* The call of settle of k is over with nothing left behind.
Return(k, place) ==
    /\ at' = [at EXCEPT ![k] = place]
    /\ box' = [box EXCEPT ![k] = "none"]
    /\ waiting' = waiting \ {k}
    /\ ev' = IF place = "idle" THEN [ev EXCEPT ![k] = Nothing] ELSE ev
    /\ via' = [via EXCEPT ![k] = 0] /\ ack' = [ack EXCEPT ![k] = 0]
    /\ kind' = [kind EXCEPT ![k] = "ack"]

Take(k) ==
    /\ at[k] = "idle" /\ events # <<>>
    /\ ev' = [ev EXCEPT ![k] = Head(events)]
    /\ events' = Tail(events)
    /\ at' = [at EXCEPT ![k] = "holding"]
    /\ UNCHANGED <<manual, server, run, conns, copies, offer, reported, exiting, pumpVars,
                   via, ack, kind, box, waiting, nextAck, stopVars, history, faults>>

\* The application gives up on its copy.
Abandon(k) ==
    /\ at[k] = "holding"
    /\ Return(k, "idle")
    /\ UNCHANGED <<manual, server, run, conns, copies, offer, reported, exiting, pumpVars,
                   events, nextAck, stopVars, history, faults>>

\* groupStream.settle: Ack and Term ("ack") or Nak of the event, on the stream
\* that is current now.  AUTO settles nothing and returns nil.
Settle(k, how) ==
    /\ at[k] = "holding" /\ ~closed
    /\ IF manual
       THEN /\ via' = [via EXCEPT ![k] = cur]
            /\ kind' = [kind EXCEPT ![k] = how]
            /\ at' = [at EXCEPT ![k] = "entered"]
            /\ UNCHANGED <<ev, ack, box, waiting>>
       ELSE Return(k, "idle")
    /\ UNCHANGED <<manual, server, run, conns, copies, offer, reported, exiting, pumpVars,
                   events, nextAck, stopVars, history, faults>>

\* Mutant: acks of events that are not pending are sent.
Register_Unpending(k) ==
    /\ at[k] = "entered"
    /\ IF ended[via[k]]
       THEN Return(k, "holding") /\ UNCHANGED nextAck
       ELSE /\ nextAck[via[k]] < MaxAcks
            /\ nextAck' = [nextAck EXCEPT ![via[k]] = @ + 1]
            /\ ack' = [ack EXCEPT ![k] = nextAck[via[k]] + 1]
            /\ waiting' = waiting \cup {k}
            /\ at' = [at EXCEPT ![k] = "sending"]
            /\ UNCHANGED <<ev, via, kind, box>>
    /\ UNCHANGED <<manual, server, run, conns, copies, offer, reported, exiting, pumpVars,
                   events, stopVars, history, faults>>

\* The head of streamConn.settle, under sc.mu: ErrStaleAck, or an ack id.
Register(k) ==
    /\ at[k] = "entered"
    /\ IF ended[via[k]] \/ copies[via[k]][ev[k].ev] = 0
       THEN Return(k, "holding") /\ UNCHANGED nextAck
       ELSE /\ nextAck[via[k]] < MaxAcks
            /\ nextAck' = [nextAck EXCEPT ![via[k]] = @ + 1]
            /\ ack' = [ack EXCEPT ![k] = nextAck[via[k]] + 1]
            /\ waiting' = waiting \cup {k}
            /\ at' = [at EXCEPT ![k] = "sending"]
            /\ UNCHANGED <<ev, via, kind, box>>
    /\ UNCHANGED <<manual, server, run, conns, copies, offer, reported, exiting, pumpVars,
                   events, stopVars, history, faults>>

\* The stream takes no more frames: it is gone, or Unsubscribe half-closed it.
Unsendable(s) == TornDown(s) \/ halfClosed[s] \/ member[s] = "ended"

\* The ack is on the wire.
OnWire(k) ==
    /\ ~Unsendable(via[k])
    /\ up' = [up EXCEPT ![via[k]] =
                Append(@, [by |-> k, id |-> ack[k], ev |-> ev[k].ev, kind |-> kind[k]])]
    /\ nakked' = IF kind[k] = "nak" THEN nakked \cup {ev[k].ev} ELSE nakked
    /\ dropped' = IF ev[k].on # via[k] THEN dropped \cup {ev[k].ev} ELSE dropped

\* Send, with sendMu held.
Send(k) ==
    /\ at[k] = "sending" /\ OnWire(k)
    /\ at' = [at EXCEPT ![k] = "sent"]
    /\ UNCHANGED <<manual, member, held, settled, down, sends, run, conns, copies, offer,
                   reported, exiting, pumpVars, events, ev, via, ack, kind, box, waiting,
                   nextAck, stopVars, acked, faults>>

SendFails(k) ==
    /\ at[k] = "sending" /\ Unsendable(via[k])
    /\ Return(k, "holding")
    /\ UNCHANGED <<manual, server, run, conns, copies, offer, reported, exiting, pumpVars,
                   events, nextAck, stopVars, history, faults>>

\* The timer of a send that is blocked tears the stream down.
SendStuck(k) ==
    /\ at[k] = "sending" /\ ~ended[via[k]] /\ Fault
    /\ reset' = [reset EXCEPT ![via[k]] = TRUE]
    /\ at' = [at EXCEPT ![k] = "stuck"]
    /\ UNCHANGED <<manual, server, run, opened, cur, ended, halfClosed, copies, offer,
                   reported, exiting, pumpVars, events, ev, via, ack, kind, box, waiting,
                   nextAck, stopVars, history>>

\* A stuck send returns: "not sent within", and nobody waits for a result.
StuckReturns(k) ==
    /\ at[k] = "stuck"
    /\ Return(k, "holding")
    /\ UNCHANGED <<manual, server, run, conns, copies, offer, reported, exiting, pumpVars,
                   events, nextAck, stopVars, history, faults>>

\* Mutant: the entry goes whatever its copies.
applyResult_DropsEntry(k) ==
    copies' = [copies EXCEPT ![via[k]][ev[k].ev] = 0]

\* applyResult: one copy is settled.
applyResult(k) ==
    copies' = [copies EXCEPT ![via[k]][ev[k].ev] = IF @ = 0 THEN 0 ELSE @ - 1]

\* The result arrived: nil for OK, an error for a rejection or an ended stream.
Answered(k) ==
    /\ at[k] = "sent" /\ box[k] # "none"
    /\ IF box[k] = "ok"
       THEN /\ applyResult(k)
            /\ acked' = IF kind[k] = "ack" THEN acked \cup {ev[k].ev} ELSE acked
            /\ Return(k, "idle")
       ELSE Return(k, "holding") /\ UNCHANGED <<copies, acked>>
    /\ UNCHANGED <<manual, server, run, conns, offer, reported, exiting, pumpVars, events,
                   nextAck, stopVars, nakked, dropped, faults>>

\* ackTimeout passed, perhaps with the result already there.
TimesOut(k) ==
    /\ at[k] = "sent" /\ Fault
    /\ Return(k, "holding")
    /\ UNCHANGED <<manual, server, run, conns, copies, offer, reported, exiting, pumpVars,
                   events, nextAck, stopVars, history>>
-----------------------------------------------------------------------------
(* Unsubscribe and the contexts. *)

Unsubscribe ==
    /\ stop = "no" /\ cur # 0
    /\ stop' = "stopping"
    /\ UNCHANGED <<manual, server, run, conns, copies, offer, reported, exiting, pumpVars,
                   events, callVars, gctx, history, faults>>

HalfClose ==
    /\ stop = "stopping"
    /\ halfClosed' = [halfClosed EXCEPT ![cur] = TRUE]
    /\ stop' = "returned"
    /\ UNCHANGED <<manual, server, run, opened, cur, ended, reset, copies, offer, reported,
                   exiting, pumpVars, events, callVars, gctx, history, faults>>

\* The server did not end the stream in two seconds.
ForceCancel ==
    /\ stop = "returned" /\ ~gctx
    /\ gctx' = TRUE
    /\ UNCHANGED <<manual, server, run, conns, copies, offer, reported, exiting, pumpVars,
                   events, callVars, stop, history, faults>>

\* The context the group was joined with is done.
JoinCtxDone ==
    /\ ~gctx /\ Fault
    /\ gctx' = TRUE
    /\ UNCHANGED <<manual, server, run, conns, copies, offer, reported, exiting, pumpVars,
                   events, callVars, stop, history>>
-----------------------------------------------------------------------------
RunSteps ==
    \/ StreamJoined \/ Registered \/ OpenFails \/ Reconnect
    \/ ReadEvent \/ Signal \/ SkipMalformed \/ ReadAuto \/ Offered \/ ReadResult
    \/ ReadEnds \/ Exit \/ Closed

PumpSteps == PumpScan \/ PumpOffers \/ PumpWakes

ServerSteps ==
    \E s \in Streams :
        \/ \E e \in Events : ServerSends(s, e)
        \/ ServerAnswers(s) \/ ServerEnds(s)

CallerSteps(k) ==
    \/ Take(k) \/ Abandon(k) \/ \E how \in {"ack", "nak"} : Settle(k, how)
    \/ Register(k) \/ Send(k) \/ SendFails(k) \/ SendStuck(k) \/ StuckReturns(k)
    \/ Answered(k) \/ TimesOut(k)

Next ==
    \/ RunSteps \/ PumpSteps \/ ServerSteps
    \/ \E k \in Callers : CallerSteps(k)
    \/ Unsubscribe \/ HalfClose \/ ForceCancel \/ JoinCtxDone \/ IdleTimeout

Spec == Init /\ [][Next]_vars

\* The goroutines of the subscription keep going, the timer of Unsubscribe
\* fires, and the server notices a stream that was torn down.
FairSpec ==
    /\ Spec
    /\ WF_vars(RunSteps) /\ WF_vars(PumpSteps)
    /\ WF_vars(HalfClose) /\ WF_vars(ForceCancel)
    /\ \A s \in Streams : WF_vars(ServerEnds(s) /\ TornDown(s))
-----------------------------------------------------------------------------
(* Properties. *)

\* An Ack or Term that returned nil has settled the event on the server: the
\* false OK for an event that is not out on this stream never reaches the
\* application, whatever streams end and results get lost, unless it also sent
\* a Nak of that event (ErrStaleAck, streamConn.settle).
AckedIsSettled == acked \ nakked \subseteq settled

\* The application can settle what it was given: an event that is out on the
\* current stream and has been read has an entry in sc.delivery, also when a
\* redelivery overtakes the result of the copy before it (delivered.copies).
\* Excepted are entries pruned by age and copies of an earlier stream that were
\* settled on this one.
CopiesCanBeSettled ==
    manual /\ cur # 0 =>
        \A e \in held[cur] \ dropped :
            \/ ended[cur] \/ copies[cur][e] > 0
            \/ \E i \in DOMAIN down[cur] : down[cur][i].type = "event" /\ down[cur][i].ev = e

\* No member of the group outlives Unsubscribe: when it has returned, the
\* current stream is half-closed or torn down, and one that joins later is
\* refused (open, unsubscribe).
NoMemberOutlives ==
    stop = "returned" => halfClosed[cur] \/ TornDown(cur)

\* Unsubscribe, a done context and a terminal error end the subscription: the
\* pump and the run goroutine stop, the server has no stream left, and an end
\* nobody asked for was reported on Errors().
SubscriptionEnds ==
    []<>(stopped \/ exiting => /\ run = "done" /\ (reported \/ stopped)
                              /\ \A s \in Streams : member[s] # "member")
=============================================================================
