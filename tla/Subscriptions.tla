---------------------------- MODULE Subscriptions ----------------------------
(***************************************************************************)
(* The WebSocket subscription client (subscribe.go): one client, its       *)
(* reader, the goroutine that reconnects it, the goroutines that call      *)
(* Subscribe and Unsubscribe, and Close.                                   *)
(*                                                                         *)
(* Every map of the client is keyed by the pattern and entries of two      *)
(* patterns never meet, so one pattern is modelled; what another one does  *)
(* to the connection (a subscriber that falls behind) is a dropped         *)
(* connection here.  A caller stands for its attempt and for the           *)
(* Subscription it gets.                                                   *)
(*                                                                         *)
(* The server is not part of the repository.  As the client uses it, it    *)
(* answers subscribe requests in order with a fresh ID or an error, sends  *)
(* the events after the requested cursor in order, and forgets the         *)
(* subscriptions of a connection that ends.                                *)
(***************************************************************************)
EXTENDS Naturals, Sequences, FiniteSets

CONSTANTS
    Callers,
    Modes,     \* the pairs <<config.AutoReconnect, StartAfterSequence is set>> to check
    LastSeq,   \* the log of the pattern: events 1..LastSeq
    Capacity,  \* the buffer of an Events channel
    MaxConns,  \* bound on connections
    MaxIds,    \* bound on the subscriptions the server accepts
    MaxFaults, \* bound on dropped connections, refusals and ended contexts
    MaxCloses, \* 1 if Close is called, else 0
    NoOne

ASSUME SubAssumption ==
    /\ Modes \subseteq BOOLEAN \X BOOLEAN
    /\ LastSeq \in Nat /\ Capacity \in Nat \ {0} /\ MaxConns \in Nat \ {0}
    /\ MaxIds \in Nat /\ MaxFaults \in Nat /\ MaxCloses \in 0..1 /\ NoOne \notin Callers

Ids == 1..MaxIds

VARIABLES
    auto,       \* config.AutoReconnect
    cursorOn,   \* the subscriptions have StartAfterSequence
    \* server and wire
    srv,        \* "free", "on" or "off" per ID
    pos,        \* the last event sent for the ID
    link,       \* the current connection: "none", "up" or "cut"
    up, down,   \* its requests and frames
    conns,      \* connections made
    \* client
    state,      \* c.state
    conn,       \* c.conn is not nil
    done,       \* c.done is closed
    closing,    \* where Close is
    retrying,   \* c.reconnectAttempt > 0
    dialer,     \* the goroutine that connects: scheduleReconnect or the caller of Connect
    restorer,   \* the same goroutine after it connected: what it has yet to restore
    pend,       \* c.pending: the caller whose attempt is in flight, or NoOne
    resub,      \* that attempt restores a subscription
    canceled,   \* that attempt was canceled
    subOf,      \* c.subscriptions: the subscription of an ID
    byPattern,  \* c.subByPattern: an ID, or 0
    \* reader
    rd, rdSub, rdMsg,
    \* callers and their subscriptions
    call, result, doneCh, open, chan, cursor, got, dropId,
    \* history
    raced,      \* a Subscribe had its attempt reserved, and its request not sent, while
                \* the connection was replaced and the attempts resent, or reserved it
                \* when the pattern had got a subscription since it was looked up; or an
                \* attempt was resent before Subscribe took the failure of its last resend
    panicked,   \* a send met a closed channel
    faults

wire == <<srv, pos, link, up, down, conns>>
client == <<state, conn, done, closing, retrying, dialer, restorer>>
attempt == <<pend, resub, canceled>>
maps == <<subOf, byPattern>>
reader == <<rd, rdSub, rdMsg>>
callVars == <<call, result, dropId>>
subVars == <<doneCh, open, chan, cursor, got>>
vars == <<auto, cursorOn, wire, client, attempt, maps, reader, callVars, subVars,
          raced, panicked, faults>>

NoMsg == [type |-> "none"]

Init ==
    /\ \E m \in Modes : auto = m[1] /\ cursorOn = m[2]
    /\ srv = [i \in Ids |-> "free"] /\ pos = [i \in Ids |-> 0]
    /\ link = "none" /\ up = <<>> /\ down = <<>> /\ conns = 0
    /\ state = "disconnected" /\ conn = FALSE /\ done = FALSE /\ closing = "no"
    /\ retrying = FALSE /\ dialer = "none" /\ restorer = "none"
    /\ pend = NoOne /\ resub = FALSE /\ canceled = FALSE
    /\ subOf = [i \in Ids |-> NoOne] /\ byPattern = 0
    /\ rd = "none" /\ rdSub = NoOne /\ rdMsg = NoMsg
    /\ call = [k \in Callers |-> "idle"] /\ result = [k \in Callers |-> NoMsg]
    /\ dropId = [k \in Callers |-> 0]
    /\ doneCh = [k \in Callers |-> FALSE] /\ open = [k \in Callers |-> FALSE]
    /\ chan = [k \in Callers |-> <<>>] /\ cursor = [k \in Callers |-> 0]
    /\ got = [k \in Callers |-> <<>>]
    /\ raced = FALSE /\ panicked = FALSE /\ faults = 0

Fault == faults < MaxFaults /\ faults' = faults + 1

\* sendJSON: on a connection that broke the frame may get lost without an error.
Write(f) ==
    /\ conn
    /\ up' = IF link = "up" THEN Append(up, f) ELSE up

WriteFails == ~conn \/ link = "cut"

\* A failed unsubscribe is ignored.
WriteUnsubscribe(i) ==
    \/ Write([type |-> "unsubscribe", id |-> i])
    \/ WriteFails /\ UNCHANGED up

\* completeSubscribeAttempt of the attempt in flight.
Complete == pend' = NoOne /\ resub' = FALSE /\ canceled' = FALSE

\* cancelSubscribeAttempt: the attempt stays in flight until its result comes.
Cancel(k) ==
    /\ canceled' = (canceled \/ (pend = k /\ ~resub))
    /\ UNCHANGED <<pend, resub>>
-----------------------------------------------------------------------------
(* The server and the connection.  Once the client is closed nothing reads *)
(* the frames any more, and they are left out.                             *)

ServerAnswers ==
    /\ link = "up" /\ ~done /\ up # <<>>
    /\ LET f == Head(up)
       IN  \/ /\ f.type = "subscribe"
              /\ \E i \in Ids :
                    /\ srv[i] = "free" /\ \A j \in 1..(i - 1) : srv[j] # "free"
                    /\ srv' = [srv EXCEPT ![i] = "on"]
                    /\ pos' = [pos EXCEPT ![i] = IF cursorOn THEN f.after ELSE 0]
                    /\ down' = Append(down, [type |-> "ok", id |-> i])
              /\ UNCHANGED faults
           \/ /\ f.type = "subscribe" /\ Fault
              /\ down' = Append(down, [type |-> "refused"])
              /\ UNCHANGED <<srv, pos>>
           \/ /\ f.type = "unsubscribe"
              /\ srv' = [srv EXCEPT ![f.id] = "off"]
              /\ pos' = [pos EXCEPT ![f.id] = 0]
              /\ UNCHANGED <<down, faults>>
    /\ up' = Tail(up)
    /\ UNCHANGED <<auto, cursorOn, link, conns, client, attempt, maps, reader, callVars,
                   subVars, raced, panicked>>

ServerEvent(i) ==
    /\ link = "up" /\ ~done /\ srv[i] = "on" /\ pos[i] < LastSeq
    /\ pos' = [pos EXCEPT ![i] = @ + 1]
    /\ down' = Append(down, [type |-> "event", id |-> i, seq |-> pos[i] + 1])
    /\ UNCHANGED <<auto, cursorOn, srv, link, up, conns, client, attempt, maps, reader,
                   callVars, subVars, raced, panicked, faults>>

\* An error of a subscription, or one of the connection, which every
\* subscription gets.
ServerError(i) ==
    /\ link = "up" /\ ~done /\ srv[i] = "on" /\ Fault
    /\ down' = Append(down, [type |-> "error", id |-> i])
    /\ UNCHANGED <<auto, cursorOn, srv, pos, link, up, conns, client, attempt, maps, reader,
                   callVars, subVars, raced, panicked>>

\* The connection is cut: the server forgets its subscriptions.
CutLink ==
    /\ link' = "cut" /\ up' = <<>>
    /\ srv' = [i \in Ids |-> IF srv[i] = "on" THEN "off" ELSE srv[i]]
    /\ pos' = [i \in Ids |-> 0]

ConnectionBreaks ==
    /\ link = "up" /\ Fault
    /\ CutLink
    /\ UNCHANGED <<auto, cursorOn, down, conns, client, attempt, maps, reader,
                   callVars, subVars, raced, panicked>>
-----------------------------------------------------------------------------
(* Connect, scheduleReconnect and what they restore. *)

\* The application connects: at the start, or after a loss nobody repairs.
Connect ==
    /\ state = "disconnected" /\ ~done /\ dialer = "none" /\ rd = "none"
    /\ state' = "connecting" /\ dialer' = "dialing"
    /\ UNCHANGED <<auto, cursorOn, wire, conn, done, closing, retrying, restorer, attempt,
                   maps, reader, callVars, subVars, raced, panicked, faults>>

\* scheduleReconnect: its delay passes, or Close ends it.
ScheduleReconnect ==
    /\ dialer = "scheduled"
    /\ IF done THEN dialer' = "none" /\ state' = "reconnecting"
               ELSE dialer' = "dialing" /\ state' = "connecting"
    /\ retrying' = TRUE
    /\ UNCHANGED <<auto, cursorOn, wire, conn, done, closing, restorer, attempt, maps,
                   reader, callVars, subVars, raced, panicked, faults>>

\* A subscription with a cursor, accepted or pending, reconnects by itself.
CursorSubscribed == cursorOn /\ \E i \in Ids : subOf[i] # NoOne
HasPendingCursorSubscription == cursorOn /\ pend # NoOne /\ ~resub /\ ~canceled

\* The dial failed: tried again as shouldReconnectSubscriptions says.
DialFails ==
    /\ dialer = "dialing" /\ Fault
    /\ state' = "disconnected"
    /\ dialer' = IF retrying /\ (auto \/ CursorSubscribed \/ HasPendingCursorSubscription)
               THEN "scheduled" ELSE "none"
    /\ UNCHANGED <<auto, cursorOn, wire, conn, done, closing, retrying, restorer, attempt,
                   maps, reader, callVars, subVars, raced, panicked>>

\* The connection is installed and the reader started.  An earlier Connect is through
\* with its restoring by then: the delay of scheduleReconnect is taken to be enough.
Connected ==
    /\ dialer = "dialing" /\ restorer = "none" /\ conns < MaxConns
    /\ conns' = conns + 1 /\ link' = "up" /\ up' = <<>> /\ down' = <<>>
    /\ conn' = TRUE /\ state' = "connected"
    /\ dialer' = "none"
    /\ restorer' = IF retrying THEN "restoring" ELSE "restoringOnly"
    /\ retrying' = FALSE
    /\ rd' = IF done THEN "none" ELSE "reading"
    /\ raced' = (raced \/ \E k \in Callers : call[k] = "reserved")
    /\ UNCHANGED <<auto, cursorOn, srv, pos, done, closing, attempt, maps, rdSub, rdMsg,
                   callVars, subVars, panicked, faults>>

AfterRestore == IF restorer = "restoring" THEN "resending" ELSE "none"

\* resubscribeAll: one of the subscriptions of the pattern, unless an attempt
\* is in flight.  Replay is left out, the cursor is kept.
Resubscribe ==
    /\ restorer \in {"restoring", "restoringOnly"}
    /\ \/ /\ (byPattern = 0 \/ pend # NoOne)
          /\ UNCHANGED <<up, attempt>>
       \/ /\ byPattern # 0 /\ pend = NoOne
          /\ \E i \in {n \in Ids : subOf[n] # NoOne} :
              \/ /\ Write([type |-> "subscribe", after |-> cursor[subOf[i]]])
                 /\ pend' = subOf[i] /\ resub' = TRUE /\ canceled' = FALSE
              \/ WriteFails /\ UNCHANGED <<up, attempt>>
    /\ restorer' = AfterRestore
    /\ UNCHANGED <<auto, cursorOn, srv, pos, link, down, conns, state, conn, done, closing,
                   retrying, dialer, maps, reader, callVars, subVars, raced, panicked, faults>>

\* resendPendingInitialSubscriptions: canceled attempts go, the others are sent
\* again; a send that fails is the result.
Resend ==
    /\ restorer = "resending"
    /\ \/ /\ pend = NoOne \/ resub
          /\ UNCHANGED <<up, attempt, result, raced>>
       \/ /\ pend # NoOne /\ ~resub /\ canceled
          /\ Complete /\ UNCHANGED <<up, result, raced>>
       \/ /\ pend # NoOne /\ ~resub /\ ~canceled
          /\ \/ /\ Write([type |-> "subscribe", after |-> cursor[pend]])
                /\ raced' = (raced \/ result[pend] # NoMsg)
                /\ UNCHANGED result
             \/ /\ WriteFails
                /\ result' = IF result[pend] = NoMsg
                             THEN [result EXCEPT ![pend] = [type |-> "refused"]] ELSE result
                /\ UNCHANGED <<up, raced>>
          /\ UNCHANGED attempt
    /\ restorer' = "none"
    /\ UNCHANGED <<auto, cursorOn, srv, pos, link, down, conns, state, conn, done, closing,
                   retrying, dialer, maps, reader, call, dropId, subVars, panicked, faults>>
-----------------------------------------------------------------------------
(* readMessages. *)

Idle == /\ rd' = "reading" /\ rdSub' = NoOne /\ rdMsg' = NoMsg

NextFrame(types) ==
    /\ rd = "reading" /\ ~done /\ conn /\ down # <<>> /\ Head(down).type \in types
    /\ down' = Tail(down)

\* Mutant: the ID a canceled attempt got is forgotten.
ReadResultLate_KeepsId ==
    /\ NextFrame({"ok", "refused"})
    /\ \/ pend = NoOne /\ UNCHANGED attempt
       \/ pend # NoOne /\ ~resub /\ canceled /\ Complete
    /\ UNCHANGED <<auto, cursorOn, srv, pos, link, up, conns, client, maps, reader, callVars,
                   subVars, raced, panicked, faults>>

\* handleSubscriptionResult without an attempt, or with a canceled one.
ReadResultLate ==
    /\ NextFrame({"ok", "refused"})
    /\ \/ pend = NoOne /\ UNCHANGED <<up, attempt>>
       \/ /\ pend # NoOne /\ ~resub /\ canceled /\ Complete
          /\ IF Head(down).type = "ok" THEN WriteUnsubscribe(Head(down).id) ELSE UNCHANGED up
    /\ UNCHANGED <<auto, cursorOn, srv, pos, link, conns, client, maps, reader, callVars,
                   subVars, raced, panicked, faults>>

\* Mutant: the reader goes on without waiting for Subscribe.
ReadResult_NoHandover ==
    /\ NextFrame({"ok", "refused"})
    /\ pend # NoOne /\ ~resub /\ ~canceled
    /\ result' = IF result[pend] = NoMsg THEN [result EXCEPT ![pend] = Head(down)] ELSE result
    /\ UNCHANGED <<auto, cursorOn, srv, pos, link, up, conns, client, attempt, maps, reader,
                   call, dropId, subVars, raced, panicked, faults>>

\* The result of a Subscribe: the reader hands it over and waits.
ReadResult ==
    /\ NextFrame({"ok", "refused"})
    /\ pend # NoOne /\ ~resub /\ ~canceled
    /\ result' = IF result[pend] = NoMsg THEN [result EXCEPT ![pend] = Head(down)] ELSE result
    /\ rd' = "handing" /\ rdSub' = pend /\ rdMsg' = Head(down)
    /\ UNCHANGED <<auto, cursorOn, srv, pos, link, up, conns, client, attempt, maps, call,
                   dropId, subVars, raced, panicked, faults>>

\* Subscribe has installed the ID or abandoned the attempt, or Close ran.
HandedOver ==
    /\ rd = "handing"
    /\ \/ (pend # rdSub \/ done) /\ UNCHANGED <<up, attempt>>
       \/ /\ pend = rdSub /\ canceled /\ Complete
          /\ IF rdMsg.type = "ok" THEN WriteUnsubscribe(rdMsg.id) ELSE UNCHANGED up
    /\ Idle
    /\ UNCHANGED <<auto, cursorOn, srv, pos, link, down, conns, client, maps, callVars,
                   subVars, raced, panicked, faults>>

\* The channels of a subscription are closed by whoever takes it off the maps.
CloseChannels(k) == open' = [open EXCEPT ![k] = FALSE]

\* Mutant: the ID of the connection before stays in the map.
Rebind_KeepsOld(new) ==
    /\ subOf' = [subOf EXCEPT ![new] = pend]
    /\ byPattern' = new

Rebind(new) ==
    /\ subOf' = [subOf EXCEPT ![byPattern] = NoOne, ![new] = pend]
    /\ byPattern' = new

\* The result of a resubscribe: the ID is rebound, or given back if the
\* subscription is gone; a refusal ends the subscription.
ReadRebind ==
    /\ NextFrame({"ok", "refused"}) /\ pend # NoOne /\ resub
    /\ LET mine == byPattern # 0 /\ subOf[byPattern] = pend
           new == Head(down).id
       IN  \/ /\ Head(down).type = "ok" /\ mine
              /\ Rebind(new)
              /\ UNCHANGED <<up, doneCh, open>>
           \/ /\ Head(down).type = "ok" /\ ~mine
              /\ WriteUnsubscribe(new)
              /\ UNCHANGED <<maps, doneCh, open>>
           \/ /\ Head(down).type = "refused" /\ mine
              /\ subOf' = [subOf EXCEPT ![byPattern] = NoOne]
              /\ byPattern' = 0
              /\ doneCh' = [doneCh EXCEPT ![pend] = TRUE]
              /\ CloseChannels(pend)
              /\ UNCHANGED up
           \/ /\ Head(down).type = "refused" /\ ~mine
              /\ UNCHANGED <<up, maps, doneCh, open>>
    /\ Complete
    /\ UNCHANGED <<auto, cursorOn, srv, pos, link, conns, client, reader, callVars, chan,
                   cursor, got, raced, panicked, faults>>

\* handleEvent up to sendMu: the subscription of the ID, if there is one.
ReadEvent ==
    /\ NextFrame({"event"})
    /\ LET k == subOf[Head(down).id]
       IN  IF k = NoOne THEN UNCHANGED reader
           ELSE rd' = "found" /\ rdSub' = k /\ rdMsg' = Head(down)
    /\ UNCHANGED <<auto, cursorOn, srv, pos, link, up, conns, client, attempt, maps,
                   callVars, subVars, raced, panicked, faults>>

\* sendMu is held from here to the end of the select.
LockChannel ==
    /\ rd = "found"
    /\ rd' = "sending"
    /\ UNCHANGED <<auto, cursorOn, wire, client, attempt, maps, rdSub, rdMsg, callVars,
                   subVars, raced, panicked, faults>>

\* There is room: the event is in the channel and the cursor follows it.
Deliver ==
    /\ rd = "sending" /\ open[rdSub] /\ Len(chan[rdSub]) < Capacity
    /\ chan' = [chan EXCEPT ![rdSub] = Append(@, rdMsg.seq)]
    /\ cursor' = IF cursorOn THEN [cursor EXCEPT ![rdSub] = rdMsg.seq] ELSE cursor
    /\ Idle
    /\ UNCHANGED <<auto, cursorOn, wire, client, attempt, maps, callVars, doneCh, open, got,
                   raced, panicked, faults>>

\* The event is not sent: the subscription or the client is done, or there is
\* no room and no cursor that would pass over it.
DropEvent ==
    /\ rd = "sending"
    /\ \/ doneCh[rdSub] \/ (cursorOn /\ done)
       \/ ~cursorOn /\ open[rdSub] /\ Len(chan[rdSub]) = Capacity
    /\ Idle
    /\ UNCHANGED <<auto, cursorOn, wire, client, attempt, maps, callVars, subVars, raced,
                   panicked, faults>>

\* The select may take the send case of a closed channel, which panics.
SendOnClosed ==
    /\ rd = "sending" /\ ~open[rdSub]
    /\ panicked' = TRUE
    /\ UNCHANGED <<auto, cursorOn, wire, client, attempt, maps, reader, callVars, subVars,
                   raced, faults>>

\* handleSubscriptionError and handleError up to their send: the subscription of
\* the ID, if there is one.
ReadError ==
    /\ NextFrame({"error"})
    /\ LET k == subOf[Head(down).id]
       IN  IF k = NoOne THEN UNCHANGED reader
           ELSE rd' = "erring" /\ rdSub' = k /\ rdMsg' = Head(down)
    /\ UNCHANGED <<auto, cursorOn, srv, pos, link, up, conns, client, attempt, maps,
                   callVars, subVars, raced, panicked, faults>>

\* The send on Errors(), under no lock: it is in the channel or dropped, and it
\* may panic if the channel was closed.
SendError ==
    /\ rd = "erring"
    /\ \/ (open[rdSub] \/ doneCh[rdSub]) /\ Idle /\ UNCHANGED panicked
       \/ ~open[rdSub] /\ panicked' = TRUE /\ UNCHANGED reader
    /\ UNCHANGED <<auto, cursorOn, wire, client, attempt, maps, callVars, subVars, raced,
                   faults>>

\* resumeDeliverTimeout: the read loop closes the connection (fellBehind).
FallBehind ==
    /\ rd = "sending" /\ cursorOn /\ open[rdSub] /\ Len(chan[rdSub]) = Capacity /\ Fault
    /\ CutLink /\ down' = <<>>
    /\ rd' = "losing" /\ rdSub' = NoOne /\ rdMsg' = NoMsg
    /\ UNCHANGED <<auto, cursorOn, conns, client, attempt, maps, callVars,
                   subVars, raced, panicked>>

\* What was not read is lost with the connection.
ReadFails ==
    /\ rd = "reading" /\ conn /\ link = "cut"
    /\ rd' = "losing" /\ down' = <<>>
    /\ UNCHANGED <<auto, cursorOn, srv, pos, link, up, conns, client, attempt, maps, rdSub,
                   rdMsg, callVars, subVars, raced, panicked, faults>>

\* The client was closed.
ReaderEnds ==
    /\ rd \in {"reading", "losing"} /\ (done \/ ~conn)
    /\ rd' = "none"
    /\ UNCHANGED <<auto, cursorOn, wire, client, attempt, maps, rdSub, rdMsg, callVars,
                   subVars, raced, panicked, faults>>

\* The connection is lost, and whether one of the subscriptions needs another is
\* seen, under c.mu.
Disconnected ==
    /\ rd = "losing" /\ ~done /\ conn
    /\ state' = "disconnected" /\ conn' = FALSE
    /\ rd' = IF auto \/ CursorSubscribed THEN "resuming" ELSE "lost"
    /\ UNCHANGED <<auto, cursorOn, wire, done, closing, retrying, dialer, restorer,
                   attempt, maps, rdSub, rdMsg, callVars, subVars, raced, panicked, faults>>

\* If not, the attempts are looked at, under pendingMu.
PendingAfterLoss ==
    /\ rd = "lost"
    /\ rd' = IF HasPendingCursorSubscription THEN "resuming" ELSE "failing"
    /\ UNCHANGED <<auto, cursorOn, wire, client, attempt, maps, rdSub, rdMsg, callVars,
                   subVars, raced, panicked, faults>>

\* discardPendingResubscribeAttempts: their results will never come.
Discard ==
    IF pend # NoOne /\ (resub \/ canceled) THEN Complete ELSE UNCHANGED attempt

\* The attempts in flight, under pendingMu again: a client that reconnects keeps the initial
\* ones, another one fails them (failPendingSubscribeAttempts).
AttemptsAfterLoss ==
    /\ \/ /\ rd = "resuming" /\ UNCHANGED result
          /\ dialer' = "scheduled"
       \/ /\ rd = "failing"
          /\ result' = IF pend # NoOne /\ ~resub /\ ~canceled /\ result[pend] = NoMsg
                       THEN [result EXCEPT ![pend] = [type |-> "refused"]] ELSE result
          /\ UNCHANGED dialer
    /\ Discard
    /\ rd' = "none"
    /\ UNCHANGED <<auto, cursorOn, wire, state, conn, done, closing, retrying, restorer,
                   maps, rdSub, rdMsg, call, dropId, subVars, raced, panicked, faults>>
-----------------------------------------------------------------------------
(* Subscribe. *)

Goto(k, place) == call' = [call EXCEPT ![k] = place]

Subscribe(k) ==
    /\ call[k] = "idle" /\ state = "connected"
    /\ Goto(k, IF byPattern # 0 THEN "returned" ELSE "reserving")
    /\ UNCHANGED <<auto, cursorOn, wire, client, attempt, maps, reader, result, dropId,
                   subVars, raced, panicked, faults>>

\* reserveSubscribeAttempt, first half of its loop: no active subscription.
CheckActive(k) ==
    /\ call[k] = "checking"
    /\ Goto(k, IF byPattern # 0 THEN "returned" ELSE "reserving")
    /\ UNCHANGED <<auto, cursorOn, wire, client, attempt, maps, reader, result, dropId,
                   subVars, raced, panicked, faults>>

\* Second half: the attempt is reserved, or another one is waited for.
Reserve(k) ==
    /\ call[k] = "reserving"
    /\ \/ /\ pend = NoOne
          /\ pend' = k /\ resub' = FALSE /\ canceled' = FALSE
          /\ raced' = (raced \/ restorer # "none" \/ byPattern # 0)
          /\ Goto(k, "reserved")
       \/ /\ pend # NoOne
          /\ Goto(k, "queued")
          /\ UNCHANGED <<attempt, raced>>
    /\ UNCHANGED <<auto, cursorOn, wire, client, maps, reader, result, dropId, subVars,
                   panicked, faults>>

\* The attempt waited for is over; or the context or the client is.
Unqueue(k) ==
    /\ call[k] = "queued"
    /\ \/ pend = NoOne /\ Goto(k, "checking") /\ UNCHANGED faults
       \/ done /\ Goto(k, "returned") /\ UNCHANGED faults
       \/ Fault /\ Goto(k, "returned")
    /\ UNCHANGED <<auto, cursorOn, wire, client, attempt, maps, reader, result, dropId,
                   subVars, raced, panicked>>

SendSubscribe(k) ==
    /\ call[k] = "reserved"
    /\ \/ /\ Write([type |-> "subscribe", after |-> 0])
          /\ Goto(k, "waiting") /\ UNCHANGED attempt
       \/ /\ WriteFails
          /\ Cancel(k)
          /\ Goto(k, "returned") /\ UNCHANGED up
    /\ UNCHANGED <<auto, cursorOn, srv, pos, link, down, conns, client, maps, reader,
                   result, dropId, subVars, raced, panicked, faults>>

\* The result: the subscription is put in the maps.
Install(k) ==
    /\ call[k] = "waiting" /\ result[k].type = "ok"
    /\ subOf' = [subOf EXCEPT ![result[k].id] = k]
    /\ byPattern' = result[k].id
    /\ open' = [open EXCEPT ![k] = TRUE]
    /\ Goto(k, "completing")
    /\ UNCHANGED <<auto, cursorOn, wire, client, attempt, reader, result, dropId, doneCh,
                   chan, cursor, got, raced, panicked, faults>>

Completed(k) ==
    /\ call[k] = "completing"
    /\ IF pend = k /\ ~resub THEN Complete ELSE UNCHANGED attempt
    /\ Goto(k, "subscribed")
    /\ result' = [result EXCEPT ![k] = NoMsg]
    /\ UNCHANGED <<auto, cursorOn, wire, client, maps, reader, dropId, subVars, raced,
                   panicked, faults>>

SubscribeFails(k) ==
    /\ call[k] = "waiting" /\ result[k].type = "refused"
    /\ IF pend = k /\ ~resub THEN Complete ELSE UNCHANGED attempt
    /\ Goto(k, "returned")
    /\ UNCHANGED <<auto, cursorOn, wire, client, maps, reader, result, dropId, subVars,
                   raced, panicked, faults>>

\* The context or the client is done.
GiveUp(k) ==
    /\ call[k] = "waiting"
    /\ \/ done /\ UNCHANGED faults
       \/ Fault
    /\ Cancel(k)
    /\ Goto(k, "returned")
    /\ UNCHANGED <<auto, cursorOn, wire, client, maps, reader, result, dropId, subVars,
                   raced, panicked>>
-----------------------------------------------------------------------------
(* The subscriber: it takes events (what it still takes after Close is left *)
(* out) and unsubscribes.                                                  *)

Consume(k) ==
    /\ chan[k] # <<>> /\ ~done
    /\ got' = IF cursorOn THEN [got EXCEPT ![k] = Append(@, Head(chan[k]))] ELSE got
    /\ chan' = [chan EXCEPT ![k] = Tail(@)]
    /\ UNCHANGED <<auto, cursorOn, wire, client, attempt, maps, reader, callVars, doneCh,
                   open, cursor, raced, panicked, faults>>

Unsubscribe(k) ==
    /\ call[k] = "subscribed"
    /\ IF doneCh[k] THEN Goto(k, "returned") /\ UNCHANGED doneCh
       ELSE Goto(k, "leaving") /\ doneCh' = [doneCh EXCEPT ![k] = TRUE]
    /\ UNCHANGED <<auto, cursorOn, wire, client, attempt, maps, reader, result, dropId,
                   open, chan, cursor, got, raced, panicked, faults>>

\* unsubscribeByPattern under c.mu, with sendMu for the channel: whatever
\* subscription the pattern has now.
RemoveByPattern(k) ==
    /\ call[k] = "leaving"
    /\ \/ /\ byPattern # 0 /\ subOf[byPattern] # NoOne
          /\ ~(rd = "sending" /\ rdSub = subOf[byPattern])
          /\ CloseChannels(subOf[byPattern])
          /\ subOf' = [subOf EXCEPT ![byPattern] = NoOne]
          /\ byPattern' = 0
          /\ dropId' = [dropId EXCEPT ![k] = byPattern]
          /\ Goto(k, IF conn THEN "dropping" ELSE "returned")
       \/ /\ byPattern = 0
          /\ Goto(k, "returned")
          /\ UNCHANGED <<open, maps, dropId>>
    /\ UNCHANGED <<auto, cursorOn, wire, client, attempt, reader, result, doneCh, chan,
                   cursor, got, raced, panicked, faults>>

SendUnsubscribe(k) ==
    /\ call[k] = "dropping"
    /\ WriteUnsubscribe(dropId[k])
    /\ dropId' = [dropId EXCEPT ![k] = 0]
    /\ Goto(k, "returned")
    /\ UNCHANGED <<auto, cursorOn, srv, pos, link, down, conns, client, attempt, maps,
                   reader, result, subVars, raced, panicked, faults>>
-----------------------------------------------------------------------------
(* Close. *)

Close ==
    /\ closing = "no" /\ MaxCloses = 1
    /\ done' = TRUE /\ closing' = "maps"
    /\ down' = <<>>
    /\ UNCHANGED <<auto, cursorOn, srv, pos, link, up, conns, state, conn, retrying,
                   dialer, restorer, attempt, maps,
                   reader, callVars, subVars, raced, panicked, faults>>

\* Under c.mu, with sendMu for each channel.
CloseMaps ==
    /\ closing = "maps"
    /\ ~(rd = "sending" /\ \E i \in Ids : subOf[i] = rdSub)
    /\ open' = [k \in Callers |-> open[k] /\ \A i \in Ids : subOf[i] # k]
    /\ subOf' = [i \in Ids |-> NoOne] /\ byPattern' = 0
    /\ conn' = FALSE /\ state' = "disconnected"
    /\ closing' = IF conn THEN "conn" ELSE "pending"
    /\ UNCHANGED <<auto, cursorOn, wire, done, retrying, dialer, restorer, attempt, reader, callVars,
                   doneCh, chan, cursor, got, raced, panicked, faults>>

\* The attempts in flight are forgotten and the connection is closed.
CloseConn ==
    /\ closing \in {"conn", "pending"}
    /\ Complete
    /\ IF closing = "conn" /\ link = "up" THEN CutLink ELSE UNCHANGED <<link, up, srv, pos>>
    /\ closing' = "closed"
    /\ UNCHANGED <<auto, cursorOn, down, conns, state, conn, done, retrying, dialer,
                   restorer, maps, reader, callVars, subVars, raced, panicked, faults>>
-----------------------------------------------------------------------------
ReaderSteps ==
    \/ ReadResultLate \/ ReadResult \/ HandedOver \/ ReadRebind \/ ReadEvent
    \/ LockChannel \/ Deliver \/ DropEvent \/ SendOnClosed \/ FallBehind
    \/ ReadError \/ SendError
    \/ ReadFails \/ ReaderEnds \/ Disconnected \/ PendingAfterLoss \/ AttemptsAfterLoss

DialerSteps == ScheduleReconnect \/ Connected \/ Resubscribe \/ Resend

CallSteps(k) ==
    \/ CheckActive(k) \/ Reserve(k) \/ Unqueue(k) \/ SendSubscribe(k)
    \/ Install(k) \/ Completed(k) \/ SubscribeFails(k)
    \/ RemoveByPattern(k) \/ SendUnsubscribe(k)

\* A panic ends the process.
Next ==
    /\ ~panicked
    /\ \/ ServerAnswers \/ \E i \in Ids : ServerEvent(i) \/ ServerError(i)
       \/ ConnectionBreaks \/ Connect \/ DialFails \/ DialerSteps \/ ReaderSteps
       \/ \E k \in Callers :
            \/ Subscribe(k) \/ CallSteps(k) \/ GiveUp(k) \/ Consume(k) \/ Unsubscribe(k)
       \/ Close \/ CloseMaps \/ CloseConn

Spec == Init /\ [][Next]_vars
-----------------------------------------------------------------------------
(* Properties. *)

\* What a subscriber with a cursor gets, now and after every reconnect, is the
\* log from its start, until it unsubscribes or the client is closed: no event is
\* left out and none comes twice (handleEvent, the handover in
\* handleSubscriptionResult, resubscribeAll).  Excepted is a Subscribe that meets
\* the restoring half of Connect (raced): it may be subscribed twice.
CursorHasNoGap ==
    cursorOn /\ ~raced /\ ~done =>
        \A k \in Callers : ~doneCh[k] => got[k] \o chan[k] = [i \in 1..cursor[k] |-> i]

\* Somebody knows the ID: the maps, its result on the way to them, or the
\* unsubscribe request on the way to the server.
Known(i) ==
    \/ subOf[i] # NoOne
    \/ \E n \in DOMAIN down : down[n].type = "ok" /\ down[n].id = i
    \/ \E n \in DOMAIN up : up[n].type = "unsubscribe" /\ up[n].id = i
    \/ rd = "handing" /\ rdMsg.type = "ok" /\ rdMsg.id = i
    \/ \E k \in Callers : call[k] = "dropping" /\ dropId[k] = i

\* The server has no subscription the client has lost sight of, although
\* results come late, attempts are canceled and connections are replaced.
\* Excepted are the races of raced: a reconnect resends, restores or fails an
\* attempt whose request has yet to be sent, two Subscribes of the pattern may
\* both pass the check for an active subscription, and Subscribe may take the
\* failure of one resend while the server accepts the next.
NoServerLeak ==
    ~raced /\ ~done /\ link = "up" => \A i \in Ids : srv[i] = "on" => Known(i)

\* Nothing is on the wire and neither the reader nor a reconnect has work to do.
Quiet ==
    /\ link = "up" /\ up = <<>> /\ down = <<>>
    /\ rd = "reading" /\ dialer = "none" /\ restorer = "none" /\ ~done

\* A subscription the client still has is on the server once things are quiet,
\* whatever attempt was in flight when the connection was replaced: it was
\* restored, or it was ended (resubscribeAll, discardPendingResubscribeAttempts).
SubscriptionsAreRestored ==
    Quiet /\ ~raced => \A i \in Ids : subOf[i] # NoOne => srv[i] = "on"

\* "A send never meets a closed channel" (Subscription.sendMu).
NoSendOnClosed == ~panicked
=============================================================================
