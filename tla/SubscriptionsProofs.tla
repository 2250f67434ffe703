------------------------- MODULE SubscriptionsProofs -------------------------
(***************************************************************************)
(* What holds of the subscription client for any number of callers,        *)
(* connections, faults and events.                                         *)
(***************************************************************************)
EXTENDS Subscriptions, SequenceTheorems, TLAPS

Requests ==
    [type : {"subscribe"}, after : Nat] \cup [type : {"unsubscribe"}, id : Ids]

Results == [type : {"ok"}, id : Ids] \cup [type : {"refused"}]

Frames ==
    Results \cup [type : {"event"}, id : Ids, seq : Nat] \cup [type : {"error"}, id : Ids]

SomeCaller == Callers \cup {NoOne}

Places ==
    {"idle", "checking", "reserving", "queued", "reserved", "waiting", "completing",
     "subscribed", "leaving", "dropping", "returned"}

WireTypes ==
    /\ srv \in [Ids -> {"free", "on", "off"}] /\ pos \in [Ids -> Nat]
    /\ link \in {"none", "up", "cut"}
    /\ up \in Seq(Requests) /\ down \in Seq(Frames) /\ conns \in Nat

ClientTypes ==
    /\ state \in {"disconnected", "connecting", "connected", "reconnecting"}
    /\ conn \in BOOLEAN /\ done \in BOOLEAN /\ retrying \in BOOLEAN
    /\ closing \in {"no", "maps", "conn", "pending", "closed"}
    /\ dialer \in {"none", "scheduled", "dialing"}
    /\ restorer \in {"none", "restoring", "restoringOnly", "resending"}

FlagTypes ==
    /\ auto \in BOOLEAN /\ cursorOn \in BOOLEAN /\ raced \in BOOLEAN
    /\ panicked \in BOOLEAN

AttemptTypes ==
    /\ pend \in SomeCaller /\ resub \in BOOLEAN /\ canceled \in BOOLEAN
    /\ subOf \in [Ids -> SomeCaller] /\ byPattern \in 0..MaxIds

ReaderTypes ==
    /\ rd \in {"none", "reading", "handing", "found", "sending", "erring", "losing", "lost", "resuming", "failing"}
    /\ rdSub \in SomeCaller
    /\ rd = "handing" => rdMsg \in Results
    /\ rd \in {"found", "sending"} => rdMsg \in [type : {"event"}, id : Ids, seq : Nat]
    /\ rd \in {"handing", "found", "sending", "erring"} => rdSub \in Callers

CallTypes ==
    /\ call \in [Callers -> Places]
    /\ result \in [Callers -> Results \cup {NoMsg}]
    /\ dropId \in [Callers -> 0..MaxIds]
    /\ \A k \in Callers : call[k] = "dropping" => dropId[k] \in Ids

SubTypes ==
    /\ doneCh \in [Callers -> BOOLEAN] /\ open \in [Callers -> BOOLEAN]
    /\ chan \in [Callers -> Seq(Nat)] /\ got \in [Callers -> Seq(Nat)]
    /\ cursor \in [Callers -> Nat]

TypeOK ==
    WireTypes /\ ClientTypes /\ FlagTypes /\ AttemptTypes /\ ReaderTypes /\ CallTypes /\ SubTypes
    /\ faults \in Nat
-----------------------------------------------------------------------------
(* What is on the wire. *)

ReqIn(u) == \E n \in DOMAIN u : u[n].type = "subscribe"
OneReq(u) ==
    \A m, n \in DOMAIN u : u[m].type = "subscribe" /\ u[n].type = "subscribe" => m = n
AfterIs(u, c) == \A n \in DOMAIN u : u[n].type = "subscribe" => u[n].after = c
UnsubIn(u, i) == \E n \in DOMAIN u : u[n].type = "unsubscribe" /\ u[n].id = i

IsRes(f) == f.type \in {"ok", "refused"}
ResIn(d) == \E n \in DOMAIN d : IsRes(d[n])
OneRes(d) == \A m, n \in DOMAIN d : IsRes(d[m]) /\ IsRes(d[n]) => m = n
IsOk(f, i) == f.type = "ok" /\ f.id = i
OkIn(d, i) == \E n \in DOMAIN d : IsOk(d[n], i)
IsEvent(f, i) == f.type = "event" /\ f.id = i
EventIn(d, i) == \E n \in DOMAIN d : IsEvent(d[n], i)

\* The events of the ID are b + 1, b + 2, ... and follow the result that brought it.
InOrder(d, i, b) ==
    /\ \A n \in DOMAIN d : IsEvent(d[n], i) => d[n].seq > b
    /\ \A m, n \in DOMAIN d :
          IsEvent(d[m], i) /\ IsEvent(d[n], i) /\ m < n => d[m].seq < d[n].seq
    /\ \A n \in DOMAIN d : IsEvent(d[n], i) /\ d[n].seq > b + 1 =>
          \E m \in DOMAIN d : IsEvent(d[m], i) /\ m < n /\ d[m].seq = d[n].seq - 1
    /\ \A m, n \in DOMAIN d : IsOk(d[m], i) /\ IsEvent(d[n], i) => m < n

\* The last of them is p.
UpTo(d, i, b, p) ==
    /\ p >= b
    /\ \A n \in DOMAIN d : IsEvent(d[n], i) => d[n].seq <= p
    /\ p > b => \E n \in DOMAIN d : IsEvent(d[n], i) /\ d[n].seq = p
-----------------------------------------------------------------------------
(* The inductive invariant, while nothing raced and the client is open. *)

Outstanding == ReqIn(up) \/ ResIn(down)

Initial == pend # NoOne /\ ~resub

\* Where the reader is and what that says of the connection.
Phases ==
    /\ rd \notin {"none", "lost", "resuming", "failing"} => conn
    /\ rd \in {"none", "lost", "resuming", "failing"} => ~conn
    /\ dialer # "none" => rd = "none"
    /\ rd \in {"losing", "lost", "resuming", "failing", "none"} => down = <<>> /\ link # "up"
    /\ link # "up" => up = <<>> /\ \A i \in Ids : srv[i] # "on"

\* The attempt in flight and the caller it belongs to.
Attempts ==
    /\ \A k \in Callers :
          call[k] \in {"reserved", "waiting", "completing"}
              <=> pend = k /\ ~resub /\ ~canceled
    /\ pend = NoOne => ~resub /\ ~canceled
    /\ resub => ~canceled /\ rd # "none"

\* The maps have one subscription, and none while a first attempt is in flight.
OneEntry ==
    /\ \A i \in Ids : subOf[i] # NoOne <=> byPattern = i
    /\ Initial /\ call[pend] # "completing" => byPattern = 0
    /\ resub /\ byPattern # 0 => subOf[byPattern] = pend

\* A connection being restored has nothing on it yet.
Untouched ==
    restorer \in {"restoring", "restoringOnly"} =>
        /\ down = <<>> /\ ~ReqIn(up) /\ ~resub
        /\ \A i \in Ids : srv[i] # "on"
        /\ rd \notin {"handing", "found", "sending", "erring"}

\* At most one request or result is on the wire, the one of the attempt.
OneRequest ==
    /\ OneReq(up) /\ OneRes(down) /\ ~(ReqIn(up) /\ ResIn(down))
    /\ Outstanding =>
          /\ pend # NoOne
          /\ restorer = "resending" => resub
          /\ Initial /\ ~canceled => call[pend] = "waiting" /\ result[pend] = NoMsg
    /\ pend # NoOne => AfterIs(up, cursor[pend])

\* The reader and the Subscribe it hands a result to.
Handover ==
    /\ rd = "handing" =>
          /\ restorer = "none"
          /\ pend = rdSub =>
                /\ ~resub /\ ~Outstanding
                /\ ~canceled => result[rdSub] = rdMsg
          /\ call[rdSub] \notin {"idle", "checking", "reserving", "queued", "reserved"}
    /\ \A k \in Callers :
          /\ call[k] = "waiting" /\ result[k].type = "ok" => rd = "handing" /\ rdSub = k
          /\ call[k] = "completing" => rd = "handing" /\ rdSub = k
          /\ call[k] = "reserved" =>
                restorer = "none" /\ (conn => result[k] = NoMsg)
          /\ call[k] \in {"idle", "checking", "reserving", "queued"} => result[k] = NoMsg

Handing(i) ==
    /\ rd = "handing" /\ pend = rdSub /\ call[rdSub] # "completing"
    /\ IsOk(rdMsg, i)

InFlight(i) == OkIn(down, i) \/ Handing(i)

Dropped(i) ==
    UnsubIn(up, i) \/ \E k \in Callers : call[k] = "dropping" /\ dropId[k] = i

\* An ID is accepted once, installed once and given back once.
IdsOnce ==
    \A i \in Ids :
        /\ srv[i] = "free" =>
              /\ subOf[i] = NoOne /\ ~InFlight(i) /\ ~Dropped(i) /\ ~EventIn(down, i)
              /\ rd = "handing" => ~IsOk(rdMsg, i)
        /\ InFlight(i) =>
              subOf[i] = NoOne /\ ~Dropped(i) /\ (link = "up" => srv[i] = "on")
        /\ subOf[i] # NoOne => ~Dropped(i)
        /\ link = "up" /\ srv[i] = "on" => subOf[i] # NoOne \/ InFlight(i) \/ Dropped(i)

\* What the maps hold is on the server or about to be restored.
Restorable ==
    \A i \in Ids : subOf[i] # NoOne =>
        /\ link = "up" =>
              \/ srv[i] = "on" \/ restorer \in {"restoring", "restoringOnly"}
              \/ resub /\ Outstanding
        /\ resub => srv[i] # "on" /\ ~EventIn(down, i)

Sending == rd \in {"found", "sending"}

Early == {"idle", "checking", "reserving", "queued", "reserved", "waiting"}

\* The last event the reader has taken for the caller.
Base(k) == IF Sending /\ rdSub = k THEN cursor[k] + 1 ELSE cursor[k]

Bound(i, k) == subOf[i] = k \/ (InFlight(i) /\ pend = k)

Cursors ==
    /\ \A k \in Callers : call[k] \in Early =>
          /\ cursor[k] = 0 /\ ~(Sending /\ rdSub = k)
          /\ \A i \in Ids : subOf[i] # k
    /\ Sending => rdSub # pend
    /\ cursorOn /\ Sending /\ ~doneCh[rdSub] => rdMsg.seq = cursor[rdSub] + 1

Streams ==
    cursorOn => \A i \in Ids, k \in Callers : Bound(i, k) /\ ~doneCh[k] =>
        /\ InOrder(down, i, Base(k))
        /\ srv[i] = "on" => UpTo(down, i, Base(k), pos[i])

NoGap ==
    cursorOn => \A k \in Callers : ~doneCh[k] =>
        got[k] \o chan[k] = [i \in 1..cursor[k] |-> i]

Live ==
    Phases /\ Attempts /\ OneEntry /\ Untouched /\ OneRequest /\ Handover /\ IdsOnce
    /\ Restorable /\ Cursors /\ Streams /\ NoGap

SubscriptionInvariant == TypeOK /\ (done = (closing # "no")) /\ (~raced /\ ~done => Live)

-----------------------------------------------------------------------------
(* Sending and receiving. *)

\* Nothing is on an empty wire.
LEMMA NothingSent ==
    ASSUME NEW i
    PROVE  /\ ~ReqIn(<<>>) /\ OneReq(<<>>) /\ (\A c : AfterIs(<<>>, c)) /\ ~UnsubIn(<<>>, i)
           /\ ~ResIn(<<>>) /\ OneRes(<<>>) /\ ~OkIn(<<>>, i) /\ ~EventIn(<<>>, i)
           /\ \A b \in Nat : InOrder(<<>>, i, b) /\ UpTo(<<>>, i, b, b)
BY DEF ReqIn, OneReq, AfterIs, UnsubIn, ResIn, OneRes, OkIn, EventIn, InOrder, UpTo

\* Without a request there is no second one, and none after a cursor.
LEMMA NoRequest == ASSUME NEW u, ~ReqIn(u) PROVE OneReq(u) /\ \A c : AfterIs(u, c)
BY DEF ReqIn, OneReq, AfterIs

\* An accepted ID on the wire is a result on the wire.
LEMMA OkIsResult == ASSUME NEW d, NEW i, OkIn(d, i) PROVE ResIn(d)
BY DEF OkIn, ResIn, IsOk, IsRes

\* A request is sent.
LEMMA RequestSent ==
    ASSUME NEW u \in Seq(Requests), NEW f \in Requests
    PROVE  /\ Append(u, f) \in Seq(Requests)
           /\ ReqIn(Append(u, f)) <=> ReqIn(u) \/ f.type = "subscribe"
           /\ OneReq(u) /\ (f.type = "subscribe" => ~ReqIn(u)) => OneReq(Append(u, f))
           /\ \A c : AfterIs(u, c) /\ (f.type = "subscribe" => f.after = c) => AfterIs(Append(u, f), c)
           /\ \A i : UnsubIn(Append(u, f), i)
                         <=> UnsubIn(u, i) \/ (f.type = "unsubscribe" /\ f.id = i)
<1> DEFINE v == Append(u, f)
<1>1. /\ v \in Seq(Requests) /\ DOMAIN v = 1..(Len(u) + 1) /\ DOMAIN u = 1..Len(u)
      /\ Len(u) \in Nat /\ v[Len(u) + 1] = f /\ \A n \in DOMAIN u : v[n] = u[n]
  OBVIOUS
<1> HIDE DEF v
<1>2. DOMAIN v = DOMAIN u \cup {Len(u) + 1} /\ Len(u) + 1 \notin DOMAIN u
  BY <1>1
<1>3. ReqIn(v) <=> ReqIn(u) \/ f.type = "subscribe"
  BY <1>1, <1>2 DEF ReqIn
<1>4. OneReq(u) /\ (f.type = "subscribe" => ~ReqIn(u)) => OneReq(v)
  BY <1>1, <1>2 DEF ReqIn, OneReq
<1>5. ASSUME NEW c PROVE AfterIs(u, c) /\ (f.type = "subscribe" => f.after = c) => AfterIs(v, c)
  BY <1>1, <1>2 DEF AfterIs
<1>6. ASSUME NEW i PROVE UnsubIn(v, i) <=> UnsubIn(u, i) \/ (f.type = "unsubscribe" /\ f.id = i)
  BY <1>1, <1>2 DEF UnsubIn
<1> QED
  BY <1>1, <1>3, <1>4, <1>5, <1>6 DEF v

\* The server takes a request.
LEMMA RequestTaken ==
    ASSUME NEW u \in Seq(Requests), u # <<>>
    PROVE  /\ Tail(u) \in Seq(Requests) /\ Head(u) \in Requests
           /\ ReqIn(u) <=> ReqIn(Tail(u)) \/ Head(u).type = "subscribe"
           /\ OneReq(u) => OneReq(Tail(u)) /\ (Head(u).type = "subscribe" => ~ReqIn(Tail(u)))
           /\ \A c : AfterIs(u, c) =>
                  AfterIs(Tail(u), c) /\ (Head(u).type = "subscribe" => Head(u).after = c)
           /\ \A i : UnsubIn(u, i)
                         <=> UnsubIn(Tail(u), i) \/ (Head(u).type = "unsubscribe" /\ Head(u).id = i)
<1> DEFINE v == Tail(u)
           f == Head(u)
<1>1. /\ v \in Seq(Requests) /\ f \in Requests /\ Len(u) \in Nat \ {0} /\ f = u[1]
      /\ DOMAIN v = 1..(Len(u) - 1) /\ DOMAIN u = 1..Len(u)
      /\ \A n \in DOMAIN v : v[n] = u[n + 1]
  OBVIOUS
<1> HIDE DEF v, f
<1>2. /\ \A n \in DOMAIN u : n = 1 \/ (n - 1 \in DOMAIN v /\ u[n] = v[n - 1])
      /\ \A n \in DOMAIN v : n + 1 \in DOMAIN u /\ n + 1 # 1 /\ n \in Nat
      /\ 1 \in DOMAIN u
  BY <1>1
<1>3. ReqIn(u) <=> ReqIn(v) \/ f.type = "subscribe"
  BY <1>1, <1>2 DEF ReqIn
<1>4. OneReq(u) => OneReq(v) /\ (f.type = "subscribe" => ~ReqIn(v))
  <2> SUFFICES ASSUME OneReq(u) PROVE OneReq(v) /\ (f.type = "subscribe" => ~ReqIn(v))
    OBVIOUS
  <2>1. OneReq(v)
    <3> SUFFICES ASSUME NEW m \in DOMAIN v, NEW n \in DOMAIN v,
                        v[m].type = "subscribe", v[n].type = "subscribe" PROVE m = n
      BY DEF OneReq
    <3>1. m + 1 = n + 1
      BY <1>1, <1>2 DEF OneReq
    <3> QED
      BY <3>1, <1>2
  <2>2. f.type = "subscribe" => ~ReqIn(v)
    BY <1>1, <1>2 DEF OneReq, ReqIn
  <2> QED
    BY <2>1, <2>2
<1>5. ASSUME NEW c PROVE AfterIs(u, c) => AfterIs(v, c) /\ (f.type = "subscribe" => f.after = c)
  BY <1>1, <1>2 DEF AfterIs
<1>6. ASSUME NEW i PROVE UnsubIn(u, i) <=> UnsubIn(v, i) \/ (f.type = "unsubscribe" /\ f.id = i)
  BY <1>1, <1>2 DEF UnsubIn
<1> QED
  BY <1>1, <1>3, <1>4, <1>5, <1>6 DEF v, f

\* The server sends a frame.
LEMMA FrameSent ==
    ASSUME NEW d \in Seq(Frames), NEW f \in Frames
    PROVE  /\ Append(d, f) \in Seq(Frames)
           /\ ResIn(Append(d, f)) <=> ResIn(d) \/ IsRes(f)
           /\ OneRes(d) /\ (IsRes(f) => ~ResIn(d)) => OneRes(Append(d, f))
           /\ \A i : OkIn(Append(d, f), i) <=> OkIn(d, i) \/ IsOk(f, i)
           /\ \A i : EventIn(Append(d, f), i) <=> EventIn(d, i) \/ IsEvent(f, i)
<1> DEFINE v == Append(d, f)
<1>1. /\ v \in Seq(Frames) /\ DOMAIN v = 1..(Len(d) + 1) /\ DOMAIN d = 1..Len(d)
      /\ Len(d) \in Nat /\ v[Len(d) + 1] = f /\ \A n \in DOMAIN d : v[n] = d[n]
  OBVIOUS
<1> HIDE DEF v
<1>2. DOMAIN v = DOMAIN d \cup {Len(d) + 1} /\ Len(d) + 1 \notin DOMAIN d
  BY <1>1
<1>3. ResIn(v) <=> ResIn(d) \/ IsRes(f)
  BY <1>1, <1>2 DEF ResIn
<1>4. OneRes(d) /\ (IsRes(f) => ~ResIn(d)) => OneRes(v)
  BY <1>1, <1>2 DEF ResIn, OneRes
<1>5. ASSUME NEW i PROVE OkIn(v, i) <=> OkIn(d, i) \/ IsOk(f, i)
  BY <1>1, <1>2 DEF OkIn
<1>6. ASSUME NEW i PROVE EventIn(v, i) <=> EventIn(d, i) \/ IsEvent(f, i)
  BY <1>1, <1>2 DEF EventIn
<1> QED
  BY <1>1, <1>3, <1>4, <1>5, <1>6 DEF v

\* What it does to the events of an ID.
LEMMA StreamSent ==
    ASSUME NEW d \in Seq(Frames), NEW f \in Frames, NEW i, NEW b \in Nat, InOrder(d, i, b)
    PROVE  /\ ~IsEvent(f, i) /\ (IsOk(f, i) => ~EventIn(d, i)) =>
                 /\ InOrder(Append(d, f), i, b)
                 /\ \A p \in Nat : UpTo(d, i, b, p) => UpTo(Append(d, f), i, b, p)
           /\ \A p \in Nat : UpTo(d, i, b, p) /\ IsEvent(f, i) /\ f.seq = p + 1 =>
                 InOrder(Append(d, f), i, b) /\ UpTo(Append(d, f), i, b, p + 1)
<1> DEFINE v == Append(d, f)
           l == Len(d) + 1
<1>1. /\ DOMAIN v = 1..l /\ DOMAIN d = 1..Len(d)
      /\ Len(d) \in Nat /\ v[l] = f /\ \A n \in DOMAIN d : v[n] = d[n]
      /\ \A n \in DOMAIN d : d[n] \in Frames
  OBVIOUS
<1>2. /\ DOMAIN v = DOMAIN d \cup {l} /\ l \notin DOMAIN d /\ ~(l < l)
      /\ \A n \in DOMAIN d : n < l /\ ~(l < n) /\ (IsEvent(d[n], i) => d[n].seq \in Nat)
  BY <1>1 DEF IsEvent, Frames, Results
<1>3. ASSUME ~IsEvent(f, i), IsOk(f, i) => ~EventIn(d, i)
      PROVE  InOrder(v, i, b)
  <2>0. \A n \in DOMAIN v : IsEvent(v[n], i) => n \in DOMAIN d /\ v[n] = d[n]
    BY <1>1, <1>2, <1>3
  <2>1. \A n \in DOMAIN v : IsEvent(v[n], i) => v[n].seq > b
    BY <2>0 DEF InOrder
  <2>2. \A m, n \in DOMAIN v :
          IsEvent(v[m], i) /\ IsEvent(v[n], i) /\ m < n => v[m].seq < v[n].seq
    BY <2>0 DEF InOrder
  <2>3. \A n \in DOMAIN v : IsEvent(v[n], i) /\ v[n].seq > b + 1 =>
          \E m \in DOMAIN v : IsEvent(v[m], i) /\ m < n /\ v[m].seq = v[n].seq - 1
    BY <2>0, <1>1, <1>2 DEF InOrder
  <2>4. \A m, n \in DOMAIN v : IsOk(v[m], i) /\ IsEvent(v[n], i) => m < n
    BY <2>0, <1>1, <1>2, <1>3 DEF InOrder, EventIn
  <2> HIDE DEF v
  <2> QED
    BY <2>1, <2>2, <2>3, <2>4 DEF InOrder
<1>4. ASSUME ~IsEvent(f, i), NEW p \in Nat, UpTo(d, i, b, p)
      PROVE  UpTo(v, i, b, p)
  <2>0. \A n \in DOMAIN v : IsEvent(v[n], i) => n \in DOMAIN d /\ v[n] = d[n]
    BY <1>1, <1>2, <1>4
  <2> QED
    BY <2>0, <1>1, <1>2, <1>4 DEF UpTo
<1>5. ASSUME NEW p \in Nat, UpTo(d, i, b, p), IsEvent(f, i), f.seq = p + 1
      PROVE  InOrder(v, i, b) /\ UpTo(v, i, b, p + 1)
  <2>1. \A n \in DOMAIN v : IsEvent(v[n], i) => v[n].seq > b /\ v[n].seq <= p + 1
    BY <1>1, <1>2, <1>5 DEF InOrder, UpTo
  <2>2. \A m, n \in DOMAIN v :
          IsEvent(v[m], i) /\ IsEvent(v[n], i) /\ m < n => v[m].seq < v[n].seq
    BY <1>1, <1>2, <1>5 DEF InOrder, UpTo
  <2>3. ASSUME NEW n \in DOMAIN v, IsEvent(v[n], i), v[n].seq > b + 1
        PROVE  \E m \in DOMAIN v : IsEvent(v[m], i) /\ m < n /\ v[m].seq = v[n].seq - 1
    <3>1. CASE n \in DOMAIN d
      <4>1. PICK m \in DOMAIN d : IsEvent(d[m], i) /\ m < n /\ d[m].seq = d[n].seq - 1
        BY <3>1, <2>3, <1>1 DEF InOrder
      <4> QED
        BY <4>1, <3>1, <1>1, <1>2
    <3>2. CASE n = l
      <4>1. p > b
        BY <3>2, <2>3, <1>1, <1>5
      <4>2. PICK m \in DOMAIN d : IsEvent(d[m], i) /\ d[m].seq = p
        BY <4>1, <1>5 DEF UpTo
      <4> QED
        BY <4>2, <3>2, <1>1, <1>2, <1>5
    <3> QED
      BY <3>1, <3>2, <1>2
  <2>4. \A m, n \in DOMAIN v : IsOk(v[m], i) /\ IsEvent(v[n], i) => m < n
    BY <1>1, <1>2, <1>5 DEF InOrder, IsOk, IsEvent
  <2>5. l \in DOMAIN v /\ v[l].seq = p + 1 /\ IsEvent(v[l], i) /\ p + 1 >= b
    BY <1>1, <1>2, <1>5 DEF UpTo
  <2> HIDE DEF v
  <2> QED
    BY <2>1, <2>2, <2>3, <2>4, <2>5 DEF InOrder, UpTo
<1> QED
  BY <1>3, <1>4, <1>5

\* The client takes a frame.
LEMMA FrameTaken ==
    ASSUME NEW d \in Seq(Frames), d # <<>>
    PROVE  /\ Tail(d) \in Seq(Frames) /\ Head(d) \in Frames
           /\ ResIn(d) <=> ResIn(Tail(d)) \/ IsRes(Head(d))
           /\ OneRes(d) => OneRes(Tail(d)) /\ (IsRes(Head(d)) => ~ResIn(Tail(d)))
           /\ \A i : OkIn(d, i) <=> OkIn(Tail(d), i) \/ IsOk(Head(d), i)
           /\ \A i : EventIn(d, i) <=> EventIn(Tail(d), i) \/ IsEvent(Head(d), i)
<1> DEFINE v == Tail(d)
           f == Head(d)
<1>1. /\ v \in Seq(Frames) /\ f \in Frames /\ Len(d) \in Nat \ {0} /\ f = d[1]
      /\ DOMAIN v = 1..(Len(d) - 1) /\ DOMAIN d = 1..Len(d)
      /\ \A n \in DOMAIN v : v[n] = d[n + 1]
  OBVIOUS
<1> HIDE DEF v, f
<1>2. /\ \A n \in DOMAIN d : n = 1 \/ (n - 1 \in DOMAIN v /\ d[n] = v[n - 1])
      /\ \A n \in DOMAIN v : n + 1 \in DOMAIN d /\ n + 1 # 1 /\ n \in Nat
      /\ 1 \in DOMAIN d
  BY <1>1
<1>3. ResIn(d) <=> ResIn(v) \/ IsRes(f)
  BY <1>1, <1>2 DEF ResIn
<1>4. ASSUME OneRes(d) PROVE OneRes(v) /\ (IsRes(f) => ~ResIn(v))
  <2>1. ASSUME NEW m \in DOMAIN v, NEW n \in DOMAIN v, IsRes(v[m]), IsRes(v[n]) PROVE m = n
    <3>1. m + 1 = n + 1
      BY <1>1, <1>2, <1>4, <2>1 DEF OneRes
    <3> QED
      BY <3>1, <1>2
  <2>2. IsRes(f) => ~ResIn(v)
    BY <1>1, <1>2, <1>4 DEF OneRes, ResIn
  <2> QED
    BY <2>1, <2>2 DEF OneRes
<1>5. ASSUME NEW i PROVE OkIn(d, i) <=> OkIn(v, i) \/ IsOk(f, i)
  BY <1>1, <1>2 DEF OkIn
<1>6. ASSUME NEW i PROVE EventIn(d, i) <=> EventIn(v, i) \/ IsEvent(f, i)
  BY <1>1, <1>2 DEF EventIn
<1> QED
  BY <1>1, <1>3, <1>4, <1>5, <1>6 DEF v, f

\* What it does to the events of an ID.
LEMMA StreamTaken ==
    ASSUME NEW d \in Seq(Frames), d # <<>>, NEW i, NEW b \in Nat, InOrder(d, i, b)
    PROVE  /\ ~IsEvent(Head(d), i) =>
                 /\ InOrder(Tail(d), i, b)
                 /\ \A p \in Nat : UpTo(d, i, b, p) => UpTo(Tail(d), i, b, p)
           /\ IsEvent(Head(d), i) =>
                 /\ Head(d).seq = b + 1 /\ InOrder(Tail(d), i, b + 1) /\ ~OkIn(d, i)
                 /\ \A p \in Nat : UpTo(d, i, b, p) => UpTo(Tail(d), i, b + 1, p)
<1> DEFINE v == Tail(d)
           f == Head(d)
<1>1. /\ Len(d) \in Nat \ {0} /\ f = d[1]
      /\ DOMAIN v = 1..(Len(d) - 1) /\ DOMAIN d = 1..Len(d)
      /\ \A n \in DOMAIN v : v[n] = d[n + 1]
      /\ \A n \in DOMAIN d : d[n] \in Frames
  OBVIOUS
<1> HIDE DEF v, f
<1>2. /\ \A n \in DOMAIN d : n = 1 \/ (n > 1 /\ n - 1 \in DOMAIN v /\ d[n] = v[n - 1])
      /\ \A n \in DOMAIN v : n + 1 \in DOMAIN d /\ n + 1 > 1 /\ n \in Nat /\ v[n] = d[n + 1]
      /\ 1 \in DOMAIN d /\ DOMAIN d \subseteq Nat
      /\ \A n \in DOMAIN d : IsEvent(d[n], i) => d[n].seq \in Nat
  BY <1>1 DEF IsEvent, Frames, Results
<1>3. \A m, n \in DOMAIN v :
          IsEvent(v[m], i) /\ IsEvent(v[n], i) /\ m < n => v[m].seq < v[n].seq
  <2> SUFFICES ASSUME NEW m \in DOMAIN v, NEW n \in DOMAIN v,
                      IsEvent(v[m], i), IsEvent(v[n], i), m < n
               PROVE  v[m].seq < v[n].seq
    OBVIOUS
  <2>1. m + 1 \in DOMAIN d /\ n + 1 \in DOMAIN d /\ m + 1 < n + 1
    BY <1>2
  <2> QED
    BY <2>1, <1>2 DEF InOrder
<1>4. \A m, n \in DOMAIN v : IsOk(v[m], i) /\ IsEvent(v[n], i) => m < n
  <2> SUFFICES ASSUME NEW m \in DOMAIN v, NEW n \in DOMAIN v, IsOk(v[m], i), IsEvent(v[n], i)
               PROVE  m < n
    OBVIOUS
  <2>1. m + 1 \in DOMAIN d /\ n + 1 \in DOMAIN d /\ m \in Nat /\ n \in Nat
    BY <1>2
  <2>2. m + 1 < n + 1
    BY <2>1, <1>2 DEF InOrder
  <2> QED
    BY <2>1, <2>2
<1>5. ASSUME ~IsEvent(f, i)
      PROVE  InOrder(v, i, b) /\ \A p \in Nat : UpTo(d, i, b, p) => UpTo(v, i, b, p)
  <2>1. \A n \in DOMAIN v : IsEvent(v[n], i) => v[n].seq > b
    BY <1>2 DEF InOrder
  <2>2. ASSUME NEW n \in DOMAIN v, IsEvent(v[n], i), v[n].seq > b + 1
        PROVE  \E m \in DOMAIN v : IsEvent(v[m], i) /\ m < n /\ v[m].seq = v[n].seq - 1
    <3>1. PICK m \in DOMAIN d : IsEvent(d[m], i) /\ m < n + 1 /\ d[m].seq = d[n + 1].seq - 1
      BY <2>2, <1>2 DEF InOrder
    <3>2. m # 1
      BY <3>1, <1>1, <1>5
    <3>3. m - 1 \in DOMAIN v /\ v[m - 1] = d[m] /\ m - 1 < n /\ v[n] = d[n + 1]
      BY <3>1, <3>2, <1>2
    <3> QED
      BY <3>1, <3>3
  <2>3. ASSUME NEW p \in Nat, UpTo(d, i, b, p) PROVE UpTo(v, i, b, p)
    <3>1. \A n \in DOMAIN v : IsEvent(v[n], i) => v[n].seq <= p
      BY <2>3, <1>2 DEF UpTo
    <3>2. ASSUME p > b PROVE \E n \in DOMAIN v : IsEvent(v[n], i) /\ v[n].seq = p
      BY <2>3, <3>2, <1>1, <1>2, <1>5 DEF UpTo
    <3> QED
      BY <2>3, <3>1, <3>2 DEF UpTo
  <2> QED
    BY <2>1, <2>2, <2>3, <1>3, <1>4 DEF InOrder
<1>6. ASSUME IsEvent(f, i)
      PROVE  /\ f.seq = b + 1 /\ InOrder(v, i, b + 1) /\ ~OkIn(d, i)
             /\ \A p \in Nat : UpTo(d, i, b, p) => UpTo(v, i, b + 1, p)
  <2>0. f.seq = b + 1
    BY <1>1, <1>2, <1>6 DEF InOrder
  <2>1. \A n \in DOMAIN v : IsEvent(v[n], i) => v[n].seq > b + 1
    BY <2>0, <1>1, <1>2, <1>6 DEF InOrder
  <2>2. ASSUME NEW n \in DOMAIN v, IsEvent(v[n], i), v[n].seq > b + 1 + 1
        PROVE  \E m \in DOMAIN v : IsEvent(v[m], i) /\ m < n /\ v[m].seq = v[n].seq - 1
    <3>1. PICK m \in DOMAIN d : IsEvent(d[m], i) /\ m < n + 1 /\ d[m].seq = d[n + 1].seq - 1
      BY <2>2, <1>2 DEF InOrder
    <3>2. m # 1
      BY <3>1, <2>0, <2>2, <1>1, <1>2
    <3>3. m - 1 \in DOMAIN v /\ v[m - 1] = d[m] /\ m - 1 < n /\ v[n] = d[n + 1]
      BY <3>1, <3>2, <1>2
    <3> QED
      BY <3>1, <3>3
  <2>3. ~OkIn(d, i)
    BY <1>1, <1>2, <1>6 DEF InOrder, OkIn, IsOk, IsEvent
  <2>4. ASSUME NEW p \in Nat, UpTo(d, i, b, p) PROVE UpTo(v, i, b + 1, p)
    <3>1. p >= b + 1 /\ \A n \in DOMAIN v : IsEvent(v[n], i) => v[n].seq <= p
      BY <2>0, <2>4, <1>1, <1>2, <1>6 DEF UpTo
    <3>2. ASSUME p > b + 1 PROVE \E n \in DOMAIN v : IsEvent(v[n], i) /\ v[n].seq = p
      BY <2>0, <2>4, <3>2, <1>1, <1>2, <1>6 DEF UpTo
    <3> QED
      BY <3>1, <3>2 DEF UpTo
  <2> QED
    BY <2>0, <2>1, <2>2, <2>3, <2>4, <1>3, <1>4 DEF InOrder
<1> QED
  BY <1>5, <1>6 DEF v, f

\* An ID without events is in order wherever it begins.
LEMMA StreamBegins ==
    ASSUME NEW d, NEW i, NEW b \in Nat, ~EventIn(d, i) PROVE InOrder(d, i, b) /\ UpTo(d, i, b, b)
BY DEF InOrder, UpTo, EventIn

\* The subscriber's events when one more comes, and when it takes one.
Log(n) == [i \in 1..n |-> i]

\* One more event comes to the subscriber.
LEMMA LogGrows ==
    ASSUME NEW g \in Seq(Nat), NEW c \in Seq(Nat), NEW n \in Nat, g \o c = Log(n)
    PROVE  g \o Append(c, n + 1) = Log(n + 1)
<1>1. g \o Append(c, n + 1) = Append(g \o c, n + 1)
  <2> DEFINE e == Append(c, n + 1)
             f == g \o c
             s == g \o e
             t == Append(f, n + 1)
  <2>1. /\ e \in Seq(Nat) /\ Len(e) = Len(c) + 1 /\ Len(c) \in Nat /\ Len(g) \in Nat
        /\ e[Len(c) + 1] = n + 1 /\ \A i \in 1..Len(c) : e[i] = c[i]
    OBVIOUS
  <2>2. /\ f \in Seq(Nat) /\ Len(f) = Len(g) + Len(c)
        /\ \A i \in 1..(Len(g) + Len(c)) : f[i] = IF i <= Len(g) THEN g[i] ELSE c[i - Len(g)]
    BY ConcatProperties, Zenon
  <2> HIDE DEF e, f
  <2>3. /\ s \in Seq(Nat) /\ Len(s) = Len(g) + Len(e)
        /\ \A i \in 1..(Len(g) + Len(e)) : s[i] = IF i <= Len(g) THEN g[i] ELSE e[i - Len(g)]
    BY <2>1, ConcatProperties, Zenon
  <2>4. /\ t \in Seq(Nat) /\ Len(t) = Len(f) + 1 /\ t[Len(f) + 1] = n + 1
        /\ \A i \in 1..Len(f) : t[i] = f[i]
    BY <2>2
  <2> HIDE DEF s, t
  <2>5. Len(s) = Len(t) /\ \A i \in 1..Len(s) : s[i] = t[i]
    <3>1. Len(s) = Len(t) /\ Len(s) = Len(g) + Len(c) + 1
      BY <2>1, <2>2, <2>3, <2>4
    <3>2. ASSUME NEW i \in 1..(Len(g) + Len(c) + 1) PROVE s[i] = t[i]
      <4>0. Len(g) \in Nat /\ Len(c) \in Nat /\ i \in Nat /\ i > 0
        BY <2>1
      <4>1. CASE i <= Len(g)
        <5>1. i \in 1..(Len(g) + Len(c)) /\ i \in 1..Len(f) /\ i \in 1..(Len(g) + Len(e))
          BY <4>0, <4>1, <2>1, <2>2
        <5>2. s[i] = g[i] /\ t[i] = f[i] /\ f[i] = g[i]
          BY <4>1, <5>1, <2>2, <2>3, <2>4
        <5> QED
          BY <5>2
      <4>2. CASE i > Len(g) /\ i <= Len(g) + Len(c)
        <5>1. /\ i - Len(g) \in 1..Len(c) /\ i \in 1..(Len(g) + Len(c)) /\ ~(i <= Len(g))
              /\ i \in 1..Len(f) /\ i \in 1..(Len(g) + Len(e))
          BY <4>0, <4>2, <2>1, <2>2
        <5>2. s[i] = e[i - Len(g)] /\ t[i] = f[i] /\ f[i] = c[i - Len(g)]
          BY <5>1, <2>2, <2>3, <2>4
        <5> QED
          BY <5>1, <5>2, <2>1
      <4>3. CASE i = Len(g) + Len(c) + 1
        <5>1. i - Len(g) = Len(c) + 1 /\ ~(i <= Len(g)) /\ i = Len(f) + 1 /\ i \in 1..(Len(g) + Len(e))
          BY <4>3, <2>1, <2>2
        <5>2. s[i] = e[Len(c) + 1] /\ t[i] = n + 1
          BY <5>1, <2>3, <2>4
        <5> QED
          BY <5>2, <2>1
      <4>4. i <= Len(g) \/ (i > Len(g) /\ i <= Len(g) + Len(c)) \/ i = Len(g) + Len(c) + 1
        BY <4>0
      <4> QED
        BY <4>1, <4>2, <4>3, <4>4
    <3> QED
      BY <3>1, <3>2
  <2>6. s = t
    BY <2>3, <2>4, <2>5, SeqEqual, Zenon
  <2> QED
    BY <2>6 DEF e, f, s, t
<1> DEFINE more == Append(Log(n), n + 1)
<1>2. Log(n) \in Seq(Nat) /\ Len(Log(n)) = n /\ \A i \in 1..n : Log(n)[i] = i
  BY DEF Log
<1>3. /\ more \in Seq(Nat) /\ Len(more) = n + 1 /\ more[n + 1] = n + 1
      /\ \A i \in 1..n : more[i] = Log(n)[i]
  BY <1>2
<1> HIDE DEF more
<1>4. more = [i \in 1..(n + 1) |-> more[i]]
  BY <1>3
<1>5. \A i \in 1..(n + 1) : more[i] = i
  BY <1>2, <1>3
<1> QED
  BY <1>1, <1>4, <1>5 DEF Log, more

\* The subscriber takes the first event of its channel.
LEMMA LogMoves ==
    ASSUME NEW g \in Seq(Nat), NEW c \in Seq(Nat), c # <<>>
    PROVE  Append(g, Head(c)) \o Tail(c) = g \o c
OBVIOUS
-----------------------------------------------------------------------------
(* Types. *)

\* Every step is one of these.
LEMMA StepKinds ==
    ASSUME Next
    PROVE  \/ ServerAnswers \/ (\E i \in Ids : ServerEvent(i) \/ ServerError(i)) \/ ConnectionBreaks
           \/ Connect \/ DialFails \/ ScheduleReconnect \/ Connected \/ Resubscribe \/ Resend
           \/ ReadResultLate \/ ReadResult \/ HandedOver \/ ReadRebind \/ ReadEvent \/ LockChannel
           \/ Deliver \/ DropEvent \/ SendOnClosed \/ FallBehind \/ ReadError \/ SendError
           \/ ReadFails \/ ReaderEnds \/ Disconnected \/ PendingAfterLoss \/ AttemptsAfterLoss
           \/ (\E k \in Callers :
                 \/ Subscribe(k) \/ CheckActive(k) \/ Reserve(k) \/ Unqueue(k) \/ SendSubscribe(k)
                 \/ Install(k) \/ Completed(k) \/ SubscribeFails(k) \/ GiveUp(k) \/ Consume(k)
                 \/ Unsubscribe(k) \/ RemoveByPattern(k) \/ SendUnsubscribe(k))
           \/ Close \/ CloseMaps \/ CloseConn
BY DEF Next, DialerSteps, ReaderSteps, CallSteps

\* What a step leaves alone.
LEMMA WireKept ==
    ASSUME \/ Connect \/ DialFails \/ ScheduleReconnect \/ LockChannel \/ Deliver \/ DropEvent
           \/ SendOnClosed \/ SendError \/ ReaderEnds \/ Disconnected \/ PendingAfterLoss \/ AttemptsAfterLoss
           \/ (\E k \in Callers :
                 \/ Subscribe(k) \/ CheckActive(k) \/ Reserve(k) \/ Unqueue(k)
                 \/ Install(k) \/ Completed(k) \/ SubscribeFails(k) \/ GiveUp(k) \/ Consume(k)
                 \/ Unsubscribe(k) \/ RemoveByPattern(k))
           \/ CloseMaps
    PROVE  UNCHANGED wire
BY DEF Connect, DialFails, ScheduleReconnect, LockChannel, Deliver, DropEvent, SendOnClosed, SendError,
   ReaderEnds, Disconnected, PendingAfterLoss, AttemptsAfterLoss, Subscribe, CheckActive, Reserve, Unqueue, Install,
   Completed, SubscribeFails, GiveUp, Consume, Unsubscribe, RemoveByPattern, CloseMaps

\* A frame or a request that is written has its type.
LEMMA WriteTypes ==
    ASSUME up \in Seq(Requests), NEW f \in Requests, Write(f) PROVE up' \in Seq(Requests)
BY RequestSent DEF Write

\* So has an unsubscribe request.
LEMMA UnsubscribeTypes ==
    ASSUME up \in Seq(Requests), NEW i \in Ids, WriteUnsubscribe(i) PROVE up' \in Seq(Requests)
BY WriteTypes DEF WriteUnsubscribe, Requests

\* The server, the requests and the frames keep their types.
LEMMA WireTypesStep == ASSUME TypeOK, Next PROVE WireTypes'
<1>0. <<>> \in Seq(Requests) /\ <<>> \in Seq(Frames)
  OBVIOUS
<1>1. CASE ServerAnswers
  <2>1. up' \in Seq(Requests) /\ Head(up) \in Requests
    BY <1>1, RequestTaken DEF ServerAnswers, TypeOK, WireTypes
  <2>2. \A i \in Ids : [type |-> "ok", id |-> i] \in Frames
    BY DEF Frames, Results
  <2>3. [type |-> "refused"] \in Frames
    BY DEF Frames, Results
  <2>4. /\ Head(up).type = "subscribe" => Head(up).after \in Nat
        /\ Head(up).type = "unsubscribe" => Head(up).id \in Ids
    BY <2>1 DEF Requests
  <2>5. /\ UNCHANGED <<link, conns>>
        /\ \/ /\ Head(up).type = "subscribe"
              /\ \E i \in Ids :
                    /\ srv' = [srv EXCEPT ![i] = "on"]
                    /\ pos' = [pos EXCEPT ![i] = IF cursorOn THEN Head(up).after ELSE 0]
                    /\ down' = Append(down, [type |-> "ok", id |-> i])
           \/ down' = Append(down, [type |-> "refused"]) /\ UNCHANGED <<srv, pos>>
           \/ /\ Head(up).type = "unsubscribe" /\ UNCHANGED down
              /\ srv' = [srv EXCEPT ![Head(up).id] = "off"]
              /\ pos' = [pos EXCEPT ![Head(up).id] = 0]
    BY <1>1 DEF ServerAnswers
  <2>6. srv' \in [Ids -> {"free", "on", "off"}] /\ pos' \in [Ids -> Nat]
    <3>1. \/ UNCHANGED <<srv, pos>>
          \/ \E i \in Ids : \E p \in Nat : /\ pos' = [pos EXCEPT ![i] = p]
                                        /\ \/ srv' = [srv EXCEPT ![i] = "on"]
                                           \/ srv' = [srv EXCEPT ![i] = "off"]
      <4>1. CASE UNCHANGED <<srv, pos>>
        BY <4>1
      <4>2. CASE Head(up).type = "unsubscribe" /\ ~UNCHANGED <<srv, pos>>
        BY <2>4, <2>5, <4>2
      <4>3. CASE Head(up).type = "subscribe" /\ ~UNCHANGED <<srv, pos>>
        <5>1. (IF cursorOn THEN Head(up).after ELSE 0) \in Nat
          BY <2>4, <4>3
        <5> QED
          BY <2>5, <4>3, <5>1
      <4> QED
        BY <4>1, <4>2, <4>3, <2>5
    <3> QED
      BY <3>1 DEF TypeOK, WireTypes
  <2>7. down' \in Seq(Frames)
    BY <2>2, <2>3, <2>5, FrameSent DEF TypeOK, WireTypes
  <2> QED
    BY <2>1, <2>5, <2>6, <2>7 DEF TypeOK, WireTypes
<1>2. ASSUME NEW i \in Ids, ServerEvent(i) \/ ServerError(i) PROVE WireTypes'
  <2>1. [type |-> "event", id |-> i, seq |-> pos[i] + 1] \in Frames
    BY DEF Frames, Results, TypeOK, WireTypes
  <2>2. [type |-> "error", id |-> i] \in Frames
    BY DEF Frames, Results
  <2>3. down' \in Seq(Frames)
    BY <1>2, <2>1, <2>2, FrameSent DEF ServerEvent, ServerError, TypeOK, WireTypes
  <2>4. /\ UNCHANGED <<srv, link, up, conns>>
        /\ UNCHANGED pos \/ pos' = [pos EXCEPT ![i] = pos[i] + 1]
    BY <1>2 DEF ServerEvent, ServerError
  <2> QED
    BY <2>3, <2>4 DEF TypeOK, WireTypes
<1>3. CASE ConnectionBreaks \/ FallBehind \/ CloseConn
  <2>1. srv' \in [Ids -> {"free", "on", "off"}] /\ pos' \in [Ids -> Nat]
    BY <1>3 DEF ConnectionBreaks, FallBehind, CloseConn, CutLink, TypeOK, WireTypes
  <2>2. /\ link' \in {"cut", link} /\ up' \in {<<>>, up} /\ down' \in {<<>>, down}
        /\ conns' = conns
    BY <1>3 DEF ConnectionBreaks, FallBehind, CloseConn, CutLink
  <2> QED
    BY <2>1, <2>2, <1>0 DEF TypeOK, WireTypes
<1>4. CASE Connected \/ ReadFails \/ Close
  <2>1. /\ link' \in {"up", link} /\ up' \in {<<>>, up} /\ down' = <<>>
        /\ conns' = conns \/ conns' = conns + 1
        /\ UNCHANGED <<srv, pos>>
    BY <1>4 DEF Connected, ReadFails, Close
  <2>2. conns' \in Nat
    BY <2>1 DEF TypeOK, WireTypes
  <2> QED
    BY <2>1, <2>2, <1>0 DEF TypeOK, WireTypes
<1>5. CASE Resubscribe
  <2>1. \A i \in Ids : subOf[i] # NoOne => [type |-> "subscribe", after |-> cursor[subOf[i]]] \in Requests
    BY DEF TypeOK, AttemptTypes, SubTypes, SomeCaller, Requests
  <2>2. up' \in Seq(Requests)
    BY <1>5, <2>1, WriteTypes DEF Resubscribe, TypeOK, WireTypes
  <2> QED
    BY <1>5, <2>2 DEF Resubscribe, TypeOK, WireTypes
<1>6. CASE Resend
  <2>1. pend # NoOne => [type |-> "subscribe", after |-> cursor[pend]] \in Requests
    BY DEF TypeOK, AttemptTypes, SubTypes, SomeCaller, Requests
  <2>2. up' \in Seq(Requests)
    BY <1>6, <2>1, WriteTypes DEF Resend, TypeOK, WireTypes
  <2> QED
    BY <1>6, <2>2 DEF Resend, TypeOK, WireTypes
<1>7. CASE ReadResultLate \/ ReadResult \/ ReadRebind \/ ReadEvent \/ ReadError
  <2>1. down # <<>> /\ down' = Tail(down)
    BY <1>7 DEF ReadResultLate, ReadResult, ReadRebind, ReadEvent, ReadError, NextFrame
  <2>2. down' \in Seq(Frames) /\ Head(down) \in Frames
    BY <2>1, FrameTaken DEF TypeOK, WireTypes
  <2>3. Head(down).type = "ok" => Head(down).id \in Ids
    BY <2>2 DEF Frames, Results
  <2>4. up' \in Seq(Requests)
    BY <1>7, <2>3, UnsubscribeTypes DEF ReadResultLate, ReadResult, ReadRebind, ReadEvent, ReadError,
       TypeOK, WireTypes
  <2> QED
    BY <1>7, <2>2, <2>4 DEF ReadResultLate, ReadResult, ReadRebind, ReadEvent, ReadError, TypeOK, WireTypes
<1>8. CASE HandedOver
  <2>1. rdMsg.type = "ok" => rdMsg.id \in Ids
    BY <1>8 DEF HandedOver, TypeOK, ReaderTypes, Results
  <2>2. up' \in Seq(Requests)
    BY <1>8, <2>1, UnsubscribeTypes DEF HandedOver, TypeOK, WireTypes
  <2> QED
    BY <1>8, <2>2 DEF HandedOver, TypeOK, WireTypes
<1>9. ASSUME NEW k \in Callers, SendSubscribe(k) \/ SendUnsubscribe(k) PROVE WireTypes'
  <2>1. [type |-> "subscribe", after |-> 0] \in Requests
    BY DEF Requests
  <2>2. call[k] = "dropping" => dropId[k] \in Ids
    BY DEF TypeOK, CallTypes
  <2>3. up' \in Seq(Requests)
    BY <1>9, <2>1, <2>2, WriteTypes, UnsubscribeTypes DEF SendSubscribe, SendUnsubscribe, TypeOK, WireTypes
  <2> QED
    BY <1>9, <2>3 DEF SendSubscribe, SendUnsubscribe, TypeOK, WireTypes
<1>10. CASE UNCHANGED wire
  BY <1>10 DEF wire, TypeOK, WireTypes
<1> QED
  BY <1>1, <1>2, <1>3, <1>4, <1>5, <1>6, <1>7, <1>8, <1>9, <1>10, StepKinds, WireKept

\* The actions by what they are part of.
ServerStep == ServerAnswers \/ ConnectionBreaks \/ \E i \in Ids : ServerEvent(i) \/ ServerError(i)

\* So does the client.
LEMMA ClientTypesStep == ASSUME TypeOK, Next PROVE ClientTypes'
<1> USE DEF TypeOK, ClientTypes
<1>1. CASE ServerStep
  BY <1>1 DEF ServerStep, ServerAnswers, ConnectionBreaks, ServerEvent, ServerError, client
<1>2. CASE Connect \/ DialFails \/ ScheduleReconnect \/ Connected \/ Resubscribe
  BY <1>2 DEF Connect, DialFails, ScheduleReconnect, Connected, Resubscribe, AfterRestore
<1>3. CASE Resend
  BY <1>3 DEF Resend
<1>4. CASE ReadResultLate \/ ReadResult \/ HandedOver \/ ReadRebind \/ ReadEvent \/ LockChannel
           \/ Deliver \/ DropEvent \/ SendOnClosed
  BY <1>4 DEF ReadResultLate, ReadResult, HandedOver, ReadRebind, ReadEvent, LockChannel, Deliver,
     DropEvent, SendOnClosed, client
<1>5. CASE FallBehind \/ ReadError \/ SendError \/ ReadFails \/ ReaderEnds \/ Disconnected
           \/ PendingAfterLoss \/ AttemptsAfterLoss
  BY <1>5 DEF FallBehind, ReadError, SendError, ReadFails, ReaderEnds, Disconnected, PendingAfterLoss, AttemptsAfterLoss,
     client
<1>6. ASSUME NEW k \in Callers, Subscribe(k) \/ CheckActive(k) \/ Reserve(k) \/ Unqueue(k) \/ SendSubscribe(k)
      PROVE  ClientTypes'
  BY <1>6 DEF Subscribe, CheckActive, Reserve, Unqueue, SendSubscribe, client
<1>7. ASSUME NEW k \in Callers, Install(k) \/ Completed(k) \/ SubscribeFails(k) \/ GiveUp(k) \/ Consume(k)
                  \/ Unsubscribe(k) \/ RemoveByPattern(k) \/ SendUnsubscribe(k)
      PROVE  ClientTypes'
  BY <1>7 DEF Install, Completed, SubscribeFails, GiveUp, Consume, Unsubscribe, RemoveByPattern,
     SendUnsubscribe, client
<1>8. CASE Close \/ CloseMaps \/ CloseConn
  BY <1>8 DEF Close, CloseMaps, CloseConn
<1> QED
  BY <1>1, <1>2, <1>3, <1>4, <1>5, <1>6, <1>7, <1>8, StepKinds DEF ServerStep

\* So do the flags.
LEMMA FlagTypesStep == ASSUME TypeOK, Next PROVE FlagTypes'
<1> USE DEF TypeOK, FlagTypes
<1>1. CASE ServerStep
  BY <1>1 DEF ServerStep, ServerAnswers, ConnectionBreaks, ServerEvent, ServerError
<1>2. CASE Connect \/ DialFails \/ ScheduleReconnect \/ Connected \/ Resubscribe
  BY <1>2 DEF Connect, DialFails, ScheduleReconnect, Connected, Resubscribe, AfterRestore
<1>3. CASE Resend
  BY <1>3 DEF Resend
<1>4. CASE ReadResultLate \/ ReadResult \/ HandedOver \/ ReadRebind \/ ReadEvent \/ LockChannel
           \/ Deliver \/ DropEvent \/ SendOnClosed
  BY <1>4 DEF ReadResultLate, ReadResult, HandedOver, ReadRebind, ReadEvent, LockChannel, Deliver,
     DropEvent, SendOnClosed
<1>5. CASE FallBehind \/ ReadError \/ SendError \/ ReadFails \/ ReaderEnds \/ Disconnected
           \/ PendingAfterLoss \/ AttemptsAfterLoss
  BY <1>5 DEF FallBehind, ReadError, SendError, ReadFails, ReaderEnds, Disconnected, PendingAfterLoss,
     AttemptsAfterLoss
<1>6. ASSUME NEW k \in Callers, Subscribe(k) \/ CheckActive(k) \/ Reserve(k) \/ Unqueue(k) \/ SendSubscribe(k)
      PROVE  FlagTypes'
  BY <1>6 DEF Subscribe, CheckActive, Reserve, Unqueue, SendSubscribe
<1>7. ASSUME NEW k \in Callers, Install(k) \/ Completed(k) \/ SubscribeFails(k) \/ GiveUp(k) \/ Consume(k)
                  \/ Unsubscribe(k) \/ RemoveByPattern(k) \/ SendUnsubscribe(k)
      PROVE  FlagTypes'
  BY <1>7 DEF Install, Completed, SubscribeFails, GiveUp, Consume, Unsubscribe, RemoveByPattern,
     SendUnsubscribe
<1>8. CASE Close \/ CloseMaps \/ CloseConn
  BY <1>8 DEF Close, CloseMaps, CloseConn
<1> QED
  BY <1>1, <1>2, <1>3, <1>4, <1>5, <1>6, <1>7, <1>8, StepKinds DEF ServerStep

\* So does the count of the faults.
LEMMA FaultsStep == ASSUME TypeOK, Next PROVE faults' \in Nat
<1> USE DEF TypeOK
<1>1. CASE ServerStep
  <2>1. faults' = faults \/ faults' = faults + 1
    BY <1>1 DEF ServerStep, ServerAnswers, ConnectionBreaks, ServerEvent, ServerError, Fault
  <2> QED
    BY <2>1
<1>2. CASE Connect \/ DialFails \/ ScheduleReconnect \/ Connected \/ Resubscribe
  BY <1>2 DEF Connect, DialFails, ScheduleReconnect, Connected, Resubscribe, AfterRestore, Fault
<1>3. CASE Resend
  BY <1>3 DEF Resend
<1>4. CASE ReadResultLate \/ ReadResult \/ HandedOver \/ ReadRebind \/ ReadEvent \/ LockChannel
           \/ Deliver \/ DropEvent \/ SendOnClosed
  BY <1>4 DEF ReadResultLate, ReadResult, HandedOver, ReadRebind, ReadEvent, LockChannel, Deliver,
     DropEvent, SendOnClosed
<1>5. CASE FallBehind \/ ReadError \/ SendError \/ ReadFails \/ ReaderEnds \/ Disconnected
           \/ PendingAfterLoss \/ AttemptsAfterLoss
  BY <1>5 DEF FallBehind, ReadError, SendError, ReadFails, ReaderEnds, Disconnected, PendingAfterLoss, AttemptsAfterLoss,
     Fault
<1>6. ASSUME NEW k \in Callers, Subscribe(k) \/ CheckActive(k) \/ Reserve(k) \/ Unqueue(k) \/ SendSubscribe(k)
      PROVE  faults' \in Nat
  BY <1>6 DEF Subscribe, CheckActive, Reserve, Unqueue, SendSubscribe, Fault
<1>7. ASSUME NEW k \in Callers, Install(k) \/ Completed(k) \/ SubscribeFails(k) \/ GiveUp(k) \/ Consume(k)
                  \/ Unsubscribe(k) \/ RemoveByPattern(k) \/ SendUnsubscribe(k)
      PROVE  faults' \in Nat
  BY <1>7 DEF Install, Completed, SubscribeFails, GiveUp, Consume, Unsubscribe, RemoveByPattern,
     SendUnsubscribe, Fault
<1>8. CASE Close \/ CloseMaps \/ CloseConn
  BY <1>8 DEF Close, CloseMaps, CloseConn
<1> QED
  BY <1>1, <1>2, <1>3, <1>4, <1>5, <1>6, <1>7, <1>8, StepKinds DEF ServerStep

\* So do the attempt in flight and the maps.
LEMMA AttemptTypesStep == ASSUME TypeOK, Next PROVE AttemptTypes'
<1> USE DEF TypeOK, AttemptTypes, SomeCaller
<1>0. Ids \subseteq 0..MaxIds /\ 0 \in 0..MaxIds
  BY SubAssumption DEF Ids
<1>1. CASE ServerStep
  BY <1>1 DEF ServerStep, ServerAnswers, ConnectionBreaks, ServerEvent, ServerError, attempt, maps
<1>2. CASE Connect \/ DialFails \/ ScheduleReconnect \/ Connected
  BY <1>2 DEF Connect, DialFails, ScheduleReconnect, Connected, attempt, maps
<1>3. CASE Resubscribe \/ Resend
  BY <1>3 DEF Resubscribe, Resend, Complete, attempt, maps
<1>4. CASE ReadResultLate \/ ReadResult \/ HandedOver \/ ReadEvent \/ LockChannel
           \/ Deliver \/ DropEvent \/ SendOnClosed
  BY <1>4 DEF ReadResultLate, ReadResult, HandedOver, ReadEvent, LockChannel, Deliver,
     DropEvent, SendOnClosed, Complete, attempt, maps
<1>5. CASE FallBehind \/ ReadError \/ SendError \/ ReadFails \/ ReaderEnds \/ Disconnected
           \/ PendingAfterLoss \/ AttemptsAfterLoss
  BY <1>5 DEF FallBehind, ReadError, SendError, ReadFails, ReaderEnds, Disconnected, PendingAfterLoss, AttemptsAfterLoss,
     Discard, Complete, attempt, maps
<1>6. CASE ReadRebind
  <2>1. down # <<>>
    BY <1>6 DEF ReadRebind, NextFrame
  <2>2. Head(down).type = "ok" => Head(down).id \in Ids
    BY <2>1, FrameTaken DEF WireTypes, Frames, Results
  <2>3. pend' = NoOne /\ resub' = FALSE /\ canceled' = FALSE
    BY <1>6 DEF ReadRebind, Complete
  <2>4. \/ \E new \in Ids : /\ subOf' = [subOf EXCEPT ![byPattern] = NoOne, ![new] = pend]
                            /\ byPattern' = new
        \/ UNCHANGED <<subOf, byPattern>>
        \/ subOf' = [subOf EXCEPT ![byPattern] = NoOne] /\ byPattern' = 0
    BY <1>6, <2>2 DEF ReadRebind, Rebind, maps
  <2> QED
    BY <1>0, <2>3, <2>4
<1>7. ASSUME NEW k \in Callers, Subscribe(k) \/ CheckActive(k) \/ Reserve(k) \/ Unqueue(k) \/ SendSubscribe(k)
      PROVE  AttemptTypes'
  BY <1>7 DEF Subscribe, CheckActive, Reserve, Unqueue, SendSubscribe, Cancel, attempt, maps
<1>8. ASSUME NEW k \in Callers, Completed(k) \/ SubscribeFails(k) \/ GiveUp(k) \/ Consume(k)
                  \/ Unsubscribe(k) \/ RemoveByPattern(k) \/ SendUnsubscribe(k)
      PROVE  AttemptTypes'
  BY <1>8, <1>0 DEF Completed, SubscribeFails, GiveUp, Consume, Unsubscribe, RemoveByPattern,
     SendUnsubscribe, Complete, Cancel, attempt, maps
<1>9. ASSUME NEW k \in Callers, Install(k) PROVE AttemptTypes'
  <2>1. result[k] \in Results \cup {NoMsg} /\ result[k].type = "ok"
    BY <1>9 DEF Install, CallTypes
  <2>2. result[k].id \in Ids
    BY <2>1 DEF Results, NoMsg
  <2> QED
    BY <1>9, <2>2, <1>0 DEF Install, attempt
<1>10. CASE Close \/ CloseMaps \/ CloseConn
  BY <1>10, <1>0 DEF Close, CloseMaps, CloseConn, Complete, attempt, maps
<1> QED
  BY <1>1, <1>2, <1>3, <1>4, <1>5, <1>6, <1>7, <1>8, <1>9, <1>10, StepKinds DEF ServerStep

\* So do the subscriptions.
LEMMA SubTypesStep == ASSUME TypeOK, Next PROVE SubTypes'
<1> USE DEF TypeOK, SubTypes
<1>1. CASE ServerStep
  BY <1>1 DEF ServerStep, ServerAnswers, ConnectionBreaks, ServerEvent, ServerError, subVars
<1>2. CASE Connect \/ DialFails \/ ScheduleReconnect \/ Connected \/ Resubscribe \/ Resend
  BY <1>2 DEF Connect, DialFails, ScheduleReconnect, Connected, Resubscribe, Resend, subVars
<1>3. CASE ReadResultLate \/ ReadResult \/ HandedOver \/ ReadEvent \/ LockChannel
           \/ DropEvent \/ SendOnClosed
  BY <1>3 DEF ReadResultLate, ReadResult, HandedOver, ReadEvent, LockChannel, DropEvent, SendOnClosed, subVars
<1>4. CASE FallBehind \/ ReadError \/ SendError \/ ReadFails \/ ReaderEnds \/ Disconnected
           \/ PendingAfterLoss \/ AttemptsAfterLoss
  BY <1>4 DEF FallBehind, ReadError, SendError, ReadFails, ReaderEnds, Disconnected, PendingAfterLoss, AttemptsAfterLoss, subVars
<1>5. CASE ReadRebind
  BY <1>5 DEF ReadRebind, CloseChannels
<1>6. CASE Deliver
  <2>1. rdSub \in Callers /\ rdMsg.seq \in Nat
    BY <1>6 DEF Deliver, ReaderTypes
  <2>2. Append(chan[rdSub], rdMsg.seq) \in Seq(Nat)
    BY <2>1
  <2>3. chan' \in [Callers -> Seq(Nat)]
    BY <1>6, <2>2 DEF Deliver
  <2>4. cursor' \in [Callers -> Nat]
    BY <1>6, <2>1 DEF Deliver
  <2> QED
    BY <1>6, <2>3, <2>4 DEF Deliver
<1>7. ASSUME NEW k \in Callers, Subscribe(k) \/ CheckActive(k) \/ Reserve(k) \/ Unqueue(k) \/ SendSubscribe(k)
      PROVE  SubTypes'
  BY <1>7 DEF Subscribe, CheckActive, Reserve, Unqueue, SendSubscribe, subVars
<1>8. ASSUME NEW k \in Callers, Completed(k) \/ SubscribeFails(k) \/ GiveUp(k) \/ Install(k)
                  \/ Unsubscribe(k) \/ SendUnsubscribe(k)
      PROVE  SubTypes'
  BY <1>8 DEF Completed, SubscribeFails, GiveUp, Install, Unsubscribe, SendUnsubscribe, subVars
<1>9. ASSUME NEW k \in Callers, Consume(k) PROVE SubTypes'
  <2>1. chan[k] \in Seq(Nat) /\ chan[k] # <<>> /\ got[k] \in Seq(Nat)
    BY <1>9 DEF Consume
  <2>2. Tail(chan[k]) \in Seq(Nat) /\ Head(chan[k]) \in Nat
    BY <2>1
  <2>3. Append(got[k], Head(chan[k])) \in Seq(Nat)
    BY <2>1, <2>2
  <2>4. chan' \in [Callers -> Seq(Nat)]
    BY <1>9, <2>2 DEF Consume
  <2>5. got' \in [Callers -> Seq(Nat)]
    BY <1>9, <2>3 DEF Consume
  <2> QED
    BY <1>9, <2>4, <2>5 DEF Consume
<1>10. ASSUME NEW k \in Callers, RemoveByPattern(k) PROVE SubTypes'
  BY <1>10 DEF RemoveByPattern, CloseChannels
<1>11. CASE Close \/ CloseMaps \/ CloseConn
  BY <1>11 DEF Close, CloseMaps, CloseConn, subVars
<1> QED
  BY <1>1, <1>2, <1>3, <1>4, <1>5, <1>6, <1>7, <1>8, <1>9, <1>10, <1>11, StepKinds DEF ServerStep

\* The frame the reader takes.
LEMMA FrameRead ==
    ASSUME TypeOK, NEW types, NextFrame(types)
    PROVE  /\ rd = "reading" /\ ~done /\ conn /\ down # <<>> /\ down' = Tail(down)
           /\ Head(down) \in Frames /\ Head(down).type \in types
           /\ Head(down).type \in {"ok", "refused"} => Head(down) \in Results
           /\ Head(down).type \in {"ok", "event", "error"} => Head(down).id \in Ids
           /\ Head(down).type = "event" => Head(down) \in [type : {"event"}, id : Ids, seq : Nat]
<1>1. /\ rd = "reading" /\ ~done /\ conn /\ down # <<>> /\ down' = Tail(down)
      /\ Head(down).type \in types /\ Head(down) \in Frames
  BY FrameTaken DEF NextFrame, TypeOK, WireTypes
<1> QED
  BY <1>1 DEF Frames, Results

\* So does what the reader holds.
LEMMA ReaderTypesStep == ASSUME TypeOK, Next PROVE ReaderTypes'
<1>0. /\ rd \in {"none", "reading", "handing", "found", "sending", "erring", "losing", "lost", "resuming", "failing"}
      /\ rdSub \in SomeCaller /\ NoOne \in SomeCaller
  BY DEF TypeOK, ReaderTypes, SomeCaller
<1>1. CASE UNCHANGED <<rd, rdSub, rdMsg>>
  BY <1>1 DEF TypeOK, ReaderTypes
<1>2. CASE rd' \in {"none", "reading", "losing", "lost", "resuming", "failing"} /\ rdSub' \in {rdSub, NoOne}
  BY <1>0, <1>2 DEF ReaderTypes
<1>3. CASE ServerStep \/ Connect \/ DialFails \/ ScheduleReconnect \/ Resubscribe \/ Resend
  BY <1>1, <1>3 DEF ServerStep, ServerAnswers, ConnectionBreaks, ServerEvent, ServerError, Connect, DialFails,
     ScheduleReconnect, Resubscribe, Resend, reader
<1>4. CASE ReadResultLate \/ ReadRebind \/ SendOnClosed
  BY <1>1, <1>4 DEF ReadResultLate, ReadRebind, SendOnClosed, reader
<1>5. CASE Connected \/ HandedOver \/ Deliver \/ DropEvent \/ FallBehind \/ ReadFails
           \/ ReaderEnds \/ Disconnected \/ PendingAfterLoss \/ AttemptsAfterLoss
  BY <1>2, <1>5 DEF Connected, HandedOver, Deliver, DropEvent, FallBehind, ReadFails, ReaderEnds,
     Disconnected, PendingAfterLoss, AttemptsAfterLoss, Idle
<1>6. CASE SendError
  BY <1>1, <1>2, <1>6 DEF SendError, Idle, reader
<1>7. CASE LockChannel
  BY <1>7 DEF LockChannel, TypeOK, ReaderTypes
<1>8. CASE ReadResult
  <2>1. Head(down) \in Results
    BY <1>8, FrameRead DEF ReadResult
  <2> QED
    BY <1>8, <2>1 DEF ReadResult, TypeOK, ReaderTypes, AttemptTypes, SomeCaller
<1>9. CASE ReadEvent \/ ReadError
  <2>1. /\ Head(down).id \in Ids
        /\ ReadEvent => Head(down) \in [type : {"event"}, id : Ids, seq : Nat]
    BY <1>9, FrameRead DEF ReadEvent, ReadError
  <2>2. subOf[Head(down).id] \in SomeCaller
    BY <2>1 DEF TypeOK, AttemptTypes
  <2>3. \/ UNCHANGED <<rd, rdSub, rdMsg>>
        \/ /\ rd' = "erring" \/ (ReadEvent /\ rd' = "found" /\ rdMsg' = Head(down))
           /\ rdSub' = subOf[Head(down).id] /\ rdSub' # NoOne
    BY <1>9 DEF ReadEvent, ReadError, reader
  <2> QED
    BY <1>1, <2>1, <2>2, <2>3 DEF ReaderTypes, SomeCaller
<1>10. ASSUME NEW k \in Callers,
              \/ Subscribe(k) \/ CheckActive(k) \/ Reserve(k) \/ Unqueue(k) \/ SendSubscribe(k)
              \/ Install(k) \/ Completed(k) \/ SubscribeFails(k) \/ GiveUp(k) \/ Consume(k)
              \/ Unsubscribe(k) \/ RemoveByPattern(k) \/ SendUnsubscribe(k)
       PROVE  ReaderTypes'
  BY <1>1, <1>10 DEF Subscribe, CheckActive, Reserve, Unqueue, SendSubscribe, Install, Completed,
     SubscribeFails, GiveUp, Consume, Unsubscribe, RemoveByPattern, SendUnsubscribe, reader
<1>11. CASE Close \/ CloseMaps \/ CloseConn
  BY <1>1, <1>11 DEF Close, CloseMaps, CloseConn, reader
<1> QED
  BY <1>3, <1>4, <1>5, <1>6, <1>7, <1>8, <1>9, <1>10, <1>11, StepKinds DEF ServerStep

\* So do the callers.
LEMMA CallTypesStep == ASSUME TypeOK, Next PROVE CallTypes'
<1>1. CASE UNCHANGED <<call, result, dropId>>
  BY <1>1 DEF TypeOK, CallTypes
<1>2. ASSUME UNCHANGED <<call, dropId>>, NEW x \in Callers, NEW r \in Results \cup {NoMsg},
             result' = [result EXCEPT ![x] = r]
      PROVE  CallTypes'
  BY <1>2 DEF TypeOK, CallTypes
<1>3. [type |-> "refused"] \in Results
  BY DEF Results
<1>4. CASE ServerStep \/ Connect \/ DialFails \/ ScheduleReconnect \/ Connected \/ Resubscribe
  BY <1>1, <1>4 DEF ServerStep, ServerAnswers, ConnectionBreaks, ServerEvent, ServerError, Connect, DialFails,
     ScheduleReconnect, Connected, Resubscribe, callVars
<1>5. CASE ReadResultLate \/ ReadRebind \/ SendOnClosed \/ HandedOver \/ Deliver \/ DropEvent \/ FallBehind
           \/ ReadFails \/ ReaderEnds \/ Disconnected \/ PendingAfterLoss \/ SendError \/ LockChannel
           \/ ReadEvent \/ ReadError
  BY <1>1, <1>5 DEF ReadResultLate, ReadRebind, SendOnClosed, HandedOver, Deliver, DropEvent, FallBehind,
     ReadFails, ReaderEnds, Disconnected, PendingAfterLoss, SendError, LockChannel, ReadEvent, ReadError,
     callVars
<1>6. CASE Resend \/ AttemptsAfterLoss
  <2>1. /\ UNCHANGED <<call, dropId>>
        /\ UNCHANGED result \/ (pend # NoOne /\ result' = [result EXCEPT ![pend] = [type |-> "refused"]])
    BY <1>6 DEF Resend, AttemptsAfterLoss
  <2> QED
    BY <1>1, <1>2, <1>3, <2>1 DEF TypeOK, AttemptTypes, SomeCaller
<1>7. CASE ReadResult
  <2>1. Head(down) \in Results
    BY <1>7, FrameRead DEF ReadResult
  <2>2. /\ UNCHANGED <<call, dropId>> /\ pend # NoOne
        /\ UNCHANGED result \/ result' = [result EXCEPT ![pend] = Head(down)]
    BY <1>7 DEF ReadResult
  <2> QED
    BY <1>1, <1>2, <2>1, <2>2 DEF TypeOK, AttemptTypes, SomeCaller
<1>8. ASSUME NEW k \in Callers, NEW p \in Places, Goto(k, p), result' \in [Callers -> Results \cup {NoMsg}],
             dropId' = dropId, p # "dropping"
      PROVE  CallTypes'
  BY <1>8 DEF TypeOK, CallTypes, Goto
<1>9. ASSUME NEW k \in Callers,
             \/ Subscribe(k) \/ CheckActive(k) \/ Reserve(k) \/ Unqueue(k) \/ SendSubscribe(k)
             \/ Install(k) \/ SubscribeFails(k) \/ GiveUp(k) \/ Unsubscribe(k)
      PROVE  CallTypes'
  <2>1. /\ \E p \in Places : Goto(k, p) /\ p # "dropping"
        /\ UNCHANGED <<result, dropId>>
    BY <1>9 DEF Subscribe, CheckActive, Reserve, Unqueue, SendSubscribe, Install, SubscribeFails,
       GiveUp, Unsubscribe, Places
  <2> QED
    BY <1>8, <2>1 DEF TypeOK, CallTypes
<1>10. ASSUME NEW k \in Callers, Completed(k) PROVE CallTypes'
  <2>1. result' \in [Callers -> Results \cup {NoMsg}] /\ dropId' = dropId /\ Goto(k, "subscribed")
    BY <1>10 DEF Completed, TypeOK, CallTypes
  <2> QED
    BY <1>8, <2>1 DEF Places
<1>11. ASSUME NEW k \in Callers, Consume(k) PROVE CallTypes'
  BY <1>1, <1>11 DEF Consume, callVars
<1>12. ASSUME NEW k \in Callers, RemoveByPattern(k) \/ SendUnsubscribe(k) PROVE CallTypes'
  <2>0. 0 \in 0..MaxIds /\ Ids \subseteq 0..MaxIds /\ (byPattern # 0 => byPattern \in Ids)
    BY SubAssumption DEF TypeOK, AttemptTypes, Ids
  <2>1. /\ result' = result
        /\ \/ Goto(k, "returned") /\ dropId' = dropId
           \/ Goto(k, "returned") /\ dropId' = [dropId EXCEPT ![k] = byPattern] /\ byPattern \in Ids
           \/ Goto(k, "returned") /\ dropId' = [dropId EXCEPT ![k] = 0]
           \/ Goto(k, "dropping") /\ dropId' = [dropId EXCEPT ![k] = byPattern] /\ byPattern \in Ids
    BY <1>12, <2>0 DEF RemoveByPattern, SendUnsubscribe
  <2> QED
    BY <2>0, <2>1 DEF TypeOK, CallTypes, Goto, Places
<1>13. CASE Close \/ CloseMaps \/ CloseConn
  BY <1>1, <1>13 DEF Close, CloseMaps, CloseConn, callVars
<1> QED
  BY <1>4, <1>5, <1>6, <1>7, <1>9, <1>10, <1>11, <1>12, <1>13, StepKinds DEF ServerStep

\* Every step keeps the types.
LEMMA TypesStep == ASSUME TypeOK, [Next]_vars PROVE TypeOK'
<1>1. CASE Next
  BY <1>1, WireTypesStep, ClientTypesStep, FlagTypesStep, FaultsStep, AttemptTypesStep, ReaderTypesStep,
     CallTypesStep, SubTypesStep DEF TypeOK
<1>2. CASE UNCHANGED vars
  BY <1>2 DEF vars, wire, client, attempt, maps, reader, callVars, subVars, TypeOK, WireTypes, ClientTypes,
     FlagTypes, AttemptTypes, ReaderTypes, CallTypes, SubTypes
<1> QED
  BY <1>1, <1>2

-----------------------------------------------------------------------------
(* The steps, one after the other, while nothing raced and the client is open. *)

\* The types as the proofs below need them.
LEMMA Typed ==
    ASSUME TypeOK
    PROVE  /\ NoOne \notin Callers /\ 0 \notin Ids
           /\ pend \in Callers \cup {NoOne} /\ byPattern \in Ids \cup {0}
           /\ rd \in {"handing", "found", "sending", "erring"} => rdSub \in Callers
           /\ \A i \in Ids : subOf[i] \in Callers \cup {NoOne} /\ pos[i] \in Nat
           /\ \A k \in Callers : cursor[k] \in Nat /\ got[k] \in Seq(Nat) /\ chan[k] \in Seq(Nat)
<1>1. NoOne \notin Callers /\ 0 \notin Ids /\ 0..MaxIds \subseteq Ids \cup {0}
  BY SubAssumption DEF Ids
<1> QED
  BY <1>1 DEF TypeOK, WireTypes, AttemptTypes, ReaderTypes, SubTypes, SomeCaller

\* What giving an ID back does to the requests.
LEMMA UnsubscribeWritten ==
    ASSUME TypeOK, Live, NEW i \in Ids, WriteUnsubscribe(i)
    PROVE  /\ ReqIn(up') <=> ReqIn(up)
           /\ OneReq(up) => OneReq(up')
           /\ \A c : AfterIs(up, c) => AfterIs(up', c)
           /\ \A j : UnsubIn(up', j) <=> UnsubIn(up, j) \/ (link = "up" /\ j = i)
           /\ link # "up" => up' = up
<1> DEFINE f == [type |-> "unsubscribe", id |-> i]
<1>1. f \in Requests /\ up \in Seq(Requests) /\ f.type = "unsubscribe" /\ f.id = i
  BY DEF Requests, TypeOK, WireTypes
<1>2. up' = IF link = "up" THEN Append(up, f) ELSE up
  BY DEF WriteUnsubscribe, Write, WriteFails, Live, Phases, TypeOK, ReaderTypes
<1> HIDE DEF f
<1> QED
  BY <1>1, <1>2, RequestSent

\* What reading a frame does to the wire.
LEMMA WireRead ==
    ASSUME TypeOK, Live, NEW types, NextFrame(types)
    PROVE  /\ rd = "reading" /\ restorer \notin {"restoring", "restoringOnly"}
           /\ ResIn(down) <=> ResIn(down') \/ IsRes(Head(down))
           /\ OneRes(down') /\ (IsRes(Head(down)) => ~ResIn(down'))
           /\ \A j : OkIn(down, j) <=> OkIn(down', j) \/ IsOk(Head(down), j)
           /\ \A j : EventIn(down, j) <=> EventIn(down', j) \/ IsEvent(Head(down), j)
           /\ \A j \in Ids : InFlight(j) <=> OkIn(down, j)
           /\ \A j \in Ids : \A b \in Nat : InOrder(down, j, b) =>
                 /\ ~IsEvent(Head(down), j) =>
                       /\ InOrder(down', j, b)
                       /\ \A p \in Nat : UpTo(down, j, b, p) => UpTo(down', j, b, p)
                 /\ IsEvent(Head(down), j) =>
                       /\ Head(down).seq = b + 1 /\ InOrder(down', j, b + 1) /\ ~OkIn(down, j)
                       /\ \A p \in Nat : UpTo(down, j, b, p) => UpTo(down', j, b + 1, p)
<1>1. down \in Seq(Frames) /\ down # <<>> /\ down' = Tail(down) /\ rd = "reading" /\ OneRes(down)
  BY FrameRead DEF TypeOK, WireTypes, Live, OneRequest
<1>2. restorer \notin {"restoring", "restoringOnly"}
  BY <1>1 DEF Live, Untouched
<1>3. \A j \in Ids : InFlight(j) <=> OkIn(down, j)
  BY <1>1 DEF InFlight, Handing
<1> QED
  BY <1>1, <1>2, <1>3, FrameTaken, StreamTaken

\* The frame is the result of the attempt in flight.
LEMMA ResultRead ==
    ASSUME TypeOK, Live, NextFrame({"ok", "refused"})
    PROVE  /\ pend \in Callers /\ Outstanding /\ ~ReqIn(up) /\ ~ResIn(down')
           /\ restorer = "resending" => resub
           /\ ~resub /\ ~canceled => call[pend] = "waiting" /\ result[pend] = NoMsg
           /\ \A j : ~OkIn(down', j)
           /\ \A j : OkIn(down, j) <=> IsOk(Head(down), j)
           /\ \A j : EventIn(down', j) <=> EventIn(down, j)
           /\ Head(down).type = "ok" => Head(down).id \in Ids
           /\ Head(down) \in Results
           /\ \A j : ~IsEvent(Head(down), j)
<1>1. IsRes(Head(down)) /\ (\A j : ~IsEvent(Head(down), j)) /\ Head(down) \in Results
      /\ (Head(down).type = "ok" => Head(down).id \in Ids)
  BY FrameRead DEF IsRes, IsEvent
<1>2. ResIn(down) /\ ~ResIn(down') /\ (\A j : EventIn(down', j) <=> EventIn(down, j))
      /\ \A j : OkIn(down, j) <=> OkIn(down', j) \/ IsOk(Head(down), j)
  BY <1>1, WireRead
<1>3. \A j : ~OkIn(down', j)
  BY <1>2, OkIsResult
<1>4. pend \in Callers /\ ~ReqIn(up) /\ (restorer = "resending" => resub)
      /\ (~resub /\ ~canceled => call[pend] = "waiting" /\ result[pend] = NoMsg)
  BY <1>2, Typed DEF Live, OneRequest, Outstanding, Initial
<1> QED
  BY <1>1, <1>2, <1>3, <1>4 DEF Outstanding

\* The server takes a request: a new ID is in flight and its stream begins at the cursor.
LEMMA LiveServerAnswers ==
    ASSUME TypeOK, TypeOK', Live, ~raced, ~done, ~raced', ~done', ServerAnswers
    PROVE  Live'
<1> DEFINE f == Head(up)
<1>1. /\ link = "up" /\ up # <<>> /\ up' = Tail(up) /\ f \in Requests /\ up \in Seq(Requests)
      /\ UNCHANGED <<cursorOn, link, conn, dialer, restorer, pend, resub, canceled, subOf,
                     byPattern, rd, rdSub, rdMsg, call, result, dropId, doneCh, got, chan, cursor>>
  BY RequestTaken DEF ServerAnswers, client, attempt, maps, reader, callVars, subVars, TypeOK,
     WireTypes
<1>2. ASSUME f.type = "subscribe",
             NEW i \in Ids, srv[i] = "free", srv' = [srv EXCEPT ![i] = "on"],
             pos' = [pos EXCEPT ![i] = IF cursorOn THEN f.after ELSE 0],
             down' = Append(down, [type |-> "ok", id |-> i])
      PROVE  Live'
  <2>1. /\ srv[i] = "free" /\ \A j \in Ids : srv'[j] = IF j = i THEN "on" ELSE srv[j]
        /\ pos'[i] = IF cursorOn THEN f.after ELSE 0
        /\ \A j \in Ids : j # i => pos'[j] = pos[j]
    BY <1>2 DEF TypeOK, WireTypes
  <2>2. /\ ReqIn(up) /\ ~ReqIn(up') /\ \A j : UnsubIn(up', j) <=> UnsubIn(up, j)
        /\ ~ResIn(down) /\ ResIn(down') /\ OneRes(down') /\ OneReq(up') /\ \A c : AfterIs(up', c)
        /\ \A j : OkIn(down', j) <=> j = i
        /\ \A j : ~OkIn(down, j)
        /\ \A j : EventIn(down', j) <=> EventIn(down, j)
        /\ rd \notin {"losing", "lost", "resuming", "failing", "none"} /\ restorer \notin {"restoring", "restoringOnly"}
        /\ pend \in Callers /\ f.after = cursor[pend]
    <3> DEFINE g == [type |-> "ok", id |-> i]
    <3>1. g \in Frames /\ down \in Seq(Frames) /\ down' = Append(down, g)
      BY <1>2 DEF Frames, Results, TypeOK, WireTypes
    <3>2. IsRes(g) /\ \A j : (IsOk(g, j) <=> j = i) /\ ~IsEvent(g, j)
      BY DEF IsRes, IsOk, IsEvent
    <3> HIDE DEF g
    <3>3. ReqIn(up) /\ OneReq(up) /\ ~ResIn(down) /\ pend \in Callers /\ AfterIs(up, cursor[pend])
      BY <1>1, <1>2, RequestTaken, Typed DEF Live, OneRequest, Outstanding
    <3>4. ~ReqIn(up') /\ f.after = cursor[pend] /\ \A j : UnsubIn(up', j) <=> UnsubIn(up, j)
      BY <1>1, <1>2, <3>3, RequestTaken
    <3>5. \A j : ~OkIn(down, j)
      BY <3>3, OkIsResult
    <3>6. rd \notin {"losing", "lost", "resuming", "failing", "none"} /\ restorer \notin {"restoring", "restoringOnly"}
      BY <1>1, <3>3 DEF Live, Phases, Untouched
    <3>7. OneRes(down)
      BY DEF Live, OneRequest
    <3>8. /\ ResIn(down') /\ OneRes(down') /\ \A j : OkIn(down', j) <=> j = i
          /\ \A j : EventIn(down', j) <=> EventIn(down, j)
      BY <3>1, <3>2, <3>3, <3>5, <3>7, FrameSent
    <3> HIDE DEF f
    <3> QED
      BY <3>3, <3>4, <3>5, <3>6, <3>8, NoRequest
  <2> HIDE DEF f
  <2>3. /\ Phases' /\ Attempts' /\ OneEntry' /\ Untouched' /\ OneRequest' /\ Handover' /\ Cursors'
        /\ NoGap'
    BY <2>1, <2>2, <1>1
    DEF Live, Phases, Attempts, OneEntry, Untouched, OneRequest, Handover, Cursors, NoGap, Initial,
        Outstanding, NoMsg, Sending, Early
  <2>4. IdsOnce'
    <3>1. \A j \in Ids : InFlight(j)' <=> InFlight(j) \/ j = i
      BY <1>1, <2>2 DEF InFlight, Handing
    <3>2. \A j \in Ids : Dropped(j)' <=> Dropped(j)
      BY <1>1, <2>2 DEF Dropped
    <3> QED
      BY <1>1, <2>1, <2>2, <3>1, <3>2 DEF Live, IdsOnce
  <2>5. Restorable'
    BY <2>1, <2>2, <1>1, Typed
    DEF Live, Restorable, IdsOnce, Outstanding, InFlight, Handing, Dropped
  <2>6. Streams'
    <3> SUFFICES ASSUME cursorOn', NEW j \in Ids, NEW x \in Callers, Bound(j, x)', ~doneCh'[x]
                 PROVE  /\ InOrder(down', j, Base(x)')
                        /\ srv'[j] = "on" => UpTo(down', j, Base(x)', pos'[j])
      BY DEF Streams
    <3>1. Base(x)' = Base(x) /\ Base(x) \in Nat /\ cursorOn /\ pos[j] \in Nat
      BY <1>1, Typed DEF Base, Sending
    <3>2. CASE j = i
      <4>1. x = pend /\ ~EventIn(down, i)
        BY <1>1, <2>1, <3>2, Typed DEF Bound, Live, IdsOnce
      <4>2. Base(x) = pos'[i]
        BY <4>1, <2>1, <2>2, <3>1 DEF Base, Live, Cursors
      <4> QED
        BY <3>1, <3>2, <4>1, <4>2, <2>2, StreamBegins
    <3>3. CASE j # i
      <4>1. Bound(j, x) /\ ~doneCh[x]
        BY <1>1, <2>2, <3>3 DEF Bound, InFlight, Handing
      <4>2. InOrder(down, j, Base(x)) /\ (srv[j] = "on" => UpTo(down, j, Base(x), pos[j]))
        BY <3>1, <4>1 DEF Live, Streams
      <4>3. [type |-> "ok", id |-> i] \in Frames /\ down \in Seq(Frames)
            /\ ~IsEvent([type |-> "ok", id |-> i], j) /\ ~IsOk([type |-> "ok", id |-> i], j)
        BY <3>3 DEF Frames, Results, TypeOK, WireTypes, IsEvent, IsOk
      <4>4. InOrder(down', j, Base(x)) /\ \A p \in Nat : UpTo(down, j, Base(x), p) => UpTo(down', j, Base(x), p)
        BY <1>2, <3>1, <4>2, <4>3, StreamSent
      <4> QED
        BY <2>1, <3>1, <3>3, <4>2, <4>4
    <3> QED
      BY <3>2, <3>3
  <2> QED
    BY <2>3, <2>4, <2>5, <2>6 DEF Live
<1>3. ASSUME f.type = "subscribe", down' = Append(down, [type |-> "refused"]), UNCHANGED <<srv, pos>>
      PROVE  Live'
  <2>1. /\ ReqIn(up) /\ ~ReqIn(up') /\ \A j : UnsubIn(up', j) <=> UnsubIn(up, j)
        /\ ~ResIn(down) /\ ResIn(down') /\ OneRes(down') /\ OneReq(up') /\ \A c : AfterIs(up', c)
        /\ \A j : OkIn(down', j) <=> OkIn(down, j)
        /\ \A j : EventIn(down', j) <=> EventIn(down, j)
        /\ rd \notin {"losing", "lost", "resuming", "failing", "none"} /\ restorer \notin {"restoring", "restoringOnly"}
        /\ pend \in Callers
    <3> DEFINE g == [type |-> "refused"]
    <3>1. g \in Frames /\ down \in Seq(Frames) /\ down' = Append(down, g)
      BY <1>3 DEF Frames, Results, TypeOK, WireTypes
    <3>2. IsRes(g) /\ \A j : ~IsOk(g, j) /\ ~IsEvent(g, j)
      BY DEF IsRes, IsOk, IsEvent
    <3> HIDE DEF g
    <3>3. ReqIn(up) /\ OneReq(up) /\ ~ResIn(down) /\ pend \in Callers
      BY <1>1, <1>3, RequestTaken, Typed DEF Live, OneRequest, Outstanding
    <3>4. ~ReqIn(up') /\ \A j : UnsubIn(up', j) <=> UnsubIn(up, j)
      BY <1>1, <1>3, <3>3, RequestTaken
    <3>5. rd \notin {"losing", "lost", "resuming", "failing", "none"} /\ restorer \notin {"restoring", "restoringOnly"}
      BY <1>1, <3>3 DEF Live, Phases, Untouched
    <3>6. OneRes(down)
      BY DEF Live, OneRequest
    <3> HIDE DEF f
    <3> QED
      BY <3>1, <3>2, <3>3, <3>4, <3>5, <3>6, FrameSent, NoRequest
  <2> HIDE DEF f
  <2>2. /\ Phases' /\ Attempts' /\ OneEntry' /\ Untouched' /\ OneRequest' /\ Handover'
        /\ Restorable' /\ Cursors' /\ NoGap'
    BY <2>1, <1>1, <1>3
    DEF Live, Phases, Attempts, OneEntry, Untouched, OneRequest, Handover, Restorable, Cursors,
        NoGap, Initial, Outstanding, NoMsg, Sending, Early
  <2>3. IdsOnce'
    <3>1. \A j \in Ids : InFlight(j)' <=> InFlight(j)
      BY <1>1, <2>1 DEF InFlight, Handing
    <3>2. \A j \in Ids : Dropped(j)' <=> Dropped(j)
      BY <1>1, <2>1 DEF Dropped
    <3> QED
      BY <1>1, <1>3, <2>1, <3>1, <3>2 DEF Live, IdsOnce
  <2>4. Streams'
    <3>1. [type |-> "refused"] \in Frames /\ down \in Seq(Frames)
          /\ \A j : ~IsEvent([type |-> "refused"], j) /\ ~IsOk([type |-> "refused"], j)
      BY DEF Frames, Results, TypeOK, WireTypes, IsEvent, IsOk
    <3>2. \A j \in Ids, x \in Callers : Bound(j, x)' <=> Bound(j, x)
      BY <1>1, <2>1 DEF Bound, InFlight, Handing
    <3>3. \A x \in Callers : Base(x)' = Base(x) /\ Base(x) \in Nat
      BY <1>1, Typed DEF Base, Sending
    <3>4. \A j \in Ids : \A b \in Nat : InOrder(down, j, b) =>
             InOrder(down', j, b) /\ \A p \in Nat : UpTo(down, j, b, p) => UpTo(down', j, b, p)
      BY <1>3, <3>1, StreamSent
    <3> QED
      BY <1>1, <1>3, <3>2, <3>3, <3>4, Typed DEF Live, Streams
  <2> QED
    BY <2>2, <2>3, <2>4 DEF Live
<1>4. ASSUME f.type = "unsubscribe", srv' = [srv EXCEPT ![f.id] = "off"], pos' = [pos EXCEPT ![f.id] = 0],
             UNCHANGED down
      PROVE  Live'
  <2>1. /\ f.id \in Ids /\ \A j \in Ids : srv'[j] = IF j = f.id THEN "off" ELSE srv[j]
        /\ \A j \in Ids : j # f.id => pos'[j] = pos[j]
    BY <1>1, <1>4 DEF TypeOK, WireTypes, Requests
  <2>2. /\ ReqIn(up') <=> ReqIn(up)
        /\ OneReq(up) => OneReq(up')
        /\ \A c : AfterIs(up, c) => AfterIs(up', c)
        /\ \A j : UnsubIn(up, j) <=> UnsubIn(up', j) \/ j = f.id
    BY <1>1, <1>4, RequestTaken
  <2>3. Dropped(f.id) /\ ~InFlight(f.id) /\ subOf[f.id] = NoOne
    BY <2>1, <2>2 DEF Dropped, Live, IdsOnce
  <2> HIDE DEF f
  <2>4. Phases' /\ Attempts' /\ OneEntry' /\ Untouched'
    BY <2>1, <2>2, <1>1, <1>4, Typed DEF Live, Phases, Attempts, OneEntry, Untouched, Initial
  <2>5. OneRequest' /\ Handover' /\ Cursors' /\ NoGap'
    BY <2>1, <2>2, <1>1, <1>4, Typed
    DEF Live, OneRequest, Handover, Cursors, NoGap, Outstanding, Initial, NoMsg, Sending, Early
  <2>6. IdsOnce'
    <3>1. \A j \in Ids : InFlight(j)' <=> InFlight(j)
      BY <1>1, <1>4 DEF InFlight, Handing
    <3>2. \A j \in Ids : Dropped(j)' => Dropped(j)
      BY <1>1, <2>2 DEF Dropped
    <3>3. \A j \in Ids : Dropped(j) /\ j # f.id => Dropped(j)'
      BY <1>1, <2>2 DEF Dropped
    <3> QED
      BY <1>1, <1>4, <2>1, <2>3, <3>1, <3>2, <3>3 DEF Live, IdsOnce
  <2>7. Restorable'
    BY <2>1, <2>2, <1>1, <1>4, <2>3 DEF Live, Restorable, Outstanding
  <2>8. Streams'
    <3>1. \A j \in Ids, x \in Callers : Bound(j, x)' <=> Bound(j, x)
      BY <1>1, <1>4 DEF Bound, InFlight, Handing
    <3>2. \A x \in Callers : Base(x)' = Base(x) /\ Base(x) \in Nat
      BY <1>1, Typed DEF Base, Sending
    <3> QED
      BY <1>1, <1>4, <2>1, <3>1, <3>2 DEF Live, Streams
  <2> QED
    BY <2>4, <2>5, <2>6, <2>7, <2>8 DEF Live
<1> QED
  BY <1>2, <1>3, <1>4 DEF ServerAnswers

\* The stream of one ID grows by its next event.
LEMMA LiveServerEvent ==
    ASSUME TypeOK, TypeOK', Live, ~raced, ~done, ~raced', ~done', NEW i \in Ids, ServerEvent(i)
    PROVE  Live'
<1>1. /\ link = "up" /\ srv[i] = "on" /\ down' = Append(down, [type |-> "event", id |-> i, seq |-> pos[i] + 1])
      /\ \A j \in Ids : pos'[j] = IF j = i THEN pos[i] + 1 ELSE pos[j]
      /\ UNCHANGED <<cursorOn, srv, link, up, conn, dialer, restorer, pend, resub, canceled, subOf,
                     byPattern, rd, rdSub, rdMsg, call, result, dropId, doneCh, got, chan, cursor>>
  BY DEF ServerEvent, client, attempt, maps, reader, callVars, subVars, TypeOK, WireTypes
<1>2. /\ ResIn(down') <=> ResIn(down)
      /\ OneRes(down) => OneRes(down')
      /\ \A j : OkIn(down', j) <=> OkIn(down, j)
      /\ \A j : EventIn(down', j) <=> EventIn(down, j) \/ j = i
      /\ rd \notin {"losing", "lost", "resuming", "failing", "none"} /\ restorer \notin {"restoring", "restoringOnly"}
  <2> DEFINE f == [type |-> "event", id |-> i, seq |-> pos[i] + 1]
  <2>1. f \in Frames /\ down \in Seq(Frames)
    BY Typed DEF Frames, TypeOK, WireTypes
  <2>2. ~IsRes(f) /\ \A j : ~IsOk(f, j) /\ (IsEvent(f, j) <=> j = i)
    BY DEF IsRes, IsOk, IsEvent
  <2>3. rd \notin {"losing", "lost", "resuming", "failing", "none"} /\ restorer \notin {"restoring", "restoringOnly"}
    BY <1>1 DEF Live, Phases, Untouched
  <2>4. down' = Append(down, f)
    BY <1>1
  <2> HIDE DEF f
  <2> QED
    BY <2>1, <2>2, <2>3, <2>4, FrameSent
<1>3. Phases' /\ Attempts' /\ OneEntry' /\ Untouched' /\ OneRequest'
  BY <1>1, <1>2, Typed
  DEF Live, Phases, Attempts, OneEntry, Untouched, OneRequest, Initial, Outstanding, NoMsg
<1>4. Handover' /\ IdsOnce' /\ Restorable' /\ Cursors' /\ NoGap'
  BY <1>1, <1>2, Typed
  DEF Live, Handover, IdsOnce, Restorable, Cursors, NoGap, Outstanding, NoMsg, InFlight, Handing,
      Dropped, Sending, Early
<1>5. Streams'
  <2>1. [type |-> "event", id |-> i, seq |-> pos[i] + 1] \in Frames /\ down \in Seq(Frames)
    BY Typed DEF Frames, TypeOK, WireTypes
  <2>2. \A j \in Ids, x \in Callers : Bound(j, x)' <=> Bound(j, x)
    BY <1>1, <1>2 DEF Bound, InFlight, Handing
  <2>3. \A x \in Callers : Base(x)' = Base(x) /\ Base(x) \in Nat
    BY <1>1, Typed DEF Base, Sending
  <2>4. \A j \in Ids : \A b \in Nat : InOrder(down, j, b) /\ j # i =>
           InOrder(down', j, b) /\ \A p \in Nat : UpTo(down, j, b, p) => UpTo(down', j, b, p)
    BY <1>1, <2>1, StreamSent DEF IsEvent, IsOk
  <2>5. \A b \in Nat : InOrder(down, i, b) /\ UpTo(down, i, b, pos[i]) =>
           InOrder(down', i, b) /\ UpTo(down', i, b, pos[i] + 1)
    BY <1>1, <2>1, StreamSent, Typed DEF IsEvent
  <2> SUFFICES ASSUME cursorOn', NEW j \in Ids, NEW x \in Callers, Bound(j, x)', ~doneCh'[x]
               PROVE  /\ InOrder(down', j, Base(x)')
                      /\ srv'[j] = "on" => UpTo(down', j, Base(x)', pos'[j])
    BY DEF Streams
  <2>6. /\ InOrder(down, j, Base(x)) /\ Base(x)' = Base(x) /\ Base(x) \in Nat /\ pos[j] \in Nat
        /\ srv[j] = "on" => UpTo(down, j, Base(x), pos[j])
    BY <1>1, <2>2, <2>3, Typed DEF Live, Streams
  <2>7. CASE j = i
    BY <1>1, <2>5, <2>6, <2>7
  <2>8. CASE j # i
    BY <1>1, <2>4, <2>6, <2>8
  <2> QED
    BY <2>7, <2>8
<1> QED
  BY <1>3, <1>4, <1>5 DEF Live

\* An error is in nobody's stream.
LEMMA LiveServerError ==
    ASSUME TypeOK, TypeOK', Live, ~raced, ~done, ~raced', ~done', NEW i \in Ids, ServerError(i)
    PROVE  Live'
<1>1. /\ link = "up" /\ srv[i] = "on" /\ down' = Append(down, [type |-> "error", id |-> i])
      /\ UNCHANGED <<cursorOn, srv, pos, link, up, conn, dialer, restorer, pend, resub, canceled,
                     subOf, byPattern, rd, rdSub, rdMsg, call, result, dropId, doneCh, got, chan,
                     cursor>>
  BY DEF ServerError, client, attempt, maps, reader, callVars, subVars
<1>2. /\ ResIn(down') <=> ResIn(down)
      /\ OneRes(down) => OneRes(down')
      /\ \A j : OkIn(down', j) <=> OkIn(down, j)
      /\ \A j : EventIn(down', j) <=> EventIn(down, j)
      /\ down' # <<>> /\ rd \notin {"losing", "lost", "resuming", "failing", "none"} /\ restorer \notin {"restoring", "restoringOnly"}
  <2>1. [type |-> "error", id |-> i] \in Frames /\ down \in Seq(Frames)
    BY DEF Frames, TypeOK, WireTypes
  <2>2. ~IsRes([type |-> "error", id |-> i]) /\ \A j : ~IsOk([type |-> "error", id |-> i], j)
        /\ ~IsEvent([type |-> "error", id |-> i], j)
    BY DEF IsRes, IsOk, IsEvent
  <2> QED
    BY <1>1, <2>1, <2>2, FrameSent DEF Live, Phases, Untouched
<1>3. /\ Phases' /\ Attempts' /\ OneEntry' /\ Untouched' /\ OneRequest' /\ Handover' /\ IdsOnce'
      /\ Restorable' /\ Cursors' /\ NoGap'
  BY <1>1, <1>2
  DEF Live, Phases, Attempts, OneEntry, Untouched, OneRequest, Handover, IdsOnce, Restorable,
      Cursors, NoGap, Initial, Outstanding, NoMsg, InFlight, Handing, Dropped, Sending, Early
<1>4. Streams'
  <2>1. [type |-> "error", id |-> i] \in Frames /\ down \in Seq(Frames)
    BY DEF Frames, TypeOK, WireTypes
  <2>2. \A j \in Ids, x \in Callers : Bound(j, x)' <=> Bound(j, x)
    BY <1>1, <1>2 DEF Bound, InFlight, Handing
  <2>3. \A x \in Callers : Base(x)' = Base(x) /\ Base(x) \in Nat
    BY <1>1, Typed DEF Base, Sending
  <2>4. \A j \in Ids : \A b \in Nat : InOrder(down, j, b) =>
           InOrder(down', j, b) /\ \A p \in Nat : UpTo(down, j, b, p) => UpTo(down', j, b, p)
    BY <1>1, <2>1, StreamSent DEF IsEvent, IsOk
  <2> QED
    BY <1>1, <2>2, <2>3, <2>4, Typed DEF Live, Streams
<1> QED
  BY <1>3, <1>4 DEF Live

\* The server forgets its subscriptions; what it sent may still be read.
LEMMA LiveConnectionBreaks ==
    ASSUME TypeOK, TypeOK', Live, ~raced, ~done, ~raced', ~done', ConnectionBreaks
    PROVE  Live'
<1>1. /\ rd \notin {"losing", "lost", "resuming", "failing", "none"}
      /\ link' = "cut" /\ up' = <<>> /\ \A i \in Ids : srv'[i] # "on" /\ (srv'[i] = "free" <=> srv[i] = "free")
      /\ UNCHANGED <<cursorOn, down, conn, dialer, restorer, pend, resub, canceled, subOf,
                     byPattern, rd, rdSub, rdMsg, call, result, dropId, doneCh, got, chan, cursor>>
  BY Typed DEF ConnectionBreaks, CutLink, client, attempt, maps, reader, callVars, subVars, TypeOK,
     WireTypes, Live, Phases
<1>2. Phases' /\ Attempts' /\ OneEntry' /\ Untouched' /\ OneRequest'
  BY <1>1, NothingSent, Typed
  DEF Live, Phases, Attempts, OneEntry, Untouched, OneRequest, Initial, Outstanding, NoMsg
<1>3. Handover' /\ IdsOnce' /\ Restorable' /\ Cursors' /\ Streams' /\ NoGap'
  BY <1>1, NothingSent, Typed
  DEF Live, Handover, IdsOnce, Restorable, Cursors, Streams, NoGap, Outstanding, NoMsg, InFlight,
      Handing, Dropped, Sending, Early, Base, Bound
<1> QED
  BY <1>2, <1>3 DEF Live

\* The reader is gone, so the connection is down.
LEMMA LiveConnect ==
    ASSUME TypeOK, TypeOK', Live, ~raced, ~done, ~raced', ~done', Connect
    PROVE  Live'
<1>1. /\ Phases' /\ Attempts' /\ OneEntry' /\ Untouched' /\ OneRequest' /\ Handover' /\ IdsOnce'
      /\ Restorable' /\ Cursors' /\ Streams' /\ NoGap'
  BY DEF Connect, wire, attempt, maps, reader, callVars, subVars, Live, Phases, Attempts, OneEntry,
         Untouched, OneRequest, Handover, IdsOnce, Restorable, Cursors, Streams, NoGap, Initial,
         Outstanding, NoMsg, InFlight, Handing, Dropped, Sending, Early, Base, Bound
<1> QED
  BY <1>1 DEF Live

\* Nothing but the dialer moves.
LEMMA LiveDialFails ==
    ASSUME TypeOK, TypeOK', Live, ~raced, ~done, ~raced', ~done', DialFails
    PROVE  Live'
<1>1. /\ Phases' /\ Attempts' /\ OneEntry' /\ Untouched' /\ OneRequest' /\ Handover' /\ IdsOnce'
      /\ Restorable' /\ Cursors' /\ Streams' /\ NoGap'
  BY DEF DialFails, wire, attempt, maps, reader, callVars, subVars, Live, Phases, Attempts,
         OneEntry, Untouched, OneRequest, Handover, IdsOnce, Restorable, Cursors, Streams, NoGap,
         Initial, Outstanding, NoMsg, InFlight, Handing, Dropped, Sending, Early, Base, Bound
<1> QED
  BY <1>1 DEF Live

\* Nothing but the dialer moves.
LEMMA LiveScheduleReconnect ==
    ASSUME TypeOK, TypeOK', Live, ~raced, ~done, ~raced', ~done', ScheduleReconnect
    PROVE  Live'
<1>1. /\ Phases' /\ Attempts' /\ OneEntry' /\ Untouched' /\ OneRequest' /\ Handover' /\ IdsOnce'
      /\ Restorable' /\ Cursors' /\ Streams' /\ NoGap'
  BY DEF ScheduleReconnect, wire, attempt, maps, reader, callVars, subVars, Live, Phases, Attempts,
         OneEntry, Untouched, OneRequest, Handover, IdsOnce, Restorable, Cursors, Streams, NoGap,
         Initial, Outstanding, NoMsg, InFlight, Handing, Dropped, Sending, Early, Base, Bound
<1> QED
  BY <1>1 DEF Live

\* A new connection has nothing on it, and no attempt is reserved but unsent.
LEMMA LiveConnected ==
    ASSUME TypeOK, TypeOK', Live, ~raced, ~done, ~raced', ~done', Connected
    PROVE  Live'
<1>1. /\ rd = "none" /\ rd' = "reading" /\ conn' /\ dialer' = "none"
      /\ restorer = "none" /\ restorer' \in {"restoring", "restoringOnly"}
      /\ link' = "up" /\ up' = <<>> /\ down' = <<>> /\ \A i \in Ids : srv[i] # "on"
      /\ \A x \in Callers : call[x] # "reserved"
      /\ UNCHANGED <<cursorOn, srv, pos, pend, resub, canceled, subOf, byPattern, rdSub, rdMsg,
                     call, result, dropId, doneCh, got, chan, cursor>>
  BY DEF Connected, attempt, maps, callVars, subVars, Live, Phases
<1>2. /\ Phases' /\ Attempts' /\ OneEntry' /\ OneRequest' /\ Handover' /\ IdsOnce' /\ Restorable'
      /\ Cursors' /\ Streams' /\ NoGap'
  BY <1>1, NothingSent, Typed
  DEF Live, Phases, Attempts, OneEntry, OneRequest, Handover, IdsOnce, Restorable, Cursors, Streams,
      NoGap, Initial, Outstanding, NoMsg, InFlight, Handing, Dropped, Sending, Early, Base, Bound
<1>3. Untouched'
  BY <1>1, NothingSent, Typed DEF Live, Untouched, Attempts
<1> QED
  BY <1>2, <1>3 DEF Live

\* What the maps hold is requested again at its cursor, unless an attempt is in flight.
LEMMA LiveResubscribe ==
    ASSUME TypeOK, TypeOK', Live, ~raced, ~done, ~raced', ~done', Resubscribe
    PROVE  Live'
<1>1. /\ restorer \in {"restoring", "restoringOnly"} /\ restorer' \in {"resending", "none"}
      /\ down = <<>> /\ ~ReqIn(up) /\ ~resub /\ rd \notin {"handing", "found", "sending", "erring"}
      /\ \A i \in Ids : srv[i] # "on"
      /\ UNCHANGED <<cursorOn, srv, pos, link, down, conn, dialer, subOf, byPattern, rd, rdSub,
                     rdMsg, call, result, dropId, doneCh, got, chan, cursor>>
  BY DEF Resubscribe, AfterRestore, wire, client, attempt, maps, reader, callVars, subVars, Live,
     Untouched
<1>2. CASE UNCHANGED <<up, attempt>>
  <2>1. /\ link = "up" => byPattern = 0
        /\ UNCHANGED <<up, pend, resub, canceled>>
    BY <1>1, <1>2, Typed DEF Resubscribe, Write, WriteFails, attempt, Live, Phases, OneEntry,
       Initial, Handover, Attempts
  <2>2. /\ Phases' /\ Attempts' /\ OneEntry' /\ Untouched' /\ OneRequest' /\ Handover' /\ Cursors'
        /\ NoGap'
    BY <2>1, <1>1, NothingSent
    DEF Live, Phases, Attempts, OneEntry, Untouched, OneRequest, Handover, Cursors, NoGap, Initial,
        Outstanding, NoMsg, Sending, Early
  <2>3. IdsOnce'
    <3>1. \A j \in Ids : (InFlight(j)' <=> InFlight(j)) /\ (Dropped(j)' <=> Dropped(j))
      BY <1>1, <2>1, Typed DEF InFlight, Handing, Dropped
    <3> QED
      BY <1>1, <2>1, <3>1 DEF Live, IdsOnce
  <2>4. Restorable'
    BY <2>1, <1>1, NothingSent, Typed DEF Live, Restorable, OneEntry, Outstanding, Initial
  <2>5. Streams'
    <3>1. \A j \in Ids, x \in Callers : Bound(j, x)' <=> Bound(j, x)
      BY <1>1, <2>1, Typed DEF Bound, InFlight, Handing
    <3>2. \A x \in Callers : Base(x)' = Base(x)
      BY <1>1, <2>1, Typed DEF Base, Sending
    <3> QED
      BY <1>1, <2>1, <3>1, <3>2 DEF Live, Streams
  <2> QED
    BY <2>2, <2>3, <2>4, <2>5 DEF Live
<1>3. ASSUME byPattern # 0, pend = NoOne, NEW i \in Ids, subOf[i] # NoOne,
             Write([type |-> "subscribe", after |-> cursor[subOf[i]]]),
             pend' = subOf[i], resub' = TRUE, canceled' = FALSE
      PROVE  Live'
  <2>1. /\ pend = NoOne /\ pend' \in Callers /\ resub' /\ ~canceled' /\ conn
        /\ subOf[byPattern] = pend' /\ byPattern = i
    BY <1>1, <1>3, Typed DEF Write, Live, OneEntry
  <2>2. /\ ReqIn(up') <=> link = "up"
        /\ OneReq(up') /\ AfterIs(up', cursor[pend']) /\ \A j : UnsubIn(up', j) <=> UnsubIn(up, j)
        /\ link # "up" => up' = up
    <3> DEFINE f == [type |-> "subscribe", after |-> cursor[subOf[i]]]
    <3>1. f \in Requests /\ up \in Seq(Requests)
      BY <1>3, Typed DEF Requests, TypeOK, WireTypes
    <3>2. f.type = "subscribe" /\ f.after = cursor[pend'] /\ up' = IF link = "up" THEN Append(up, f) ELSE up
      BY <1>3 DEF Write
    <3> HIDE DEF f
    <3> QED
      BY <1>1, <3>1, <3>2, RequestSent, NoRequest
  <2>3. /\ Phases' /\ OneEntry' /\ Untouched' /\ OneRequest' /\ Handover' /\ Restorable' /\ Cursors'
        /\ NoGap'
    BY <2>1, <1>1, <2>2, NothingSent
    DEF Live, Phases, OneEntry, Untouched, OneRequest, Handover, Restorable, Cursors, NoGap,
        Initial, Outstanding, NoMsg, Sending, Early
  <2>4. Attempts'
    BY <2>1, <1>1, <2>2, NothingSent, Typed DEF Live, Attempts, Phases
  <2>5. IdsOnce'
    <3>1. \A j \in Ids : (InFlight(j)' <=> InFlight(j)) /\ (Dropped(j)' <=> Dropped(j))
      BY <1>1, <2>1, <2>2, Typed DEF InFlight, Handing, Dropped
    <3> QED
      BY <1>1, <2>1, <2>2, <3>1 DEF Live, IdsOnce
  <2>6. Streams'
    <3>1. \A j \in Ids, x \in Callers : Bound(j, x)' <=> Bound(j, x)
      BY <1>1, <2>1, NothingSent, Typed DEF Bound, InFlight, Handing
    <3>2. \A x \in Callers : Base(x)' = Base(x)
      BY <1>1, <2>1, NothingSent, Typed DEF Base, Sending
    <3> QED
      BY <1>1, <2>1, NothingSent, <3>1, <3>2 DEF Live, Streams
  <2> QED
    BY <2>3, <2>4, <2>5, <2>6 DEF Live
<1> QED
  BY <1>2, <1>3 DEF Resubscribe

\* The attempt that waits is sent again; its result slot is empty, or that is a race.
LEMMA LiveResend ==
    ASSUME TypeOK, TypeOK', Live, ~raced, ~done, ~raced', ~done', Resend
    PROVE  Live'
<1>1. /\ restorer = "resending" /\ restorer' = "none" /\ rd # "handing" /\ (~resub => ~Outstanding)
      /\ UNCHANGED <<cursorOn, srv, pos, link, down, conn, dialer, subOf, byPattern, rd, rdSub,
                     rdMsg, call, dropId, doneCh, got, chan, cursor>>
  BY DEF Resend, wire, client, attempt, maps, reader, callVars, subVars, Live, OneRequest, Handover
<1>2. CASE pend = NoOne \/ resub
  <2>1. UNCHANGED <<up, pend, resub, canceled, result>>
    BY <1>2 DEF Resend, attempt
  <2>2. /\ Phases' /\ Attempts' /\ OneEntry' /\ Untouched' /\ OneRequest' /\ Handover'
        /\ Restorable' /\ Cursors' /\ NoGap'
    BY <2>1, <1>1
    DEF Live, Phases, Attempts, OneEntry, Untouched, OneRequest, Handover, Restorable, Cursors,
        NoGap, Initial, Outstanding, NoMsg, Sending, Early
  <2>3. IdsOnce'
    <3>1. \A j \in Ids : (InFlight(j)' <=> InFlight(j)) /\ (Dropped(j)' <=> Dropped(j))
      BY <1>1, <2>1, Typed DEF InFlight, Handing, Dropped
    <3> QED
      BY <1>1, <2>1, <3>1 DEF Live, IdsOnce
  <2>4. Streams'
    <3>1. \A j \in Ids, x \in Callers : Bound(j, x)' <=> Bound(j, x)
      BY <1>1, <2>1, Typed DEF Bound, InFlight, Handing
    <3>2. \A x \in Callers : Base(x)' = Base(x)
      BY <1>1, <2>1, Typed DEF Base, Sending
    <3> QED
      BY <1>1, <2>1, <3>1, <3>2 DEF Live, Streams
  <2> QED
    BY <2>2, <2>3, <2>4 DEF Live
<1>3. CASE pend # NoOne /\ ~resub /\ canceled
  <2>1. pend' = NoOne /\ ~resub' /\ ~canceled' /\ UNCHANGED <<up, result>>
    BY <1>3 DEF Resend, Complete
  <2>2. \A j : ~OkIn(down, j)
    BY <1>1, <1>3, OkIsResult DEF Outstanding
  <2>3. /\ Phases' /\ Attempts' /\ OneEntry' /\ Untouched' /\ OneRequest' /\ Handover'
        /\ Restorable' /\ Cursors' /\ NoGap'
    BY <2>1, <1>1, <1>3, <2>2, Typed
    DEF Live, Phases, Attempts, OneEntry, Untouched, OneRequest, Handover, Restorable, Cursors,
        NoGap, Initial, Outstanding, NoMsg, Sending, Early
  <2>4. IdsOnce'
    <3>1. \A j \in Ids : (InFlight(j)' <=> InFlight(j)) /\ (Dropped(j)' <=> Dropped(j))
      BY <1>1, <1>3, <2>1, <2>2, Typed DEF InFlight, Handing, Dropped
    <3> QED
      BY <1>1, <1>3, <2>1, <2>2, <3>1 DEF Live, IdsOnce
  <2>5. Streams'
    <3>1. \A j \in Ids, x \in Callers : Bound(j, x)' <=> Bound(j, x)
      BY <1>1, <1>3, <2>1, <2>2, Typed DEF Bound, InFlight, Handing
    <3>2. \A x \in Callers : Base(x)' = Base(x)
      BY <1>1, <1>3, <2>1, <2>2, Typed DEF Base, Sending
    <3> QED
      BY <1>1, <1>3, <2>1, <2>2, <3>1, <3>2 DEF Live, Streams
  <2> QED
    BY <2>3, <2>4, <2>5 DEF Live
<1>4. CASE pend # NoOne /\ ~resub /\ ~canceled
  <2>1. /\ pend \in Callers /\ call[pend] = "waiting" /\ ~ReqIn(up) /\ ~ResIn(down)
        /\ UNCHANGED <<pend, resub, canceled>>
    BY <1>1, <1>4, Typed DEF Resend, attempt, Live, Attempts, Handover, Outstanding
  <2>2. CASE Write([type |-> "subscribe", after |-> cursor[pend]]) /\ UNCHANGED result /\ result[pend] = NoMsg
    <3>1. /\ ReqIn(up') <=> link = "up"
          /\ OneReq(up') /\ AfterIs(up', cursor[pend]) /\ \A j : UnsubIn(up', j) <=> UnsubIn(up, j)
          /\ link # "up" => up' = up
      <4> DEFINE f == [type |-> "subscribe", after |-> cursor[pend]]
      <4>1. f \in Requests /\ up \in Seq(Requests)
        BY <2>1, Typed DEF Requests, TypeOK, WireTypes
      <4>2. f.type = "subscribe" /\ f.after = cursor[pend] /\ up' = IF link = "up" THEN Append(up, f) ELSE up
        BY <2>2 DEF Write
      <4> HIDE DEF f
      <4> QED
        BY <2>1, <4>1, <4>2, RequestSent, NoRequest
    <3>2. /\ Phases' /\ Attempts' /\ OneEntry' /\ Untouched' /\ OneRequest' /\ Handover'
          /\ Restorable' /\ Cursors' /\ NoGap'
      BY <1>1, <1>4, <2>1, <2>2, <3>1
      DEF Live, Phases, Attempts, OneEntry, Untouched, OneRequest, Handover, Restorable, Cursors,
          NoGap, Initial, Outstanding, NoMsg, Sending, Early
    <3>3. IdsOnce'
      <4>1. \A j \in Ids : (InFlight(j)' <=> InFlight(j)) /\ (Dropped(j)' <=> Dropped(j))
        BY <1>1, <2>1, <2>2, <3>1, Typed DEF InFlight, Handing, Dropped
      <4> QED
        BY <1>1, <2>1, <2>2, <3>1, <4>1 DEF Live, IdsOnce
    <3>4. Streams'
      <4>1. \A j \in Ids, x \in Callers : Bound(j, x)' <=> Bound(j, x)
        BY <1>1, <2>1, <2>2, Typed DEF Bound, InFlight, Handing
      <4>2. \A x \in Callers : Base(x)' = Base(x)
        BY <1>1, <2>1, <2>2, Typed DEF Base, Sending
      <4> QED
        BY <1>1, <2>1, <2>2, <4>1, <4>2 DEF Live, Streams
    <3> QED
      BY <3>2, <3>3, <3>4 DEF Live
  <2>3. CASE WriteFails /\ UNCHANGED up /\
             result' = IF result[pend] = NoMsg THEN [result EXCEPT ![pend] = [type |-> "refused"]] ELSE result
    <3>1. /\ result'[pend].type = "ok" => result'[pend] = result[pend]
          /\ \A x \in Callers : x # pend => result'[x] = result[x]
      BY <2>1, <2>3 DEF TypeOK, CallTypes
    <3>2. Phases' /\ Attempts' /\ OneEntry' /\ Untouched'
      BY <3>1, <1>1, <1>4, <2>1, <2>3, Typed
      DEF Live, Phases, Attempts, OneEntry, Untouched, Initial
    <3>3. OneRequest' /\ Handover'
      BY <3>1, <1>1, <1>4, <2>1, <2>3, Typed
      DEF Live, OneRequest, Handover, Outstanding, Initial, NoMsg
    <3>4. IdsOnce'
      <4>1. \A j \in Ids : (InFlight(j)' <=> InFlight(j)) /\ (Dropped(j)' <=> Dropped(j))
        BY <1>1, <2>1, <2>3, Typed DEF InFlight, Handing, Dropped
      <4> QED
        BY <1>1, <2>1, <2>3, <4>1 DEF Live, IdsOnce
    <3>5. Restorable' /\ Cursors' /\ NoGap'
      BY <3>1, <1>1, <1>4, <2>1, <2>3, Typed
      DEF Live, Restorable, Cursors, NoGap, Outstanding, Sending, Early
    <3>6. Streams'
      <4>1. \A j \in Ids, x \in Callers : Bound(j, x)' <=> Bound(j, x)
        BY <1>1, <2>1, <2>3, Typed DEF Bound, InFlight, Handing
      <4>2. \A x \in Callers : Base(x)' = Base(x)
        BY <1>1, <2>1, <2>3, Typed DEF Base, Sending
      <4> QED
        BY <1>1, <2>1, <2>3, <4>1, <4>2 DEF Live, Streams
    <3> QED
      BY <3>2, <3>3, <3>4, <3>5, <3>6 DEF Live
  <2> QED
    BY <1>4, <2>2, <2>3 DEF Resend
<1> QED
  BY <1>2, <1>3, <1>4

\* The ID of a canceled attempt is given back.
LEMMA LiveReadResultLate ==
    ASSUME TypeOK, TypeOK', Live, ~raced, ~done, ~raced', ~done', ReadResultLate
    PROVE  Live'
<1> DEFINE f == Head(down)
<1>1. /\ NextFrame({"ok", "refused"}) /\ rd = "reading"
      /\ pend \in Callers /\ ~resub /\ canceled /\ pend' = NoOne /\ ~resub' /\ ~canceled'
      /\ IF f.type = "ok" THEN WriteUnsubscribe(f.id) ELSE UNCHANGED up
      /\ UNCHANGED <<cursorOn, srv, pos, link, conn, dialer, restorer, subOf, byPattern, rd, rdSub,
                     rdMsg, call, result, dropId, doneCh, got, chan, cursor>>
  BY ResultRead, Typed DEF ReadResultLate, NextFrame, Complete, client, attempt, maps, reader,
     callVars, subVars
<1>2. /\ Outstanding /\ ~ReqIn(up) /\ ~ResIn(down') /\ OneRes(down') /\ restorer = "none"
      /\ \A j : ~OkIn(down', j)
      /\ \A j : OkIn(down, j) <=> IsOk(f, j)
      /\ \A j \in Ids : InFlight(j) <=> OkIn(down, j)
      /\ \A j : EventIn(down', j) <=> EventIn(down, j)
      /\ \A j : ~IsEvent(f, j)
  BY <1>1, ResultRead, WireRead DEF TypeOK, ClientTypes
<1>3. /\ ~ReqIn(up') /\ (\A j : UnsubIn(up', j) <=> UnsubIn(up, j) \/ (link = "up" /\ IsOk(f, j)))
      /\ OneReq(up') /\ (link # "up" => up' = up)
  <2>1. CASE f.type = "ok"
    <3>1. f.id \in Ids
      BY <1>1, <2>1, ResultRead
    <3> HIDE DEF f
    <3> QED
      BY <1>1, <1>2, <2>1, <3>1, UnsubscribeWritten, NoRequest DEF IsOk
  <2>2. CASE f.type # "ok"
    BY <1>1, <1>2, <2>2, NoRequest DEF IsOk
  <2> QED
    BY <2>1, <2>2
<1> HIDE DEF f
<1>4. /\ Phases' /\ Attempts' /\ OneEntry' /\ Untouched' /\ OneRequest' /\ Handover' /\ Restorable'
      /\ Cursors' /\ NoGap'
  BY <1>1, <1>2, <1>3, Typed
  DEF Live, Phases, Attempts, OneEntry, Untouched, OneRequest, Handover, Restorable, Cursors, NoGap,
      Initial, Outstanding, NoMsg, Sending, Early
<1>5. IdsOnce'
  <2>1. \A j \in Ids : ~InFlight(j)'
    BY <1>1, <1>2 DEF InFlight, Handing
  <2>2. \A j \in Ids : Dropped(j)' <=> Dropped(j) \/ (link = "up" /\ InFlight(j))
    BY <1>1, <1>2, <1>3 DEF Dropped
  <2> QED
    BY <1>1, <1>2, <2>1, <2>2 DEF Live, IdsOnce
<1>6. Streams'
  <2>1. \A j \in Ids, x \in Callers : Bound(j, x)' => Bound(j, x)
    BY <1>1, <1>2, Typed DEF Bound, InFlight, Handing
  <2>2. \A x \in Callers : Base(x)' = Base(x) /\ Base(x) \in Nat
    BY <1>1, <1>2, Typed DEF Base, Sending
  <2> QED
    BY <1>1, <1>2, <2>1, <2>2, WireRead, Typed DEF Live, Streams, f
<1> QED
  BY <1>4, <1>5, <1>6 DEF Live

\* The ID goes from the wire to the reader's hand.
LEMMA LiveReadResult ==
    ASSUME TypeOK, TypeOK', Live, ~raced, ~done, ~raced', ~done', ReadResult
    PROVE  Live'
<1> DEFINE f == Head(down)
<1>1. /\ NextFrame({"ok", "refused"}) /\ rd = "reading" /\ rd' = "handing" /\ rdSub' = pend /\ rdMsg' = f
      /\ pend \in Callers /\ ~resub /\ ~canceled /\ call[pend] = "waiting"
      /\ \A x \in Callers : result'[x] = IF x = pend THEN f ELSE result[x]
      /\ UNCHANGED <<cursorOn, srv, pos, link, up, conn, dialer, restorer, pend, resub, canceled,
                     subOf, byPattern, call, dropId, doneCh, got, chan, cursor>>
  BY ResultRead, Typed DEF ReadResult, NextFrame, client, attempt, maps, reader, callVars, subVars,
     TypeOK, CallTypes
<1>2. /\ Outstanding /\ ~ReqIn(up) /\ ~ResIn(down') /\ OneRes(down') /\ restorer = "none"
      /\ \A j : ~OkIn(down', j)
      /\ \A j : OkIn(down, j) <=> IsOk(f, j)
      /\ \A j \in Ids : InFlight(j) <=> OkIn(down, j)
      /\ \A j : EventIn(down', j) <=> EventIn(down, j)
      /\ \A j : ~IsEvent(f, j)
  BY <1>1, ResultRead, WireRead DEF TypeOK, ClientTypes
<1> HIDE DEF f
<1>3. \A j \in Ids : InFlight(j)' <=> InFlight(j)
  BY <1>1, <1>2 DEF InFlight, Handing
<1>4. /\ Phases' /\ Attempts' /\ OneEntry' /\ Untouched' /\ OneRequest' /\ Handover' /\ Restorable'
      /\ Cursors' /\ NoGap'
  BY <1>1, <1>2
  DEF Live, Phases, Attempts, OneEntry, Untouched, OneRequest, Handover, Restorable, Cursors, NoGap,
      Initial, Outstanding, NoMsg, Sending, Early
<1>5. IdsOnce'
  <2>1. \A j \in Ids : Dropped(j)' <=> Dropped(j)
    BY <1>1 DEF Dropped
  <2> QED
    BY <1>1, <1>2, <1>3, <2>1 DEF Live, IdsOnce
<1>6. Streams'
  <2>1. \A j \in Ids, x \in Callers : Bound(j, x)' => Bound(j, x)
    BY <1>1, <1>3 DEF Bound
  <2>2. \A x \in Callers : Base(x)' = Base(x) /\ Base(x) \in Nat
    BY <1>1, Typed DEF Base, Sending
  <2> QED
    BY <1>1, <1>2, <2>1, <2>2, WireRead, Typed DEF Live, Streams, f
<1> QED
  BY <1>4, <1>5, <1>6 DEF Live

\* The ID was installed, or the attempt was canceled meanwhile and it is given back.
LEMMA LiveHandedOver ==
    ASSUME TypeOK, TypeOK', Live, ~raced, ~done, ~raced', ~done', HandedOver
    PROVE  Live'
<1>1. /\ rd = "handing" /\ rd' = "reading" /\ rdSub \in Callers /\ restorer = "none"
      /\ UNCHANGED <<cursorOn, srv, pos, link, down, conn, dialer, restorer, subOf, byPattern,
                     call, result, dropId, doneCh, got, chan, cursor>>
  BY Typed DEF HandedOver, Idle, client, attempt, maps, reader, callVars, subVars, Live, Handover
<1>2. CASE pend # rdSub
  <2>1. UNCHANGED <<up, pend, resub, canceled>>
    BY <1>2 DEF HandedOver, attempt
  <2>2. /\ Phases' /\ Attempts' /\ OneEntry' /\ Untouched' /\ OneRequest' /\ Restorable' /\ Cursors'
        /\ NoGap'
    BY <2>1, <1>1, <1>2
    DEF Live, Phases, Attempts, OneEntry, Untouched, OneRequest, Restorable, Cursors, NoGap,
        Initial, Outstanding, NoMsg, Sending, Early
  <2>3. Handover'
    BY <2>1, <1>1, <1>2, Typed DEF Live, Handover, Attempts, Outstanding, NoMsg
  <2>4. IdsOnce'
    <3>1. \A j \in Ids : (InFlight(j)' <=> InFlight(j)) /\ (Dropped(j)' <=> Dropped(j))
      BY <1>1, <1>2, <2>1, Typed DEF InFlight, Handing, Dropped
    <3> QED
      BY <1>1, <1>2, <2>1, <3>1 DEF Live, IdsOnce
  <2>5. Streams'
    <3>1. \A j \in Ids, x \in Callers : Bound(j, x)' <=> Bound(j, x)
      BY <1>1, <1>2, <2>1, Typed DEF Bound, InFlight, Handing
    <3>2. \A x \in Callers : Base(x)' = Base(x)
      BY <1>1, <1>2, <2>1, Typed DEF Base, Sending
    <3> QED
      BY <1>1, <1>2, <2>1, <3>1, <3>2 DEF Live, Streams
  <2> QED
    BY <2>2, <2>3, <2>4, <2>5 DEF Live
<1>3. CASE pend = rdSub
  <2>1. /\ pend' = NoOne /\ ~resub' /\ ~canceled' /\ canceled /\ ~resub /\ ~Outstanding
        /\ IF rdMsg.type = "ok" THEN WriteUnsubscribe(rdMsg.id) ELSE UNCHANGED up
    BY <1>1, <1>3 DEF HandedOver, Complete, Live, Handover
  <2>2. /\ ~ReqIn(up) /\ ~ResIn(down) /\ (\A j : ~OkIn(down, j))
        /\ \A j \in Ids : InFlight(j) <=> IsOk(rdMsg, j)
        /\ ~ReqIn(up') /\ (\A j : UnsubIn(up', j) <=> UnsubIn(up, j) \/ (link = "up" /\ IsOk(rdMsg, j)))
        /\ OneReq(up') /\ (link # "up" => up' = up)
    <3>1. ~ReqIn(up) /\ ~ResIn(down) /\ \A j : ~OkIn(down, j)
      BY <2>1, OkIsResult DEF Outstanding
    <3>2. \A j \in Ids : InFlight(j) <=> IsOk(rdMsg, j)
      BY <1>1, <1>3, <2>1, <3>1 DEF InFlight, Handing, Live, Attempts
    <3>3. CASE rdMsg.type = "ok"
      <4>1. rdMsg.id \in Ids
        BY <1>1, <3>3 DEF TypeOK, ReaderTypes, Results
      <4> QED
        BY <2>1, <3>1, <3>2, <3>3, <4>1, UnsubscribeWritten, NoRequest DEF IsOk
    <3>4. CASE rdMsg.type # "ok"
      BY <2>1, <3>1, <3>2, <3>4, NoRequest DEF IsOk
    <3> QED
      BY <3>3, <3>4
  <2>3. /\ Phases' /\ Attempts' /\ OneEntry' /\ Untouched' /\ OneRequest' /\ Restorable' /\ Cursors'
        /\ NoGap'
    BY <2>1, <1>1, <1>3, <2>2, Typed
    DEF Live, Phases, Attempts, OneEntry, Untouched, OneRequest, Restorable, Cursors, NoGap,
        Initial, Outstanding, NoMsg, Sending, Early
  <2>4. Handover'
    BY <2>1, <1>1, <1>3, <2>2, Typed DEF Live, Handover, Attempts, Outstanding, NoMsg
  <2>5. IdsOnce'
    <3>1. \A j \in Ids : ~InFlight(j)'
      BY <1>1, <2>2 DEF InFlight, Handing
    <3>2. \A j \in Ids : Dropped(j)' <=> Dropped(j) \/ (link = "up" /\ InFlight(j))
      BY <1>1, <2>2 DEF Dropped
    <3> QED
      BY <1>1, <3>1, <3>2 DEF Live, IdsOnce
  <2>6. Streams'
    <3>1. \A j \in Ids, x \in Callers : Bound(j, x)' => Bound(j, x)
      BY <1>1, <2>1, Typed DEF Bound
    <3>2. \A x \in Callers : Base(x)' = Base(x)
      BY <1>1, Typed DEF Base, Sending
    <3> QED
      BY <1>1, <3>1, <3>2 DEF Live, Streams
  <2> QED
    BY <2>3, <2>4, <2>5, <2>6 DEF Live
<1> QED
  BY <1>2, <1>3

\* The restored subscription changes its ID and keeps its stream.
LEMMA LiveReadRebind ==
    ASSUME TypeOK, TypeOK', Live, ~raced, ~done, ~raced', ~done', ReadRebind
    PROVE  Live'
<1> DEFINE f == Head(down)
<1>1. /\ NextFrame({"ok", "refused"}) /\ rd = "reading" /\ pend \in Callers /\ resub
      /\ pend' = NoOne /\ ~resub' /\ ~canceled' /\ byPattern \in Ids \cup {0}
      /\ byPattern # 0 => subOf[byPattern] = pend
      /\ UNCHANGED <<cursorOn, srv, pos, link, conn, dialer, restorer, rd, rdSub, rdMsg, call,
                     result, dropId, got, chan, cursor>>
  BY Typed DEF ReadRebind, NextFrame, Complete, client, attempt, maps, reader, callVars, subVars,
     Live, OneEntry
<1>2. /\ Outstanding /\ ~ReqIn(up) /\ ~ResIn(down') /\ OneRes(down')
      /\ restorer \notin {"restoring", "restoringOnly"}
      /\ \A j : ~OkIn(down', j)
      /\ \A j : OkIn(down, j) <=> IsOk(f, j)
      /\ \A j \in Ids : InFlight(j) <=> OkIn(down, j)
      /\ \A j : EventIn(down', j) <=> EventIn(down, j)
      /\ \A j : ~IsEvent(f, j)
      /\ f.type = "ok" => f.id \in Ids
      /\ f.type \in {"ok", "refused"}
      /\ \A j \in Ids : subOf[j] # NoOne => j = byPattern /\ srv[j] # "on"
  <2>1. \A j \in Ids : subOf[j] # NoOne => j = byPattern /\ srv[j] # "on"
    BY <1>1 DEF Live, OneEntry, Restorable
  <2> QED
    BY <1>1, <2>1, ResultRead, WireRead, FrameRead
<1>3. \A j \in Ids : ~InFlight(j)'
  BY <1>1, <1>2 DEF InFlight, Handing
<1>4. CASE f.type = "ok" /\ byPattern # 0
  <2>1. /\ f.id \in Ids /\ f.id # byPattern /\ UNCHANGED <<up, doneCh>>
        /\ byPattern' = f.id /\ byPattern \in Ids
        /\ \A j \in Ids : subOf'[j] = IF j = f.id THEN pend ELSE NoOne
        /\ subOf[f.id] = NoOne /\ ~Dropped(f.id) /\ srv[f.id] # "free" /\ (link = "up" => srv[f.id] = "on")
    <3>1. f.id \in Ids /\ InFlight(f.id)
      BY <1>4, <1>2 DEF IsOk
    <3>2. /\ subOf[f.id] = NoOne /\ ~Dropped(f.id) /\ srv[f.id] # "free" /\ (link = "up" => srv[f.id] = "on")
          /\ f.id # byPattern /\ byPattern \in Ids
      BY <1>1, <1>4, <3>1, Typed DEF Live, IdsOnce
    <3>3. Rebind(f.id) /\ UNCHANGED <<up, doneCh>>
      BY <1>1, <1>4 DEF ReadRebind
    <3> HIDE DEF f
    <3> QED
      BY <1>1, <1>2, <3>1, <3>2, <3>3 DEF Rebind, TypeOK, AttemptTypes
  <2> HIDE DEF f
  <2>2. Phases' /\ Attempts' /\ OneEntry' /\ Untouched'
    BY <2>1, <1>1, <1>2, <1>3, Typed DEF Live, Phases, Attempts, OneEntry, Untouched, Initial
  <2>3. OneRequest' /\ Handover' /\ Restorable' /\ Cursors' /\ NoGap'
    BY <2>1, <1>1, <1>2, <1>3, Typed
    DEF Live, OneRequest, Handover, Restorable, Cursors, NoGap, Outstanding, Initial, NoMsg,
        Sending, Early
  <2>4. IdsOnce'
    <3>1. \A j \in Ids : Dropped(j)' <=> Dropped(j)
      BY <1>1, <2>1 DEF Dropped
    <3>2. \A j \in Ids : InFlight(j) <=> j = f.id
      BY <1>4, <1>2, <2>1 DEF IsOk
    <3> QED
      BY <1>1, <1>2, <1>3, <2>1, <3>1, <3>2, Typed DEF Live, IdsOnce
  <2>5. Streams'
    <3>1. \A j \in Ids, x \in Callers : Bound(j, x)' => Bound(j, x)
      BY <1>1, <1>4, <1>2, <1>3, <2>1, Typed DEF Bound, IsOk
    <3>2. \A x \in Callers : Base(x)' = Base(x) /\ Base(x) \in Nat
      BY <1>1, Typed DEF Base, Sending
    <3> QED
      BY <1>1, <1>2, <2>1, <3>1, <3>2, WireRead, Typed DEF Live, Streams, f
  <2> QED
    BY <2>2, <2>3, <2>4, <2>5 DEF Live
<1>5. CASE f.type = "ok" /\ byPattern = 0
  <2>1. /\ WriteUnsubscribe(f.id) /\ f.id \in Ids
        /\ UNCHANGED <<subOf, byPattern, doneCh>>
    BY <1>1, <1>5, <1>2 DEF ReadRebind, maps
  <2> HIDE DEF f
  <2>2. /\ ~ReqIn(up') /\ (\A j : UnsubIn(up', j) <=> UnsubIn(up, j) \/ (link = "up" /\ IsOk(f, j)))
        /\ OneReq(up') /\ (link # "up" => up' = up)
    BY <1>5, <1>2, <2>1, UnsubscribeWritten, NoRequest DEF IsOk
  <2>3. /\ Phases' /\ Attempts' /\ OneEntry' /\ Untouched' /\ OneRequest' /\ Handover'
        /\ Restorable' /\ Cursors' /\ NoGap'
    BY <2>1, <1>1, <1>2, <1>3, <1>5, <2>2, Typed
    DEF Live, Phases, Attempts, OneEntry, Untouched, OneRequest, Handover, Restorable, Cursors,
        NoGap, Initial, Outstanding, NoMsg, Sending, Early
  <2>4. IdsOnce'
    <3>1. \A j \in Ids : Dropped(j)' <=> Dropped(j) \/ (link = "up" /\ InFlight(j))
      BY <1>1, <1>2, <2>2 DEF Dropped
    <3> QED
      BY <1>1, <1>2, <1>3, <2>1, <3>1 DEF Live, IdsOnce
  <2>5. Streams'
    <3>1. \A j \in Ids, x \in Callers : Bound(j, x)' => Bound(j, x)
      BY <1>1, <1>3, <2>1 DEF Bound
    <3>2. \A x \in Callers : Base(x)' = Base(x) /\ Base(x) \in Nat
      BY <1>1, Typed DEF Base, Sending
    <3> QED
      BY <1>1, <1>2, <2>1, <3>1, <3>2, WireRead, Typed DEF Live, Streams, f
  <2> QED
    BY <2>3, <2>4, <2>5 DEF Live
<1>6. CASE f.type = "refused"
  <2>1. /\ byPattern' = 0 /\ UNCHANGED up
        /\ \A j \in Ids : subOf'[j] = NoOne
        /\ \A x \in Callers : ~doneCh'[x] => ~doneCh[x]
    <3>1. CASE byPattern # 0
      <4>1. /\ subOf' = [subOf EXCEPT ![byPattern] = NoOne] /\ byPattern' = 0
            /\ doneCh' = [doneCh EXCEPT ![pend] = TRUE] /\ UNCHANGED up
        BY <1>1, <1>6, <3>1 DEF ReadRebind
      <4> QED
        BY <1>1, <1>2, <3>1, <4>1 DEF TypeOK, AttemptTypes, SubTypes
    <3>2. CASE byPattern = 0
      <4>1. UNCHANGED <<subOf, byPattern, doneCh, up>>
        BY <1>6, <3>2 DEF ReadRebind, maps
      <4>2. \A j \in Ids : j # 0
        BY Typed
      <4> QED
        BY <1>2, <3>2, <4>1, <4>2
    <3> QED
      BY <3>1, <3>2
  <2>2. \A j : ~OkIn(down, j)
    BY <1>6, <1>2 DEF IsOk
  <2> HIDE DEF f
  <2>3. /\ Phases' /\ Attempts' /\ OneEntry' /\ Untouched' /\ OneRequest' /\ Handover'
        /\ Restorable' /\ Cursors' /\ NoGap'
    BY <2>1, <1>1, <1>2, <1>3, <1>6, Typed
    DEF Live, Phases, Attempts, OneEntry, Untouched, OneRequest, Handover, Restorable, Cursors,
        NoGap, Initial, Outstanding, NoMsg, Sending, Early
  <2>4. IdsOnce'
    <3>1. \A j \in Ids : Dropped(j)' <=> Dropped(j)
      BY <1>1, <2>1 DEF Dropped
    <3> QED
      BY <1>1, <1>2, <1>3, <2>1, <2>2, <3>1 DEF Live, IdsOnce
  <2>5. Streams'
    <3> QED
      BY <1>3, <2>1, Typed DEF Streams, Bound
  <2> QED
    BY <2>3, <2>4, <2>5 DEF Live
<1> QED
  BY <1>4, <1>5, <1>6, <1>2

\* The event the reader takes is the next one of its subscription.
LEMMA LiveReadEvent ==
    ASSUME TypeOK, TypeOK', Live, ~raced, ~done, ~raced', ~done', ReadEvent
    PROVE  Live'
<1> DEFINE f == Head(down)
           k == subOf[f.id]
<1>1. /\ NextFrame({"event"}) /\ rd = "reading" /\ f.id \in Ids /\ restorer \notin {"restoring", "restoringOnly"}
      /\ (ResIn(down') <=> ResIn(down)) /\ OneRes(down')
      /\ \A j : OkIn(down', j) <=> OkIn(down, j)
      /\ \A j : EventIn(down', j) => EventIn(down, j)
      /\ EventIn(down, f.id)
      /\ \A j : IsEvent(f, j) <=> j = f.id
      /\ UNCHANGED <<cursorOn, srv, pos, link, up, conn, dialer, restorer, pend, resub, canceled,
                     subOf, byPattern, call, result, dropId, doneCh, got, chan, cursor>>
  <2>1. /\ NextFrame({"event"}) /\ rd = "reading"
        /\ UNCHANGED <<cursorOn, srv, pos, link, up, conn, dialer, restorer, pend, resub, canceled,
                       subOf, byPattern, call, result, dropId, doneCh, got, chan, cursor>>
    BY DEF ReadEvent, NextFrame, client, attempt, maps, reader, callVars, subVars
  <2>2. ~IsRes(f) /\ f.id \in Ids /\ \A j : ~IsOk(f, j) /\ (IsEvent(f, j) <=> j = f.id)
    BY <2>1, FrameRead DEF IsRes, IsOk, IsEvent
  <2>3. /\ restorer \notin {"restoring", "restoringOnly"}
        /\ (ResIn(down') <=> ResIn(down)) /\ OneRes(down')
        /\ \A j : OkIn(down', j) <=> OkIn(down, j)
        /\ \A j : EventIn(down', j) => EventIn(down, j)
        /\ EventIn(down, f.id)
    BY <2>1, <2>2, WireRead
  <2> QED
    BY <2>1, <2>2, <2>3
<1>2. CASE k = NoOne
  <2>1. UNCHANGED <<rd, rdSub, rdMsg>>
    BY <1>2 DEF ReadEvent, reader
  <2>2. /\ Phases' /\ Attempts' /\ OneEntry' /\ Untouched' /\ OneRequest' /\ Handover'
        /\ Restorable' /\ Cursors' /\ NoGap'
    BY <2>1, <1>1
    DEF Live, Phases, Attempts, OneEntry, Untouched, OneRequest, Handover, Restorable, Cursors,
        NoGap, Initial, Outstanding, NoMsg, Sending, Early
  <2>3. IdsOnce'
    <3>1. \A j \in Ids : (InFlight(j)' <=> InFlight(j)) /\ (Dropped(j)' <=> Dropped(j))
      BY <1>1, <2>1, Typed DEF InFlight, Handing, Dropped
    <3> QED
      BY <1>1, <2>1, <3>1 DEF Live, IdsOnce
  <2>4. Streams'
    <3> SUFFICES ASSUME cursorOn', NEW j \in Ids, NEW x \in Callers, Bound(j, x)', ~doneCh'[x]
                 PROVE  /\ InOrder(down', j, Base(x)')
                        /\ srv'[j] = "on" => UpTo(down', j, Base(x)', pos'[j])
      BY DEF Streams
    <3>1. Base(x)' = Base(x) /\ Base(x) \in Nat /\ cursorOn /\ ~doneCh[x] /\ pos[j] \in Nat
      BY <1>1, <2>1, Typed DEF Base, Sending
    <3>2. Bound(j, x)
      BY <1>1, <2>1, Typed DEF Bound, InFlight, Handing
    <3>3. InOrder(down, j, Base(x)) /\ (srv[j] = "on" => UpTo(down, j, Base(x), pos[j]))
      BY <3>1, <3>2 DEF Live, Streams
    <3>4. ~IsEvent(f, j)
      <4>1. subOf[j] = x => j # f.id
        BY <1>2, Typed
      <4>2. subOf[j] # x => OkIn(down, j)
        BY <1>1, <3>2, WireRead DEF Bound
      <4> QED
        BY <1>1, <3>1, <3>3, <4>1, <4>2, WireRead
    <3> QED
      BY <1>1, <3>1, <3>3, <3>4, WireRead
  <2> QED
    BY <2>2, <2>3, <2>4 DEF Live
<1>3. CASE k # NoOne
  <2>1. /\ k \in Callers /\ rd' = "found" /\ rdSub' = k /\ rdMsg' = f
        /\ byPattern = f.id /\ pend # k /\ call[k] \notin Early
    <3>1. k \in Callers /\ rd' = "found" /\ rdSub' = k /\ rdMsg' = f
      BY <1>1, <1>3, Typed DEF ReadEvent
    <3>2. byPattern = f.id /\ byPattern # 0 /\ call[k] \notin Early
      BY <1>1, <1>3, <3>1, Typed DEF Live, OneEntry, Cursors
    <3>3. ~resub
      BY <1>1, <1>3 DEF Live, Restorable
    <3>4. pend # k
      BY <1>1, <3>1, <3>2, <3>3, Typed DEF Live, OneEntry, Initial, Handover
    <3> QED
      BY <3>1, <3>2, <3>4
  <2>2. /\ Phases' /\ Attempts' /\ OneEntry' /\ Untouched' /\ OneRequest' /\ Handover'
        /\ Restorable' /\ NoGap'
    BY <2>1, <1>1
    DEF Live, Phases, Attempts, OneEntry, Untouched, OneRequest, Handover, Restorable, NoGap,
        Initial, Outstanding, NoMsg
  <2>3. IdsOnce'
    <3>1. \A j \in Ids : (InFlight(j)' <=> InFlight(j)) /\ (Dropped(j)' <=> Dropped(j))
      BY <1>1, <2>1, Typed DEF InFlight, Handing, Dropped
    <3> QED
      BY <1>1, <2>1, <3>1 DEF Live, IdsOnce
  <2>4. Cursors'
    <3>1. cursorOn /\ ~doneCh[k] => f.seq = cursor[k] + 1
      <4> SUFFICES ASSUME cursorOn, ~doneCh[k] PROVE f.seq = cursor[k] + 1
        OBVIOUS
      <4>1. Base(k) = cursor[k] /\ Base(k) \in Nat
        BY <1>1, <2>1, Typed DEF Base, Sending
      <4>2. InOrder(down, f.id, Base(k))
        BY <1>1, <2>1 DEF Bound, Live, Streams
      <4> QED
        BY <1>1, <4>1, <4>2, WireRead
    <3> HIDE DEF f, k
    <3> QED
      BY <1>1, <2>1, <3>1 DEF Live, Cursors, Sending
  <2>5. Streams'
    <3> SUFFICES ASSUME cursorOn', NEW j \in Ids, NEW x \in Callers, Bound(j, x)', ~doneCh'[x]
                 PROVE  /\ InOrder(down', j, Base(x)')
                        /\ srv'[j] = "on" => UpTo(down', j, Base(x)', pos'[j])
      BY DEF Streams
    <3>1. /\ Base(x) = cursor[x] /\ Base(x) \in Nat /\ cursorOn /\ ~doneCh[x] /\ pos[j] \in Nat
          /\ Base(x)' = IF x = k THEN Base(x) + 1 ELSE Base(x)
      BY <1>1, <2>1, Typed DEF Base, Sending
    <3>2. Bound(j, x)
      BY <1>1, <2>1, Typed DEF Bound, InFlight, Handing
    <3>3. InOrder(down, j, Base(x)) /\ (srv[j] = "on" => UpTo(down, j, Base(x), pos[j]))
      BY <3>1, <3>2 DEF Live, Streams
    <3>4. j = f.id <=> x = k
      <4>1. CASE subOf[j] = x
        BY <1>1, <2>1, <4>1, Typed DEF Live, OneEntry
      <4>2. CASE subOf[j] # x
        BY <1>1, <2>1, <3>2, <4>2, Typed DEF Bound, Live, IdsOnce
      <4> QED
        BY <4>1, <4>2
    <3>5. CASE j = f.id
      BY <1>1, <3>1, <3>3, <3>4, <3>5, WireRead
    <3>6. CASE j # f.id
      BY <1>1, <3>1, <3>3, <3>4, <3>6, WireRead
    <3> QED
      BY <3>5, <3>6
  <2> QED
    BY <2>2, <2>3, <2>4, <2>5 DEF Live
<1> QED
  BY <1>2, <1>3

\* The event stays in the reader's hand.
LEMMA LiveLockChannel ==
    ASSUME TypeOK, TypeOK', Live, ~raced, ~done, ~raced', ~done', LockChannel
    PROVE  Live'
<1>1. /\ Phases' /\ Attempts' /\ OneEntry' /\ Untouched' /\ OneRequest' /\ Handover' /\ IdsOnce'
      /\ Restorable' /\ Cursors' /\ Streams' /\ NoGap'
  BY DEF LockChannel, wire, client, attempt, maps, callVars, subVars, Live, Phases, Attempts,
         OneEntry, Untouched, OneRequest, Handover, IdsOnce, Restorable, Cursors, Streams, NoGap,
         Initial, Outstanding, NoMsg, InFlight, Handing, Dropped, Sending, Early, Base, Bound
<1> QED
  BY <1>1 DEF Live

\* The cursor follows the event, and so does the log in the channel.
LEMMA LiveDeliver ==
    ASSUME TypeOK, TypeOK', Live, ~raced, ~done, ~raced', ~done', Deliver
    PROVE  Live'
<1>1. /\ rd = "sending" /\ rdSub \in Callers /\ rd' = "reading"
      /\ \A x \in Callers : /\ chan'[x] = IF x = rdSub THEN Append(chan[x], rdMsg.seq) ELSE chan[x]
                            /\ cursor'[x] = IF cursorOn /\ x = rdSub THEN rdMsg.seq ELSE cursor[x]
      /\ UNCHANGED <<cursorOn, srv, pos, link, up, down, conn, dialer, restorer, pend, resub,
                     canceled, subOf, byPattern, call, result, dropId, doneCh, got>>
  BY Typed DEF Deliver, Idle, wire, client, attempt, maps, callVars, TypeOK, SubTypes
<1>2. /\ Phases' /\ Attempts' /\ OneEntry' /\ Untouched' /\ Handover' /\ IdsOnce' /\ Restorable'
      /\ Cursors'
  BY <1>1
  DEF Live, Phases, Attempts, OneEntry, Untouched, Handover, IdsOnce, Restorable, Cursors, Initial,
      Outstanding, NoMsg, InFlight, Handing, Dropped, Sending, Early
<1>3. OneRequest'
  BY <1>1, Typed DEF Live, OneRequest, Cursors, Outstanding, Initial, NoMsg, Sending, Early
<1>4. Streams'
  <2>1. \A i \in Ids, x \in Callers : Bound(i, x)' <=> Bound(i, x)
    BY <1>1 DEF Bound, InFlight, Handing
  <2>2. \A x \in Callers : cursorOn /\ ~doneCh[x] => Base(x)' = Base(x)
    BY <1>1 DEF Base, Sending, Live, Cursors
  <2> QED
    BY <1>1, <2>1, <2>2 DEF Live, Streams
<1>5. NoGap'
  <2> SUFFICES ASSUME cursorOn, NEW x \in Callers, ~doneCh[x]
               PROVE  (got[x] \o chan[x] = [i \in 1..cursor[x] |-> i])'
    BY <1>1 DEF NoGap
  <2>1. CASE x = rdSub
    <3>1. rdMsg.seq = cursor[x] + 1 /\ got[x] \o chan[x] = Log(cursor[x])
      BY <1>1, <2>1 DEF Live, Cursors, NoGap, Sending, Log
    <3>2. got[x] \o Append(chan[x], cursor[x] + 1) = Log(cursor[x] + 1)
      <4>1. got[x] \in Seq(Nat) /\ chan[x] \in Seq(Nat) /\ cursor[x] \in Nat
        BY Typed
      <4> QED
        BY <3>1, <4>1, LogGrows, Zenon
    <3> QED
      BY <1>1, <2>1, <3>1, <3>2 DEF Log
  <2>2. CASE x # rdSub
    BY <1>1, <2>2 DEF Live, NoGap
  <2> QED
    BY <2>1, <2>2
<1> QED
  BY <1>2, <1>3, <1>4, <1>5 DEF Live

\* With a cursor, an event is dropped only once the subscription is done.
LEMMA LiveDropEvent ==
    ASSUME TypeOK, TypeOK', Live, ~raced, ~done, ~raced', ~done', DropEvent
    PROVE  Live'
<1>1. /\ Phases' /\ Attempts' /\ OneEntry' /\ Untouched' /\ OneRequest' /\ Handover' /\ IdsOnce'
      /\ Restorable' /\ Cursors' /\ Streams' /\ NoGap'
  BY DEF DropEvent, Idle, wire, client, attempt, maps, callVars, subVars, Live, Phases, Attempts,
         OneEntry, Untouched, OneRequest, Handover, IdsOnce, Restorable, Cursors, Streams, NoGap,
         Initial, Outstanding, NoMsg, InFlight, Handing, Dropped, Sending, Early, Base, Bound
<1> QED
  BY <1>1 DEF Live

\* A panic changes nothing else.
LEMMA LiveSendOnClosed ==
    ASSUME TypeOK, TypeOK', Live, ~raced, ~done, ~raced', ~done', SendOnClosed
    PROVE  Live'
<1>1. /\ Phases' /\ Attempts' /\ OneEntry' /\ Untouched' /\ OneRequest' /\ Handover' /\ IdsOnce'
      /\ Restorable' /\ Cursors' /\ Streams' /\ NoGap'
  BY DEF SendOnClosed, wire, client, attempt, maps, reader, callVars, subVars, Live, Phases,
         Attempts, OneEntry, Untouched, OneRequest, Handover, IdsOnce, Restorable, Cursors, Streams,
         NoGap, Initial, Outstanding, NoMsg, InFlight, Handing, Dropped, Sending, Early, Base, Bound
<1> QED
  BY <1>1 DEF Live

\* The event in the reader's hand is lost, and the cursor has not passed it.
LEMMA LiveFallBehind ==
    ASSUME TypeOK, TypeOK', Live, ~raced, ~done, ~raced', ~done', FallBehind
    PROVE  Live'
<1>1. /\ rd = "sending" /\ rd' = "losing" /\ down' = <<>>
      /\ link' = "cut" /\ up' = <<>> /\ \A i \in Ids : srv'[i] # "on" /\ (srv'[i] = "free" <=> srv[i] = "free")
      /\ UNCHANGED <<cursorOn, conn, dialer, restorer, pend, resub, canceled, subOf, byPattern,
                     call, result, dropId, doneCh, got, chan, cursor>>
  BY Typed DEF FallBehind, CutLink, client, attempt, maps, callVars, subVars, TypeOK, WireTypes,
     Live, Phases
<1>2. /\ Phases' /\ Attempts' /\ OneEntry' /\ Untouched' /\ OneRequest' /\ Handover' /\ IdsOnce'
      /\ Restorable' /\ Cursors' /\ Streams' /\ NoGap'
  BY <1>1, NothingSent, Typed
  DEF Live, Phases, Attempts, OneEntry, Untouched, OneRequest, Handover, IdsOnce, Restorable,
      Cursors, Streams, NoGap, Initial, Outstanding, NoMsg, InFlight, Handing, Dropped, Sending,
      Early, Base, Bound
<1> QED
  BY <1>2 DEF Live

\* Errors are in nobody's stream.
LEMMA LiveReadError ==
    ASSUME TypeOK, TypeOK', Live, ~raced, ~done, ~raced', ~done', ReadError
    PROVE  Live'
<1>1. /\ NextFrame({"error"}) /\ rd = "reading" /\ rd' \in {"reading", "erring"}
      /\ UNCHANGED <<cursorOn, srv, pos, link, up, conn, dialer, restorer, pend, resub, canceled,
                     subOf, byPattern, call, result, dropId, doneCh, got, chan, cursor>>
  BY DEF ReadError, NextFrame, client, attempt, maps, reader, callVars, subVars
<1>2. /\ restorer \notin {"restoring", "restoringOnly"}
      /\ (ResIn(down') <=> ResIn(down)) /\ OneRes(down')
      /\ \A j : OkIn(down', j) <=> OkIn(down, j)
      /\ \A j : EventIn(down', j) <=> EventIn(down, j)
      /\ \A j : ~IsEvent(Head(down), j)
  <2>1. ~IsRes(Head(down)) /\ \A j : ~IsOk(Head(down), j) /\ ~IsEvent(Head(down), j)
    BY <1>1, FrameRead DEF IsRes, IsOk, IsEvent
  <2> QED
    BY <1>1, <2>1, WireRead
<1>3. /\ Phases' /\ Attempts' /\ OneEntry' /\ Untouched' /\ OneRequest' /\ Handover' /\ Restorable'
      /\ Cursors' /\ NoGap'
  BY <1>1, <1>2
  DEF Live, Phases, Attempts, OneEntry, Untouched, OneRequest, Handover, Restorable, Cursors, NoGap,
      Initial, Outstanding, NoMsg, Sending, Early
<1>4. IdsOnce'
  <2>1. \A j \in Ids : (InFlight(j)' <=> InFlight(j)) /\ (Dropped(j)' <=> Dropped(j))
    BY <1>1, <1>2, Typed DEF InFlight, Handing, Dropped
  <2> QED
    BY <1>1, <1>2, <2>1 DEF Live, IdsOnce
<1>5. Streams'
  <2>1. \A j \in Ids, x \in Callers : Bound(j, x)' => Bound(j, x)
    BY <1>1, <1>2, Typed DEF Bound, InFlight, Handing
  <2>2. \A x \in Callers : Base(x)' = Base(x) /\ Base(x) \in Nat
    BY <1>1, <1>2, Typed DEF Base, Sending
  <2> QED
    BY <1>1, <1>2, <2>1, <2>2, WireRead, Typed DEF Live, Streams
<1> QED
  BY <1>3, <1>4, <1>5 DEF Live

\* Errors are in nobody's stream.
LEMMA LiveSendError ==
    ASSUME TypeOK, TypeOK', Live, ~raced, ~done, ~raced', ~done', SendError
    PROVE  Live'
<1>1. /\ Phases' /\ Attempts' /\ OneEntry' /\ Untouched' /\ OneRequest' /\ Handover' /\ IdsOnce'
      /\ Restorable' /\ Cursors' /\ Streams' /\ NoGap'
  BY DEF SendError, Idle, wire, client, attempt, maps, reader, callVars, subVars, Live, Phases,
         Attempts, OneEntry, Untouched, OneRequest, Handover, IdsOnce, Restorable, Cursors, Streams,
         NoGap, Initial, Outstanding, NoMsg, InFlight, Handing, Dropped, Sending, Early, Base, Bound
<1> QED
  BY <1>1 DEF Live

\* What was not read is lost with the connection, which the server has forgotten.
LEMMA LiveReadFails ==
    ASSUME TypeOK, TypeOK', Live, ~raced, ~done, ~raced', ~done', ReadFails
    PROVE  Live'
<1>1. /\ rd = "reading" /\ rd' = "losing" /\ link = "cut" /\ conn /\ down' = <<>> /\ \A i \in Ids : srv[i] # "on"
      /\ UNCHANGED <<cursorOn, srv, pos, link, up, conn, dialer, restorer, pend, resub, canceled,
                     subOf, byPattern, rdSub, rdMsg, call, result, dropId, doneCh, got, chan,
                     cursor>>
  BY DEF ReadFails, client, attempt, maps, callVars, subVars, Live, Phases
<1>2. /\ Phases' /\ Attempts' /\ OneEntry' /\ Untouched' /\ OneRequest' /\ Handover' /\ IdsOnce'
      /\ Restorable' /\ Cursors' /\ Streams' /\ NoGap'
  BY <1>1, NothingSent, Typed
  DEF Live, Phases, Attempts, OneEntry, Untouched, OneRequest, Handover, IdsOnce, Restorable,
      Cursors, Streams, NoGap, Initial, Outstanding, NoMsg, InFlight, Handing, Dropped, Sending,
      Early, Base, Bound
<1> QED
  BY <1>2 DEF Live

\* An open client's reader does not end here.
LEMMA LiveReaderEnds ==
    ASSUME TypeOK, TypeOK', Live, ~raced, ~done, ~raced', ~done', ReaderEnds
    PROVE  Live'
<1>1. /\ Phases' /\ OneEntry' /\ Untouched' /\ OneRequest' /\ Handover' /\ IdsOnce' /\ Restorable'
      /\ Cursors' /\ Streams' /\ NoGap'
  BY DEF ReaderEnds, wire, client, attempt, maps, callVars, subVars, Live, Phases, OneEntry,
         Untouched, OneRequest, Handover, IdsOnce, Restorable, Cursors, Streams, NoGap, Initial,
         Outstanding, NoMsg, InFlight, Handing, Dropped, Sending, Early, Base, Bound
<1>2. Attempts'
  BY Typed DEF ReaderEnds, wire, client, attempt, maps, callVars, subVars, Live, Attempts, Phases
<1> QED
  BY <1>1, <1>2 DEF Live

\* Nothing is left on the connection.
LEMMA LiveDisconnected ==
    ASSUME TypeOK, TypeOK', Live, ~raced, ~done, ~raced', ~done', Disconnected
    PROVE  Live'
<1>1. /\ Phases' /\ Attempts' /\ OneEntry' /\ Untouched' /\ OneRequest' /\ Handover' /\ IdsOnce'
      /\ Restorable' /\ Cursors' /\ Streams' /\ NoGap'
  BY DEF Disconnected, wire, attempt, maps, callVars, subVars, Live, Phases, Attempts, OneEntry,
         Untouched, OneRequest, Handover, IdsOnce, Restorable, Cursors, Streams, NoGap, Initial,
         Outstanding, NoMsg, InFlight, Handing, Dropped, Sending, Early, Base, Bound
<1> QED
  BY <1>1 DEF Live

\* The look at the attempts changes nothing.
LEMMA LivePendingAfterLoss ==
    ASSUME TypeOK, TypeOK', Live, ~raced, ~done, ~raced', ~done', PendingAfterLoss
    PROVE  Live'
<1>1. /\ Phases' /\ Attempts' /\ OneEntry' /\ Untouched' /\ OneRequest' /\ Handover' /\ IdsOnce'
      /\ Restorable' /\ Cursors' /\ Streams' /\ NoGap'
  BY DEF PendingAfterLoss, wire, client, attempt, maps, callVars, subVars, Live, Phases, Attempts, OneEntry,
         Untouched, OneRequest, Handover, IdsOnce, Restorable, Cursors, Streams, NoGap, Initial,
         Outstanding, NoMsg, InFlight, Handing, Dropped, Sending, Early, Base, Bound
<1> QED
  BY <1>1 DEF Live

\* Attempts whose result cannot come any more are forgotten or failed.
LEMMA LiveAttemptsAfterLoss ==
    ASSUME TypeOK, TypeOK', Live, ~raced, ~done, ~raced', ~done', AttemptsAfterLoss
    PROVE  Live'
<1>1. /\ rd \in {"resuming", "failing"} /\ rd' = "none" /\ up = <<>> /\ down = <<>>
      /\ \/ (resub \/ canceled) /\ pend' = NoOne /\ ~resub' /\ ~canceled'
         \/ ~resub /\ ~canceled /\ UNCHANGED <<pend, resub, canceled>>
      /\ \A x \in Callers : \/ result'[x] = result[x]
                            \/ /\ x = pend /\ ~resub /\ ~canceled /\ result[x] = NoMsg
                               /\ result'[x] = [type |-> "refused"]
      /\ UNCHANGED <<cursorOn, srv, pos, link, up, down, conn, restorer, subOf, byPattern, call,
                     dropId, doneCh, got, chan, cursor>>
  BY DEF AttemptsAfterLoss, Discard, Complete, wire, attempt, maps, subVars, TypeOK, CallTypes,
     ClientTypes, Live, Phases, Attempts
<1>2. Phases' /\ Attempts' /\ OneEntry' /\ Untouched'
  BY <1>1, Typed DEF Live, Phases, Attempts, OneEntry, Untouched, Initial
<1>3. OneRequest'
  BY <1>1, NothingSent DEF Live, OneRequest, Outstanding, Initial, NoMsg
<1>4. Handover'
  BY <1>1, NothingSent, Typed DEF Live, Handover, Phases, Attempts, Outstanding, NoMsg
<1>5. IdsOnce'
  BY <1>1 DEF Live, IdsOnce, InFlight, Handing, Dropped
<1>6. Cursors'
  BY <1>1, Typed DEF Live, Cursors, Sending, Early
<1>7. Streams'
  <2>1. ~Sending /\ ~Sending' /\ \A i \in Ids : ~InFlight(i) /\ ~InFlight(i)'
    BY <1>1, NothingSent DEF Sending, InFlight, Handing
  <2>2. \A i \in Ids, x \in Callers : /\ Bound(i, x)' => Bound(i, x)
                                     /\ Base(x)' = Base(x)
    BY <1>1, <2>1 DEF Bound, Base
  <2> QED
    BY <1>1, <2>2 DEF Live, Streams
<1>8. NoGap'
  BY <1>1 DEF Live, NoGap
<1>9. Restorable'
  BY <1>1, Typed DEF Live, Restorable, Phases, Outstanding
<1> QED
  BY <1>2, <1>3, <1>4, <1>5, <1>6, <1>7, <1>8, <1>9 DEF Live

\* The caller has no attempt yet.
LEMMA LiveSubscribe ==
    ASSUME TypeOK, TypeOK', Live, ~raced, ~done, ~raced', ~done', NEW k \in Callers, Subscribe(k)
    PROVE  Live'
<1>1. Phases' /\ Attempts' /\ OneEntry' /\ Untouched' /\ OneRequest'
  BY Typed
  DEF Subscribe, Goto, wire, client, attempt, maps, reader, subVars, Live, Phases, Attempts,
      OneEntry, Untouched, OneRequest, Initial, Outstanding, NoMsg
<1>2. Handover' /\ IdsOnce' /\ Restorable'
  BY Typed
  DEF Subscribe, Goto, wire, client, attempt, maps, reader, subVars, Live, Handover, IdsOnce,
      Restorable, Outstanding, NoMsg, InFlight, Handing, Dropped
<1>3. Cursors'
  BY Typed
  DEF Subscribe, Goto, wire, client, attempt, maps, reader, subVars, Live, Cursors, Sending, Early
<1>4. Streams'
  BY Typed
  DEF Subscribe, Goto, wire, client, attempt, maps, reader, subVars, Live, Streams, Base, Bound,
      InFlight, Handing, Sending
<1>5. NoGap'
  BY Typed DEF Subscribe, Goto, wire, client, attempt, maps, reader, subVars, Live, NoGap
<1> QED
  BY <1>1, <1>2, <1>3, <1>4, <1>5 DEF Live

\* The caller has no attempt yet.
LEMMA LiveCheckActive ==
    ASSUME TypeOK, TypeOK', Live, ~raced, ~done, ~raced', ~done', NEW k \in Callers, CheckActive(k)
    PROVE  Live'
<1>1. Phases' /\ Attempts' /\ OneEntry' /\ Untouched' /\ OneRequest'
  BY Typed
  DEF CheckActive, Goto, wire, client, attempt, maps, reader, subVars, Live, Phases, Attempts,
      OneEntry, Untouched, OneRequest, Initial, Outstanding, NoMsg
<1>2. Handover' /\ IdsOnce' /\ Restorable'
  BY Typed
  DEF CheckActive, Goto, wire, client, attempt, maps, reader, subVars, Live, Handover, IdsOnce,
      Restorable, Outstanding, NoMsg, InFlight, Handing, Dropped
<1>3. Cursors'
  BY Typed
  DEF CheckActive, Goto, wire, client, attempt, maps, reader, subVars, Live, Cursors, Sending, Early
<1>4. Streams'
  BY Typed
  DEF CheckActive, Goto, wire, client, attempt, maps, reader, subVars, Live, Streams, Base, Bound,
      InFlight, Handing, Sending
<1>5. NoGap'
  BY Typed DEF CheckActive, Goto, wire, client, attempt, maps, reader, subVars, Live, NoGap
<1> QED
  BY <1>1, <1>2, <1>3, <1>4, <1>5 DEF Live

\* The attempt is the only one; the pattern has no subscription, or that is a race.
LEMMA LiveReserve ==
    ASSUME TypeOK, TypeOK', Live, ~raced, ~done, ~raced', ~done', NEW k \in Callers, Reserve(k)
    PROVE  Live'
<1>1. CASE pend = NoOne
  <2>1. /\ call[k] = "reserving" /\ pend' = k /\ resub' = FALSE /\ canceled' = FALSE
        /\ restorer = "none" /\ byPattern = 0
        /\ \A x \in Callers : call'[x] = IF x = k THEN "reserved" ELSE call[x]
        /\ UNCHANGED <<cursorOn, srv, pos, link, up, down, conn, dialer, restorer, subOf,
                       byPattern, rd, rdSub, rdMsg, result, dropId, doneCh, cursor, got, chan>>
    BY <1>1 DEF Reserve, Goto, wire, client, maps, reader, subVars, TypeOK, CallTypes
  <2>2. Phases' /\ Attempts' /\ OneEntry' /\ Untouched' /\ Handover' /\ Cursors' /\ NoGap'
    BY <2>1, <1>1, Typed
    DEF Live, Phases, Attempts, OneEntry, Untouched, Handover, Cursors, NoGap, Initial, Outstanding,
        NoMsg, Sending, Early
  <2>3. OneRequest'
    BY <2>1, <1>1, NoRequest DEF Live, OneRequest, Outstanding, Initial, NoMsg
  <2>4. IdsOnce'
    <3>1. \A i \in Ids : InFlight(i)' <=> InFlight(i)
      BY <2>1, <1>1, Typed
      DEF Live, Attempts, Handover, InFlight, Handing, IsOk
    <3>2. \A i \in Ids : Dropped(i)' <=> Dropped(i)
      BY <2>1, <1>1, Typed DEF Dropped
    <3> QED
      BY <2>1, <1>1, <3>1, <3>2 DEF Live, IdsOnce
  <2>5. Restorable'
    BY <2>1, <1>1, Typed DEF Live, Restorable, OneRequest, Outstanding, Initial, NoMsg
  <2>6. Streams'
    <3>1. \A i \in Ids : ~InFlight(i)'
      BY <2>1, <1>1, OkIsResult, Typed DEF Live, OneRequest, Outstanding, Handover, InFlight,
         Handing
    <3>2. \A x \in Callers : Base(x)' = Base(x)
      BY <2>1 DEF Base, Sending
    <3> QED
      BY <2>1, <3>1, <3>2 DEF Live, Streams, Bound
  <2> QED
    BY <2>2, <2>3, <2>4, <2>5, <2>6 DEF Live
<1>2. CASE pend # NoOne
  <2>1. /\ call[k] = "reserving"
        /\ \A x \in Callers : call'[x] = IF x = k THEN "queued" ELSE call[x]
        /\ UNCHANGED <<cursorOn, srv, pos, link, up, down, conn, dialer, restorer, pend, resub,
                       canceled, subOf, byPattern, rd, rdSub, rdMsg, result, dropId, doneCh,
                       cursor, got, chan>>
    BY <1>2 DEF Reserve, Goto, wire, client, attempt, maps, reader, subVars, TypeOK, CallTypes
  <2>2. Phases' /\ Attempts' /\ OneEntry' /\ Untouched' /\ OneRequest'
    BY <2>1, <1>2, Typed
    DEF Live, Phases, Attempts, OneEntry, Untouched, OneRequest, Initial, Outstanding, NoMsg
  <2>3. Handover' /\ Restorable' /\ Cursors' /\ Streams' /\ NoGap'
    BY <2>1, <1>2, Typed
    DEF Live, Handover, Restorable, Cursors, Streams, NoGap, Outstanding, NoMsg, Sending, Early,
        Base, Bound, InFlight, Handing
  <2>4. IdsOnce'
    <3>1. \A i \in Ids : InFlight(i)' <=> InFlight(i)
      BY <2>1, <1>2, Typed
      DEF Live, Attempts, Handover, InFlight, Handing, IsOk
    <3>2. \A i \in Ids : Dropped(i)' <=> Dropped(i)
      BY <2>1, <1>2, Typed DEF Dropped
    <3> QED
      BY <2>1, <1>2, <3>1, <3>2 DEF Live, IdsOnce
  <2> QED
    BY <2>2, <2>3, <2>4 DEF Live
<1> QED
  BY <1>1, <1>2

\* The caller has no attempt yet.
LEMMA LiveUnqueue ==
    ASSUME TypeOK, TypeOK', Live, ~raced, ~done, ~raced', ~done', NEW k \in Callers, Unqueue(k)
    PROVE  Live'
<1>1. /\ call[k] = "queued"
      /\ \E p \in {"checking", "returned"} : \A x \in Callers : call'[x] = IF x = k THEN p ELSE call[x]
      /\ UNCHANGED <<cursorOn, srv, pos, link, up, down, conn, dialer, restorer, pend, resub,
                     canceled, subOf, byPattern, rd, rdSub, rdMsg, result, dropId, doneCh, cursor,
                     got, chan>>
  BY DEF Unqueue, Goto, wire, client, attempt, maps, reader, subVars, TypeOK, CallTypes
<1>2. Phases' /\ Attempts' /\ OneEntry' /\ Untouched' /\ OneRequest'
  BY <1>1, Typed
  DEF Live, Phases, Attempts, OneEntry, Untouched, OneRequest, Initial, Outstanding, NoMsg
<1>3. Handover' /\ Restorable' /\ Cursors' /\ Streams' /\ NoGap'
  BY <1>1, Typed
  DEF Live, Handover, Restorable, Cursors, Streams, NoGap, Outstanding, NoMsg, Sending, Early, Base,
      Bound, InFlight, Handing
<1>4. IdsOnce'
  <2>1. \A i \in Ids : InFlight(i)' <=> InFlight(i)
    BY <1>1, Typed
    DEF Live, Attempts, Handover, InFlight, Handing, IsOk
  <2>2. \A i \in Ids : Dropped(i)' <=> Dropped(i)
    BY <1>1, Typed DEF Dropped
  <2> QED
    BY <1>1, <2>1, <2>2 DEF Live, IdsOnce
<1> QED
  BY <1>2, <1>3, <1>4 DEF Live

\* The request of the attempt is the only one on the wire.
LEMMA LiveSendSubscribe ==
    ASSUME TypeOK, TypeOK', Live, ~raced, ~done, ~raced', ~done', NEW k \in Callers, SendSubscribe(k)
    PROVE  Live'
<1>1. CASE link = "up" /\ conn
  <2>1. /\ call[k] = "reserved" /\ up' = Append(up, [type |-> "subscribe", after |-> 0])
        /\ \A x \in Callers : call'[x] = IF x = k THEN "waiting" ELSE call[x]
        /\ UNCHANGED <<cursorOn, srv, pos, link, down, conn, dialer, restorer, pend, resub,
                       canceled, subOf, byPattern, rd, rdSub, rdMsg, result, dropId, doneCh, got,
                       chan, cursor>>
    BY <1>1 DEF SendSubscribe, Write, WriteFails, Goto, client, attempt, maps, reader, subVars,
       TypeOK, CallTypes
  <2>2. /\ pend = k /\ ~resub /\ ~canceled /\ restorer = "none" /\ result[k] = NoMsg /\ cursor[k] = 0
        /\ ~ReqIn(up) /\ ~ResIn(down) /\ ReqIn(up') /\ OneReq(up') /\ AfterIs(up', 0)
        /\ \A j : UnsubIn(up', j) <=> UnsubIn(up, j)
    <3>1. [type |-> "subscribe", after |-> 0] \in Requests /\ up \in Seq(Requests)
      BY DEF Requests, TypeOK, WireTypes
    <3>2. pend = k /\ ~resub /\ ~canceled /\ restorer = "none" /\ result[k] = NoMsg /\ cursor[k] = 0
      BY <1>1, <2>1 DEF Live, Attempts, Handover, Cursors, Early
    <3>3. ~ReqIn(up) /\ ~ResIn(down)
      BY <2>1, <3>2, Typed DEF Live, OneRequest, Outstanding, Initial
    <3> QED
      BY <2>1, <3>1, <3>2, <3>3, RequestSent, NoRequest
  <2>3. /\ Phases' /\ Attempts' /\ OneEntry' /\ Untouched' /\ OneRequest' /\ Restorable' /\ Cursors'
        /\ Streams' /\ NoGap'
    BY <2>1, <2>2, <1>1, Typed
    DEF Live, Phases, Attempts, OneEntry, Untouched, OneRequest, Restorable, Cursors, Streams,
        NoGap, Initial, Outstanding, NoMsg, Sending, Early, Base, Bound, InFlight, Handing
  <2>4. Handover'
    BY <2>1, <2>2, <1>1, Typed DEF Live, Handover, Attempts, Outstanding, NoMsg
  <2>5. IdsOnce'
    <3>1. \A i \in Ids : InFlight(i)' <=> InFlight(i)
      BY <2>1, <2>2, <1>1, Typed
      DEF Live, Attempts, Handover, InFlight, Handing, IsOk
    <3>2. \A i \in Ids : Dropped(i)' <=> Dropped(i)
      BY <2>1, <2>2, <1>1, Typed DEF Dropped
    <3> QED
      BY <2>1, <2>2, <1>1, <3>1, <3>2 DEF Live, IdsOnce
  <2> QED
    BY <2>3, <2>4, <2>5 DEF Live
<1>2. CASE link # "up" /\ ~WriteFails
  <2>1. /\ call[k] = "reserved" /\ conn
        /\ \A x \in Callers : call'[x] = IF x = k THEN "waiting" ELSE call[x]
        /\ UNCHANGED <<cursorOn, srv, pos, link, up, down, conn, dialer, restorer, pend, resub,
                       canceled, subOf, byPattern, rd, rdSub, rdMsg, result, dropId, doneCh, got,
                       chan, cursor>>
    BY <1>2 DEF SendSubscribe, Write, WriteFails, Goto, client, attempt, maps, reader, subVars,
       TypeOK, CallTypes
  <2>2. Phases' /\ Attempts' /\ OneEntry' /\ Untouched' /\ OneRequest'
    BY <2>1, <1>2, Typed
    DEF Live, Phases, Attempts, OneEntry, Untouched, OneRequest, Initial, Outstanding, NoMsg
  <2>3. Handover' /\ Restorable'
    BY <2>1, <1>2, Typed DEF Live, Handover, Restorable, Outstanding, NoMsg
  <2>4. IdsOnce'
    <3>1. \A i \in Ids : InFlight(i)' <=> InFlight(i)
      BY <2>1, Typed
      DEF Live, Attempts, Handover, InFlight, Handing, IsOk
    <3>2. \A i \in Ids : Dropped(i)' <=> Dropped(i)
      BY <2>1, Typed DEF Dropped
    <3> QED
      BY <2>1, <3>1, <3>2 DEF Live, IdsOnce
  <2>5. Cursors' /\ Streams' /\ NoGap'
    BY <2>1, <1>2, Typed
    DEF Live, Cursors, Streams, NoGap, Sending, Early, Base, Bound, InFlight, Handing
  <2> QED
    BY <2>2, <2>3, <2>4, <2>5 DEF Live
<1>3. CASE WriteFails
  <2>1. CASE call'[k] = "waiting"
    <3>1. /\ call[k] = "reserved" /\ conn /\ link # "up"
          /\ \A x \in Callers : call'[x] = IF x = k THEN "waiting" ELSE call[x]
          /\ UNCHANGED <<cursorOn, srv, pos, link, up, down, conn, dialer, restorer, pend, resub,
                         canceled, subOf, byPattern, rd, rdSub, rdMsg, result, dropId, doneCh, got,
                         chan, cursor>>
      BY <1>3, <2>1 DEF SendSubscribe, Write, WriteFails, Goto, client, attempt, maps, reader,
         subVars, TypeOK, CallTypes
    <3>2. Phases' /\ Attempts' /\ OneEntry' /\ Untouched' /\ OneRequest'
      BY <3>1, Typed
      DEF Live, Phases, Attempts, OneEntry, Untouched, OneRequest, Initial, Outstanding, NoMsg
    <3>3. Handover' /\ Restorable'
      BY <3>1, Typed DEF Live, Handover, Restorable, Outstanding, NoMsg
    <3>4. IdsOnce'
      <4>1. \A i \in Ids : InFlight(i)' <=> InFlight(i)
        BY <3>1, Typed
        DEF Live, Attempts, Handover, InFlight, Handing, IsOk
      <4>2. \A i \in Ids : Dropped(i)' <=> Dropped(i)
        BY <3>1, Typed DEF Dropped
      <4> QED
        BY <3>1, <4>1, <4>2 DEF Live, IdsOnce
    <3>5. Cursors' /\ Streams' /\ NoGap'
      BY <3>1, Typed
      DEF Live, Cursors, Streams, NoGap, Sending, Early, Base, Bound, InFlight, Handing
    <3> QED
      BY <3>2, <3>3, <3>4, <3>5 DEF Live
  <2>2. CASE call'[k] # "waiting"
    <3>1. /\ call[k] = "reserved" /\ pend = k /\ ~resub /\ ~canceled /\ canceled' = TRUE
          /\ \A x \in Callers : call'[x] = IF x = k THEN "returned" ELSE call[x]
          /\ UNCHANGED <<cursorOn, srv, pos, link, up, down, conn, dialer, restorer, pend, resub,
                         subOf, byPattern, rd, rdSub, rdMsg, result, dropId, doneCh, got, chan,
                         cursor>>
      BY <1>3, <2>2 DEF SendSubscribe, Write, Cancel, Goto, client, attempt, maps, reader, subVars,
         TypeOK, CallTypes, Live, Attempts
    <3>2. /\ Phases' /\ Attempts' /\ OneEntry' /\ Untouched' /\ OneRequest' /\ Handover'
          /\ Restorable' /\ Cursors' /\ Streams' /\ NoGap'
      BY <3>1, Typed
      DEF Live, Phases, Attempts, OneEntry, Untouched, OneRequest, Handover, Restorable, Cursors,
          Streams, NoGap, Initial, Outstanding, NoMsg, Sending, Early, Base, Bound, InFlight,
          Handing
    <3>3. IdsOnce'
      <4>1. \A i \in Ids : InFlight(i)' <=> InFlight(i)
        BY <3>1, Typed
        DEF Live, Attempts, Handover, InFlight, Handing, IsOk
      <4>2. \A i \in Ids : Dropped(i)' <=> Dropped(i)
        BY <3>1, Typed DEF Dropped
      <4> QED
        BY <3>1, <4>1, <4>2 DEF Live, IdsOnce
    <3> QED
      BY <3>2, <3>3 DEF Live
  <2> QED
    BY <2>1, <2>2
<1> QED
  <2>1. link = "up" => conn
    BY DEF Live, Phases, TypeOK, ReaderTypes
  <2> QED
    BY <1>1, <1>2, <1>3, <2>1

\* The ID goes from the reader's hand to the maps, with its stream.
LEMMA LiveInstall ==
    ASSUME TypeOK, TypeOK', Live, ~raced, ~done, ~raced', ~done', NEW k \in Callers, Install(k)
    PROVE  Live'
<1>1. /\ call[k] = "waiting" /\ pend = k /\ ~resub /\ ~canceled
      /\ rd = "handing" /\ rdSub = k /\ rdMsg = result[k] /\ result[k].type = "ok" /\ ~Outstanding
      /\ result[k].id \in Ids /\ byPattern = 0 /\ \A i \in Ids : subOf[i] = NoOne
      /\ byPattern' = result[k].id
      /\ \A i \in Ids : subOf'[i] = IF i = result[k].id THEN k ELSE NoOne
      /\ \A x \in Callers : call'[x] = IF x = k THEN "completing" ELSE call[x]
      /\ UNCHANGED <<cursorOn, srv, pos, link, up, down, conn, dialer, restorer, pend, resub,
                     canceled, rd, rdSub, rdMsg, result, dropId, doneCh, got, chan, cursor>>
  <2>1. call[k] = "waiting" /\ result[k].type = "ok" /\ pend = k /\ ~resub /\ ~canceled
    BY DEF Install, Live, Attempts
  <2>2. rd = "handing" /\ rdSub = k /\ rdMsg = result[k] /\ ~Outstanding
    BY <2>1 DEF Live, Handover
  <2>3. rdMsg.id \in Ids
    BY <2>1, <2>2 DEF TypeOK, ReaderTypes, Results
  <2>4. byPattern = 0 /\ \A i \in Ids : subOf[i] = NoOne
    BY <2>1, Typed DEF Live, OneEntry, Initial
  <2> QED
    BY <2>1, <2>2, <2>3, <2>4
    DEF Install, Goto, wire, client, attempt, reader, TypeOK, AttemptTypes, CallTypes
<1>2. /\ Phases' /\ Attempts' /\ OneEntry' /\ Untouched' /\ OneRequest' /\ Handover' /\ Cursors'
      /\ NoGap'
  BY <1>1, Typed
  DEF Live, Phases, Attempts, OneEntry, Untouched, OneRequest, Handover, Cursors, NoGap, Initial,
      Outstanding, NoMsg, Sending, Early
<1>3. IdsOnce'
  <2>1. \A i \in Ids : ~InFlight(i)'
    BY <1>1, OkIsResult DEF InFlight, Handing, Outstanding
  <2>2. \A i \in Ids : InFlight(i) <=> i = result[k].id
    BY <1>1, OkIsResult DEF InFlight, Handing, Outstanding, IsOk
  <2>3. \A i \in Ids : Dropped(i)' <=> Dropped(i)
    BY <1>1 DEF Dropped
  <2> QED
    BY <1>1, <2>1, <2>2, <2>3, Typed DEF Live, IdsOnce
<1>4. Restorable'
  <2>1. InFlight(result[k].id)
    BY <1>1 DEF InFlight, Handing, IsOk
  <2> QED
    BY <1>1, <2>1, Typed DEF Live, IdsOnce, Restorable, Outstanding
<1>5. Streams'
  <2>1. \A i \in Ids, x \in Callers : Bound(i, x)' => Bound(i, x)
    BY <1>1, OkIsResult, Typed DEF Bound, InFlight, Handing, IsOk, Outstanding
  <2>2. \A x \in Callers : Base(x)' = Base(x)
    BY <1>1 DEF Base, Sending
  <2> QED
    BY <1>1, <2>1, <2>2 DEF Live, Streams
<1> QED
  BY <1>2, <1>3, <1>4, <1>5 DEF Live

\* The attempt is over and its result was taken.
LEMMA LiveCompleted ==
    ASSUME TypeOK, TypeOK', Live, ~raced, ~done, ~raced', ~done', NEW k \in Callers, Completed(k)
    PROVE  Live'
<1>1. /\ call[k] = "completing" /\ pend = k /\ ~resub /\ ~canceled
      /\ rd = "handing" /\ rdSub = k /\ ~Outstanding
      /\ pend' = NoOne /\ resub' = FALSE /\ canceled' = FALSE
      /\ \A x \in Callers : call'[x] = IF x = k THEN "subscribed" ELSE call[x]
      /\ \A x \in Callers : result'[x] = IF x = k THEN NoMsg ELSE result[x]
      /\ UNCHANGED <<cursorOn, srv, pos, link, up, down, conn, dialer, restorer, subOf, byPattern,
                     rd, rdSub, rdMsg, dropId, doneCh, got, chan, cursor>>
  BY DEF Completed, Complete, Goto, wire, client, attempt, maps, reader, subVars, TypeOK,
     CallTypes, Live, Attempts, Handover
<1>2. /\ Phases' /\ Attempts' /\ OneEntry' /\ Untouched' /\ OneRequest' /\ Handover' /\ Restorable'
      /\ Cursors' /\ Streams' /\ NoGap'
  BY <1>1, Typed
  DEF Live, Phases, Attempts, OneEntry, Untouched, OneRequest, Handover, Restorable, Cursors,
      Streams, NoGap, Initial, Outstanding, NoMsg, Sending, Early, Base, Bound, InFlight, Handing
<1>3. IdsOnce'
  <2>1. \A i \in Ids : InFlight(i)' <=> InFlight(i)
    BY <1>1, Typed
    DEF Live, Attempts, Handover, InFlight, Handing, IsOk
  <2>2. \A i \in Ids : Dropped(i)' <=> Dropped(i)
    BY <1>1, Typed DEF Dropped
  <2> QED
    BY <1>1, <2>1, <2>2 DEF Live, IdsOnce
<1> QED
  BY <1>2, <1>3 DEF Live

\* The attempt is over; a refusal leaves no ID behind.
LEMMA LiveSubscribeFails ==
    ASSUME TypeOK, TypeOK', Live, ~raced, ~done, ~raced', ~done', NEW k \in Callers, SubscribeFails(k)
    PROVE  Live'
<1>1. /\ call[k] = "waiting" /\ result[k].type = "refused" /\ pend = k /\ ~resub
      /\ pend' = NoOne /\ resub' = FALSE /\ canceled' = FALSE
      /\ \A x \in Callers : call'[x] = IF x = k THEN "returned" ELSE call[x]
      /\ UNCHANGED <<cursorOn, srv, pos, link, up, down, conn, dialer, restorer, subOf, byPattern,
                     rd, rdSub, rdMsg, result, dropId, doneCh, cursor, got, chan>>
  BY DEF SubscribeFails, Complete, Goto, wire, client, attempt, maps, reader, subVars, TypeOK,
     CallTypes, Live, Attempts
<1>2. Phases' /\ Attempts' /\ OneEntry' /\ Untouched'
  BY <1>1, Typed DEF Live, Phases, Attempts, OneEntry, Untouched, Initial
<1>3. OneRequest'
  BY <1>1, Typed DEF Live, OneRequest, Attempts, Outstanding, Initial, NoMsg
<1>4. Handover' /\ Restorable' /\ NoGap'
  BY <1>1, Typed DEF Live, Handover, Restorable, NoGap, Outstanding, NoMsg
<1>5. Cursors'
  BY <1>1, Typed DEF Live, Cursors, Sending, Early
<1>6. Streams'
  <2>1. \A i \in Ids, x \in Callers : /\ Bound(i, x)' => Bound(i, x)
                                     /\ Base(x)' = Base(x)
    BY <1>1, Typed DEF Bound, Base, Sending, InFlight, Handing
  <2> QED
    BY <1>1, <2>1 DEF Live, Streams
<1>7. IdsOnce'
  <2>1. \A i \in Ids : InFlight(i)' <=> InFlight(i)
    BY <1>1, Typed
    DEF Live, Attempts, Handover, InFlight, Handing, IsOk
  <2>2. \A i \in Ids : Dropped(i)' <=> Dropped(i)
    BY <1>1, Typed DEF Dropped
  <2> QED
    BY <1>1, <2>1, <2>2 DEF Live, IdsOnce
<1> QED
  BY <1>2, <1>3, <1>4, <1>5, <1>6, <1>7 DEF Live

\* The attempt stays in flight, canceled.
LEMMA LiveGiveUp ==
    ASSUME TypeOK, TypeOK', Live, ~raced, ~done, ~raced', ~done', NEW k \in Callers, GiveUp(k)
    PROVE  Live'
<1>1. /\ call[k] = "waiting" /\ pend = k /\ ~resub /\ ~canceled
      /\ canceled' = TRUE
      /\ \A x \in Callers : call'[x] = IF x = k THEN "returned" ELSE call[x]
      /\ UNCHANGED <<cursorOn, srv, pos, link, up, down, conn, dialer, restorer, pend, resub,
                     subOf, byPattern, rd, rdSub, rdMsg, result, dropId, doneCh, got, chan, cursor>>
  BY DEF GiveUp, Cancel, Goto, wire, client, attempt, maps, reader, subVars, TypeOK, CallTypes,
     Live, Attempts
<1>2. Phases' /\ Attempts' /\ OneEntry' /\ Untouched' /\ OneRequest'
  BY <1>1, Typed
  DEF Live, Phases, Attempts, OneEntry, Untouched, OneRequest, Initial, Outstanding, NoMsg
<1>3. Handover' /\ Restorable' /\ Cursors' /\ Streams' /\ NoGap'
  BY <1>1, Typed
  DEF Live, Handover, Restorable, Cursors, Streams, NoGap, Outstanding, NoMsg, Sending, Early, Base,
      Bound, InFlight, Handing
<1>4. IdsOnce'
  <2>1. \A i \in Ids : InFlight(i)' <=> InFlight(i)
    BY <1>1, Typed
    DEF Live, Attempts, Handover, InFlight, Handing, IsOk
  <2>2. \A i \in Ids : Dropped(i)' <=> Dropped(i)
    BY <1>1, Typed DEF Dropped
  <2> QED
    BY <1>1, <2>1, <2>2 DEF Live, IdsOnce
<1> QED
  BY <1>2, <1>3, <1>4 DEF Live

\* What the subscriber took and what is in its channel are the same log.
LEMMA LiveConsume ==
    ASSUME TypeOK, TypeOK', Live, ~raced, ~done, ~raced', ~done', NEW k \in Callers, Consume(k)
    PROVE  Live'
<1>1. /\ chan[k] # <<>>
      /\ \A x \in Callers : \/ chan'[x] = chan[x] /\ got'[x] = got[x]
                            \/ x = k /\ chan'[x] = Tail(chan[x]) /\ got'[x] = Append(got[x], Head(chan[x]))
                            \/ ~cursorOn
      /\ UNCHANGED <<cursorOn, srv, pos, link, up, down, conn, dialer, restorer, pend, resub,
                     canceled, subOf, byPattern, rd, rdSub, rdMsg, call, result, dropId, doneCh,
                     cursor>>
  BY DEF Consume, wire, client, attempt, maps, reader, callVars, TypeOK, SubTypes
<1>2. /\ Phases' /\ Attempts' /\ OneEntry' /\ Untouched' /\ OneRequest' /\ Handover' /\ IdsOnce'
      /\ Restorable' /\ Cursors' /\ Streams'
  BY <1>1
  DEF Live, Phases, Attempts, OneEntry, Untouched, OneRequest, Handover, IdsOnce, Restorable,
      Cursors, Streams, Initial, Outstanding, NoMsg, InFlight, Handing, Dropped, Sending, Early,
      Base, Bound
<1>3. NoGap'
  <2>1. \A x \in Callers : cursorOn => got'[x] \o chan'[x] = got[x] \o chan[x]
    BY <1>1, LogMoves, Typed
  <2> QED
    BY <1>1, <2>1 DEF Live, NoGap
<1> QED
  BY <1>2, <1>3 DEF Live

\* Nothing more is promised to the subscriber.
LEMMA LiveUnsubscribe ==
    ASSUME TypeOK, TypeOK', Live, ~raced, ~done, ~raced', ~done', NEW k \in Callers, Unsubscribe(k)
    PROVE  Live'
<1>1. /\ call[k] = "subscribed"
      /\ \E p \in {"leaving", "returned"} : \A x \in Callers : call'[x] = IF x = k THEN p ELSE call[x]
      /\ \A x \in Callers : doneCh[x] => doneCh'[x]
      /\ UNCHANGED <<cursorOn, srv, pos, link, up, down, conn, dialer, restorer, pend, resub,
                     canceled, subOf, byPattern, rd, rdSub, rdMsg, result, dropId, cursor, got,
                     chan>>
  BY DEF Unsubscribe, Goto, wire, client, attempt, maps, reader, TypeOK, CallTypes, SubTypes
<1>2. Phases' /\ Attempts' /\ OneEntry' /\ Untouched' /\ OneRequest'
  BY <1>1, Typed
  DEF Live, Phases, Attempts, OneEntry, Untouched, OneRequest, Initial, Outstanding, NoMsg
<1>3. Handover' /\ Restorable' /\ Cursors' /\ Streams' /\ NoGap'
  BY <1>1, Typed
  DEF Live, Handover, Restorable, Cursors, Streams, NoGap, Outstanding, NoMsg, Sending, Early, Base,
      Bound, InFlight, Handing
<1>4. IdsOnce'
  <2>1. \A i \in Ids : InFlight(i)' <=> InFlight(i)
    BY <1>1, Typed
    DEF Live, Attempts, Handover, InFlight, Handing, IsOk
  <2>2. \A i \in Ids : Dropped(i)' <=> Dropped(i)
    BY <1>1, Typed DEF Dropped
  <2> QED
    BY <1>1, <2>1, <2>2 DEF Live, IdsOnce
<1> QED
  BY <1>2, <1>3, <1>4 DEF Live

\* The ID goes from the maps to the caller that gives it back.
LEMMA LiveRemoveByPattern ==
    ASSUME TypeOK, TypeOK', Live, ~raced, ~done, ~raced', ~done', NEW k \in Callers, RemoveByPattern(k)
    PROVE  Live'
<1>1. CASE byPattern = 0
  <2>1. /\ call[k] = "leaving"
        /\ \A x \in Callers : call'[x] = IF x = k THEN "returned" ELSE call[x]
        /\ UNCHANGED <<cursorOn, srv, pos, link, up, down, conn, dialer, restorer, pend, resub,
                       canceled, subOf, byPattern, rd, rdSub, rdMsg, result, dropId, doneCh, got,
                       chan, cursor>>
    BY <1>1 DEF RemoveByPattern, Goto, wire, client, attempt, maps, reader, TypeOK, CallTypes
  <2>2. Phases' /\ Attempts' /\ OneEntry' /\ Untouched' /\ OneRequest'
    BY <2>1, Typed
    DEF Live, Phases, Attempts, OneEntry, Untouched, OneRequest, Initial, Outstanding, NoMsg
  <2>3. Handover' /\ Restorable' /\ Cursors' /\ Streams' /\ NoGap'
    BY <2>1, Typed
    DEF Live, Handover, Restorable, Cursors, Streams, NoGap, Outstanding, NoMsg, Sending, Early,
        Base, Bound, InFlight, Handing
  <2>4. IdsOnce'
    <3>1. \A i \in Ids : InFlight(i)' <=> InFlight(i)
      BY <2>1, <1>1, Typed
      DEF Live, Attempts, Handover, InFlight, Handing, IsOk
    <3>2. \A i \in Ids : Dropped(i)' <=> Dropped(i)
      BY <2>1, <1>1, Typed DEF Dropped
    <3> QED
      BY <2>1, <1>1, <3>1, <3>2 DEF Live, IdsOnce
  <2> QED
    BY <2>2, <2>3, <2>4 DEF Live
<1>2. CASE byPattern # 0
  <2>1. /\ call[k] = "leaving" /\ byPattern' = 0
        /\ \A i \in Ids : subOf'[i] = NoOne
        /\ \A x \in Callers : dropId'[x] = IF x = k THEN byPattern ELSE dropId[x]
        /\ \A x \in Callers : call'[x] = IF x = k THEN IF conn THEN "dropping" ELSE "returned" ELSE call[x]
        /\ UNCHANGED <<cursorOn, srv, pos, link, up, down, conn, dialer, restorer, pend, resub,
                       canceled, rd, rdSub, rdMsg, result, doneCh, got, chan, cursor>>
    <3>1. byPattern \in Ids /\ subOf[byPattern] # NoOne /\ \A i \in Ids : i # byPattern => subOf[i] = NoOne
      BY <1>2, Typed DEF Live, OneEntry
    <3>2. subOf' = [subOf EXCEPT ![byPattern] = NoOne] /\ byPattern' = 0
      BY <1>2, <3>1 DEF RemoveByPattern, CloseChannels
    <3>3. \A i \in Ids : subOf'[i] = NoOne
      BY <3>1, <3>2 DEF TypeOK, AttemptTypes
    <3> QED
      BY <1>2, <3>2, <3>3
      DEF RemoveByPattern, CloseChannels, Goto, wire, client, attempt, reader, TypeOK, CallTypes
  <2>2. Phases' /\ Attempts' /\ OneEntry' /\ Untouched' /\ OneRequest'
    BY <2>1, Typed
    DEF Live, Phases, Attempts, OneEntry, Untouched, OneRequest, Initial, Outstanding, NoMsg
  <2>3. Handover' /\ Restorable'
    BY <2>1, Typed DEF Live, Handover, Restorable, Outstanding, NoMsg
  <2>4. IdsOnce'
    <3>1. \A i \in Ids : InFlight(i)' <=> InFlight(i)
      BY <2>1, Typed DEF InFlight, Handing
    <3>2. \A i \in Ids : Dropped(i)' <=> Dropped(i) \/ (conn /\ i = byPattern)
      BY <2>1 DEF Dropped
    <3>3. link = "up" => conn
      BY DEF Live, Phases, TypeOK, ReaderTypes
    <3> QED
      BY <1>2, <2>1, <3>1, <3>2, <3>3, Typed DEF Live, IdsOnce, OneEntry
  <2>5. Cursors'
    BY <2>1, Typed DEF Live, Cursors, Sending, Early
  <2>6. Streams' /\ NoGap'
    BY <2>1, Typed DEF Live, Streams, NoGap, Base, Bound, InFlight, Handing, Sending
  <2> QED
    BY <2>2, <2>3, <2>4, <2>5, <2>6 DEF Live
<1> QED
  BY <1>1, <1>2

\* The ID goes from the caller to the wire, or the server has forgotten it.
LEMMA LiveSendUnsubscribe ==
    ASSUME TypeOK, TypeOK', Live, ~raced, ~done, ~raced', ~done', NEW k \in Callers, SendUnsubscribe(k)
    PROVE  Live'
<1>1. CASE link = "up"
  <2>1. /\ call[k] = "dropping" /\ dropId[k] \in Ids /\ up' = Append(up, [type |-> "unsubscribe", id |-> dropId[k]])
        /\ \A x \in Callers : dropId'[x] = IF x = k THEN 0 ELSE dropId[x]
        /\ \A x \in Callers : call'[x] = IF x = k THEN "returned" ELSE call[x]
        /\ UNCHANGED <<cursorOn, srv, pos, link, down, conn, dialer, restorer, pend, resub,
                       canceled, subOf, byPattern, rd, rdSub, rdMsg, result, doneCh, got, chan,
                       cursor>>
    <3>1. conn
      BY <1>1 DEF Live, Phases, TypeOK, ReaderTypes
    <3> QED
      BY <1>1, <3>1 DEF SendUnsubscribe, WriteUnsubscribe, Write, WriteFails, Goto, client,
         attempt, maps, reader,
         subVars, TypeOK, CallTypes
  <2>2. /\ ReqIn(up') <=> ReqIn(up)
        /\ OneReq(up) => OneReq(up')
        /\ \A c : AfterIs(up, c) => AfterIs(up', c)
        /\ \A j : UnsubIn(up', j) <=> UnsubIn(up, j) \/ j = dropId[k]
    <3>1. [type |-> "unsubscribe", id |-> dropId[k]] \in Requests /\ up \in Seq(Requests)
      BY <2>1 DEF Requests, TypeOK, WireTypes
    <3> QED
      BY <2>1, <3>1, RequestSent
  <2>3. Phases' /\ Attempts' /\ OneEntry' /\ Untouched' /\ OneRequest'
    BY <2>1, <2>2, <1>1, Typed
    DEF Live, Phases, Attempts, OneEntry, Untouched, OneRequest, Initial, Outstanding, NoMsg
  <2>4. Handover' /\ Restorable'
    BY <2>1, <2>2, <1>1, Typed DEF Live, Handover, Restorable, Outstanding, NoMsg
  <2>5. IdsOnce'
    <3>1. \A i \in Ids : InFlight(i)' <=> InFlight(i)
      BY <2>1, Typed DEF InFlight, Handing
    <3>2. \A i \in Ids : Dropped(i)' <=> Dropped(i)
      BY <2>1, <2>2 DEF Dropped
    <3> QED
      BY <2>1, <3>1, <3>2 DEF Live, IdsOnce
  <2>6. Cursors' /\ Streams' /\ NoGap'
    BY <2>1, <2>2, <1>1, Typed
    DEF Live, Cursors, Streams, NoGap, Sending, Early, Base, Bound, InFlight, Handing
  <2> QED
    BY <2>3, <2>4, <2>5, <2>6 DEF Live
<1>2. CASE link # "up"
  <2>1. /\ call[k] = "dropping"
        /\ \A x \in Callers : dropId'[x] = IF x = k THEN 0 ELSE dropId[x]
        /\ \A x \in Callers : call'[x] = IF x = k THEN "returned" ELSE call[x]
        /\ UNCHANGED <<cursorOn, srv, pos, link, up, down, conn, dialer, restorer, pend, resub,
                       canceled, subOf, byPattern, rd, rdSub, rdMsg, result, doneCh, got, chan,
                       cursor>>
    BY <1>2 DEF SendUnsubscribe, WriteUnsubscribe, Write, Goto, client, attempt, maps, reader,
       subVars, TypeOK, CallTypes
  <2>2. Phases' /\ Attempts' /\ OneEntry' /\ Untouched' /\ OneRequest'
    BY <2>1, <1>2, Typed
    DEF Live, Phases, Attempts, OneEntry, Untouched, OneRequest, Initial, Outstanding, NoMsg
  <2>3. Handover' /\ Restorable' /\ Cursors' /\ Streams' /\ NoGap'
    BY <2>1, <1>2, Typed
    DEF Live, Handover, Restorable, Cursors, Streams, NoGap, Outstanding, NoMsg, Sending, Early,
        Base, Bound, InFlight, Handing
  <2>4. IdsOnce'
    <3>1. \A i \in Ids : InFlight(i)' <=> InFlight(i)
      BY <2>1, Typed DEF InFlight, Handing
    <3>2. \A i \in Ids : Dropped(i)' => Dropped(i)
      BY <2>1 DEF Dropped
    <3> QED
      BY <1>2, <2>1, <3>1, <3>2 DEF Live, IdsOnce
  <2> QED
    BY <2>2, <2>3, <2>4 DEF Live
<1> QED
  BY <1>1, <1>2

-----------------------------------------------------------------------------
(* The theorems. *)

\* Once a race happened or Close was called, that stays so.
LEMMA FlagsStep ==
    ASSUME TypeOK, Next PROVE (raced => raced') /\ (done => done')
<1>1. raced => raced'
  BY StepKinds DEF ServerAnswers, ServerEvent, ServerError, ConnectionBreaks, Connect, DialFails, ScheduleReconnect,
     Connected, Resubscribe, Resend, ReadResultLate, ReadResult, HandedOver, ReadRebind, ReadEvent, LockChannel,
     Deliver, DropEvent, SendOnClosed, FallBehind, ReadError, SendError, ReadFails, ReaderEnds, Disconnected,
     PendingAfterLoss, AttemptsAfterLoss, Subscribe, CheckActive, Reserve, Unqueue, SendSubscribe, Install, Completed,
     SubscribeFails, GiveUp, Consume, Unsubscribe, RemoveByPattern, SendUnsubscribe, Close, CloseMaps, CloseConn
<1>2. done => done'
  BY StepKinds DEF ServerAnswers, ServerEvent, ServerError, ConnectionBreaks, Connect, DialFails, ScheduleReconnect,
     Connected, Resubscribe, Resend, ReadResultLate, ReadResult, HandedOver, ReadRebind, ReadEvent, LockChannel,
     Deliver, DropEvent, SendOnClosed, FallBehind, ReadError, SendError, ReadFails, ReaderEnds, Disconnected,
     PendingAfterLoss, AttemptsAfterLoss, Subscribe, CheckActive, Reserve, Unqueue, SendSubscribe, Install, Completed,
     SubscribeFails, GiveUp, Consume, Unsubscribe, RemoveByPattern, SendUnsubscribe, Close, CloseMaps, CloseConn, client
<1> QED
  BY <1>1, <1>2

\* c.done is closed by Close, before it does anything else.
LEMMA ClosingStep ==
    ASSUME TypeOK, Next, done = (closing # "no") PROVE done' = (closing' # "no")
<1>1. \/ UNCHANGED <<done, closing>>
      \/ Close \/ CloseMaps \/ CloseConn
  BY StepKinds DEF ServerAnswers, ServerEvent, ServerError, ConnectionBreaks, Connect, DialFails, ScheduleReconnect,
     Connected, Resubscribe, Resend, ReadResultLate, ReadResult, HandedOver, ReadRebind, ReadEvent, LockChannel,
     Deliver, DropEvent, SendOnClosed, FallBehind, ReadError, SendError, ReadFails, ReaderEnds, Disconnected,
     PendingAfterLoss, AttemptsAfterLoss, Subscribe, CheckActive, Reserve, Unqueue, SendSubscribe, Install, Completed,
     SubscribeFails, GiveUp, Consume, Unsubscribe, RemoveByPattern, SendUnsubscribe, client
<1> QED
  BY <1>1 DEF Close, CloseMaps, CloseConn, TypeOK, ClientTypes

\* Every step keeps the invariant while nothing raced and the client is open.
LEMMA LiveStep ==
    ASSUME TypeOK, done = (closing # "no"), Live, ~raced, ~done, ~raced', ~done', Next
    PROVE  Live'
<1>1. TypeOK'
  BY TypesStep
<1>2. ~Close /\ ~CloseMaps /\ ~CloseConn
  BY DEF Close, CloseMaps, CloseConn
<1>3. CASE \/ ServerAnswers \/ (\E i \in Ids : ServerEvent(i) \/ ServerError(i)) \/ ConnectionBreaks
           \/ Connect \/ DialFails \/ ScheduleReconnect \/ Connected \/ Resubscribe \/ Resend
  BY <1>1, <1>3, LiveServerAnswers, LiveServerEvent, LiveServerError, LiveConnectionBreaks, LiveConnect,
     LiveDialFails, LiveScheduleReconnect, LiveConnected, LiveResubscribe, LiveResend
<1>4. CASE \/ ReadResultLate \/ ReadResult \/ HandedOver \/ ReadRebind \/ ReadEvent \/ LockChannel
           \/ Deliver \/ DropEvent \/ SendOnClosed \/ FallBehind \/ ReadError \/ SendError
           \/ ReadFails \/ ReaderEnds \/ Disconnected \/ PendingAfterLoss \/ AttemptsAfterLoss
  BY <1>1, <1>4, LiveReadResultLate, LiveReadResult, LiveHandedOver, LiveReadRebind, LiveReadEvent,
     LiveLockChannel, LiveDeliver, LiveDropEvent, LiveSendOnClosed, LiveFallBehind, LiveReadError,
     LiveSendError, LiveReadFails, LiveReaderEnds, LiveDisconnected, LivePendingAfterLoss, LiveAttemptsAfterLoss
<1>5. ASSUME NEW k \in Callers,
             \/ Subscribe(k) \/ CheckActive(k) \/ Reserve(k) \/ Unqueue(k) \/ SendSubscribe(k)
             \/ Install(k) \/ Completed(k) \/ SubscribeFails(k) \/ GiveUp(k) \/ Consume(k)
             \/ Unsubscribe(k) \/ RemoveByPattern(k) \/ SendUnsubscribe(k)
      PROVE  Live'
  BY <1>1, <1>5, LiveSubscribe, LiveCheckActive, LiveReserve, LiveUnqueue, LiveSendSubscribe, LiveInstall,
     LiveCompleted, LiveSubscribeFails, LiveGiveUp, LiveConsume, LiveUnsubscribe, LiveRemoveByPattern,
     LiveSendUnsubscribe
<1> QED
  BY <1>2, <1>3, <1>4, <1>5, StepKinds

\* So does a step that changes nothing.
LEMMA LiveStutters == ASSUME Live, UNCHANGED vars PROVE Live'
<1>1. UNCHANGED <<cursorOn, srv, pos, link, up, down, conn, dialer, restorer, pend, resub, canceled, subOf,
                  byPattern, rd, rdSub, rdMsg, call, result, dropId, doneCh, chan, cursor, got>>
  BY DEF vars, wire, client, attempt, maps, reader, callVars, subVars
<1>2. Phases' /\ Attempts' /\ OneEntry' /\ Untouched' /\ OneRequest' /\ Handover'
  BY <1>1 DEF Live, Phases, Attempts, OneEntry, Initial, Untouched, OneRequest, Outstanding, Handover
<1>3. IdsOnce'
  BY <1>1 DEF Live, IdsOnce, InFlight, Handing, Dropped
<1>4. Restorable' /\ Cursors'
  BY <1>1 DEF Live, Restorable, Outstanding, Cursors, Sending, Early
<1>5. Streams'
  <2>1. \A i \in Ids, k \in Callers : (Bound(i, k)' <=> Bound(i, k)) /\ Base(k)' = Base(k)
    BY <1>1 DEF Bound, InFlight, Handing, Base, Sending
  <2> QED
    BY <1>1, <2>1 DEF Live, Streams
<1>6. NoGap'
  BY <1>1 DEF Live, NoGap
<1> QED
  BY <1>2, <1>3, <1>4, <1>5, <1>6 DEF Live

\* At first nothing is connected, subscribed or sent.
LEMMA InitHolds == ASSUME Init PROVE SubscriptionInvariant
<1>1. TypeOK
  <2>1. 0 \in 0..MaxIds /\ 0 \in Nat
    BY SubAssumption
  <2>2. <<>> \in Seq(Nat) /\ <<>> \in Seq(Requests) /\ <<>> \in Seq(Frames)
    OBVIOUS
  <2>3. WireTypes
    BY <2>1, <2>2 DEF Init, WireTypes
  <2>4. ClientTypes /\ faults \in Nat
    BY DEF Init, ClientTypes
  <2>5. auto \in BOOLEAN /\ cursorOn \in BOOLEAN
    <3>1. PICK m \in Modes : auto = m[1] /\ cursorOn = m[2]
      BY DEF Init
    <3>2. m \in BOOLEAN \X BOOLEAN
      BY SubAssumption
    <3> QED
      BY <3>1, <3>2
  <2>6. FlagTypes
    BY <2>5 DEF Init, FlagTypes
  <2>7. AttemptTypes
    BY <2>1 DEF Init, AttemptTypes, SomeCaller
  <2>8. ReaderTypes
    BY DEF Init, ReaderTypes, SomeCaller
  <2>9. CallTypes
    BY <2>1 DEF Init, CallTypes, Places
  <2>10. SubTypes
    BY <2>1, <2>2 DEF Init, SubTypes
  <2> QED
    BY <2>3, <2>4, <2>6, <2>7, <2>8, <2>9, <2>10 DEF TypeOK
<1>2. Phases /\ Attempts /\ OneEntry /\ Untouched
  BY Typed, <1>1 DEF Init, Phases, Attempts, OneEntry, Initial, Untouched
<1>3. OneRequest /\ Handover /\ IdsOnce /\ Restorable
  BY Typed, <1>1, NothingSent DEF Init, OneRequest, Outstanding, Initial, Handover, IdsOnce, InFlight, Handing,
     Dropped, Restorable
<1>4. Cursors /\ Streams
  BY Typed, <1>1, NothingSent DEF Init, Cursors, Sending, Early, Streams, Bound, InFlight, Handing
<1>5. NoGap
  BY DEF Init, NoGap
<1> QED
  BY <1>1, <1>2, <1>3, <1>4, <1>5 DEF SubscriptionInvariant, Live, Init

\* The inductive invariant: while nothing raced and the client is open, at most one
\* request or result is on the wire, every ID is in one place, and every stream of
\* events goes on where its subscription stands.
THEOREM SubscriptionSafety == Spec => []SubscriptionInvariant
<1>1. Init => SubscriptionInvariant
  BY InitHolds
<1>2. SubscriptionInvariant /\ [Next]_vars => SubscriptionInvariant'
  <2>1. CASE Next
    BY <2>1, TypesStep, ClosingStep, FlagsStep, LiveStep DEF SubscriptionInvariant
  <2>2. CASE UNCHANGED vars
    BY <2>2, TypesStep, LiveStutters DEF SubscriptionInvariant, vars, client
  <2> QED
    BY <2>1, <2>2
<1> QED
  BY <1>1, <1>2, PTL DEF Spec

\* The types of the client's fields, the wire and the callers.
THEOREM TypesHold == Spec => []TypeOK
<1>1. SubscriptionInvariant => TypeOK
  BY DEF SubscriptionInvariant
<1> QED
  BY <1>1, SubscriptionSafety, PTL

\* Whatever is delivered, dropped, cut and restored, a subscriber with a cursor gets
\* the log from its start without a gap or a repetition (handleEvent, resubscribeAll).
THEOREM CursorSafety == Spec => []CursorHasNoGap
<1>1. SubscriptionInvariant => CursorHasNoGap
  BY DEF SubscriptionInvariant, Live, NoGap, CursorHasNoGap
<1> QED
  BY <1>1, SubscriptionSafety, PTL

\* Every subscription of the server is installed, on its way to be installed, or on its
\* way to be given back (handleSubscriptionResult, cancelSubscribeAttempt).
THEOREM LeakSafety == Spec => []NoServerLeak
<1>1. SubscriptionInvariant => NoServerLeak
  BY DEF SubscriptionInvariant, Live, IdsOnce, InFlight, Handing, Dropped, OkIn, IsOk, UnsubIn, NoServerLeak, Known
<1> QED
  BY <1>1, SubscriptionSafety, PTL

\* Once things are quiet, what the maps hold is on the server (resubscribeAll,
\* discardPendingResubscribeAttempts).
THEOREM RestoreSafety == Spec => []SubscriptionsAreRestored
<1>1. SubscriptionInvariant => SubscriptionsAreRestored
  BY NothingSent DEF SubscriptionInvariant, Live, Restorable, Outstanding, SubscriptionsAreRestored, Quiet
<1> QED
  BY <1>1, SubscriptionSafety, PTL
=============================================================================
