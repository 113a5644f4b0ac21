--------------------------- MODULE SessionHubProofs ---------------------------
(***************************************************************************)
(* Proofs about the web agent's sessions, for any sessions, messages, cap  *)
(* and number of permission requests.                                      *)
(***************************************************************************)
EXTENDS SessionHub, FiniteSetTheorems, TLAPS

Phase == Holding \cup {"sent", "ensured", "freed", "over"}
PendPhase == {"asking", "waiting", "answered"}
ShownPhase == {"waiting", "answered", "told", "tooling"}
OpenPhase == {"asking", "waiting", "answered", "told"}
ReqPhase == OpenPhase \cup {"tooling"}

Event == [kind : {"asked", "denied", "started", "finished", "end"}, req : Nat, of : Post]
Entry == [live : BOOLEAN, busy : BOOLEAN, pending : Nat, log : Seq(Event)]
Message == [at : Phase, session : Session, req : Nat, reply : {"none", "allow", "deny"},
            allowed : BOOLEAN]

WebTypes ==
  /\ sess \in [Session -> Entry]
  /\ post \in [Post -> Message]
  /\ nextReq \in Nat /\ nextReq > 0
  /\ ran \subseteq 1 .. nextReq - 1

(* A session is busy exactly while one message holds it. *)
Holders ==
  /\ \A p, q \in Post :
       post[p].at \in Holding /\ post[q].at \in Holding /\ post[p].session = post[q].session => p = q
  /\ \A p \in Post : post[p].at \in Holding => sess[post[p].session].busy
  /\ \A s \in Session : sess[s].busy =>
       \E p \in Post : post[p].session = s /\ post[p].at \in Holding

(* A request is one message's, from its number on; what is pending is some *)
(* message's; what a message was told, the hub took.                       *)
Requests ==
  /\ \A p \in Post : IF post[p].at \in ReqPhase THEN post[p].req \in 1 .. nextReq - 1
                     ELSE post[p].req = 0
  /\ \A p, q \in Post : post[p].req # 0 /\ post[p].req = post[q].req => p = q
  /\ \A s \in Session : sess[s].pending # 0 =>
       \E p \in Post : /\ post[p].session = s /\ post[p].at \in PendPhase
                       /\ post[p].req = sess[s].pending
  /\ \A p \in Post : post[p].reply = "allow" \/ post[p].allowed => <<post[p].req, "allow">> \in said

(* An event is of its session's messages and of a number given out. *)
EventsAreOwn ==
  \A s \in Session : \A i \in DOMAIN sess[s].log :
    post[sess[s].log[i].of].session = s /\ sess[s].log[i].req < nextReq

Asked(s, n, r) == \E j \in 1 .. n : sess[s].log[j].kind = "asked" /\ sess[s].log[j].req = r

AskedFirst ==
  /\ \A s \in Session : \A i \in DOMAIN sess[s].log :
       sess[s].log[i].kind \in {"denied", "started"} => Asked(s, i - 1, sess[s].log[i].req)
  /\ \A p \in Post : post[p].at \in ShownPhase =>
       Asked(post[p].session, Len(sess[post[p].session].log), post[p].req)

StartedAllowed ==
  \A s \in Session : \A i \in DOMAIN sess[s].log :
    sess[s].log[i].kind = "started" => <<sess[s].log[i].req, "allow">> \in said

EndsAreLast ==
  \A s \in Session : \A i \in DOMAIN sess[s].log :
    sess[s].log[i].kind = "end" =>
      /\ post[sess[s].log[i].of].at = "over"
      /\ \A j \in DOMAIN sess[s].log : i < j => sess[s].log[j].of # sess[s].log[i].of

Finished(s, j, n) ==
  \E k \in j .. n : sess[s].log[k].kind = "finished" /\ sess[s].log[k].req = sess[s].log[j].req

(* A tool started is under way, or finished; before its message's end.     *)
ToolsFinish ==
  \A s \in Session : \A j \in DOMAIN sess[s].log :
    sess[s].log[j].kind = "started" =>
      /\ \/ LET p == sess[s].log[j].of
            IN  post[p].at = "tooling" /\ post[p].req = sess[s].log[j].req
         \/ Finished(s, j, Len(sess[s].log))
      /\ \A i \in DOMAIN sess[s].log :
           j < i /\ sess[s].log[i].kind = "end" /\ sess[s].log[i].of = sess[s].log[j].of =>
             Finished(s, j, i)

(* What was denied never ran, and what is not yet told is neither. *)
DeniedNeverRan ==
  /\ \A s \in Session : \A i \in DOMAIN sess[s].log :
       sess[s].log[i].kind = "denied" =>
         /\ sess[s].log[i].req \notin ran
         /\ \A p \in Post : post[p].at \in OpenPhase => post[p].req # sess[s].log[i].req
  /\ \A p \in Post : post[p].at \in OpenPhase => post[p].req \notin ran

LogInv == /\ EventsAreOwn /\ AskedFirst /\ StartedAllowed /\ EndsAreLast /\ ToolsFinish
          /\ DeniedNeverRan

WebInv == WebTypes /\ Holders /\ Requests /\ LogInv
-----------------------------------------------------------------------------
(* What an update of one field leaves. *)

LEMMA PhasesAre ==
  /\ Phase = {"started", "running", "asking", "waiting", "answered", "told", "tooling", "ended",
              "failed", "sent", "ensured", "freed", "over"}
  /\ Holding \subseteq Phase /\ PendPhase \subseteq OpenPhase /\ OpenPhase \subseteq ReqPhase
  /\ ReqPhase = OpenPhase \cup {"tooling"} /\ ReqPhase \subseteq Holding
  BY DEF Phase, Holding, PendPhase, OpenPhase, ReqPhase

LEMMA MessageFields ==
  ASSUME WebTypes, NEW p \in Post, NEW m \in Message, post' = [post EXCEPT ![p] = m]
  PROVE  /\ post' \in [Post -> Message] /\ post'[p] = m
         /\ \A q \in Post \ {p} : post'[q] = post[q]
  BY DEF WebTypes

LEMMA GoesFields ==
  ASSUME WebTypes, NEW p \in Post, NEW phase \in Phase, WebGoes(p, phase)
  PROVE  /\ post' \in [Post -> Message]
         /\ post'[p].at = phase
         /\ \A q \in Post \ {p} : post'[q] = post[q]
         /\ \A q \in Post : /\ post'[q].session = post[q].session /\ post'[q].req = post[q].req
                            /\ post'[q].reply = post[q].reply /\ post'[q].allowed = post[q].allowed
<1>1. post \in [Post -> Message] /\ post[p] \in Message
  BY DEF WebTypes
<1>2. /\ post' \in [Post -> Message] /\ post'[p] = [post[p] EXCEPT !.at = phase]
      /\ \A q \in Post \ {p} : post'[q] = post[q]
  BY <1>1 DEF WebGoes, Message
<1>3. /\ post'[p].at = phase /\ post'[p].session = post[p].session /\ post'[p].req = post[p].req
      /\ post'[p].reply = post[p].reply /\ post'[p].allowed = post[p].allowed
  BY <1>1, <1>2 DEF Message
<1> QED
  BY <1>2, <1>3

LEMMA EntryFields ==
  ASSUME WebTypes, NEW s \in Session, NEW e \in Entry, sess' = [sess EXCEPT ![s] = e]
  PROVE  /\ sess' \in [Session -> Entry] /\ sess'[s] = e
         /\ \A t \in Session \ {s} : sess'[t] = sess[t]
  BY DEF WebTypes

LEMMA BusyFields ==
  ASSUME WebTypes, NEW s \in Session, NEW b \in BOOLEAN, sess' = [sess EXCEPT ![s].busy = b]
  PROVE  /\ sess' \in [Session -> Entry] /\ sess'[s].busy = b
         /\ \A t \in Session \ {s} : sess'[t] = sess[t]
         /\ \A t \in Session : sess'[t].log = sess[t].log /\ sess'[t].pending = sess[t].pending
<1>1. sess[s] \in Entry /\ sess' = [sess EXCEPT ![s] = [sess[s] EXCEPT !.busy = b]]
  BY DEF WebTypes
<1>2. /\ [sess[s] EXCEPT !.busy = b] \in Entry /\ [sess[s] EXCEPT !.busy = b].busy = b
      /\ [sess[s] EXCEPT !.busy = b].log = sess[s].log
      /\ [sess[s] EXCEPT !.busy = b].pending = sess[s].pending
  BY <1>1 DEF Entry
<1>3. /\ sess' \in [Session -> Entry] /\ sess'[s] = [sess[s] EXCEPT !.busy = b]
      /\ \A t \in Session \ {s} : sess'[t] = sess[t]
  BY <1>1, <1>2, EntryFields
<1> QED
  BY <1>2, <1>3

LEMMA LiveFields ==
  ASSUME WebTypes, NEW s \in Session, sess' = [sess EXCEPT ![s].live = TRUE]
  PROVE  /\ sess' \in [Session -> Entry]
         /\ \A t \in Session : /\ sess'[t].log = sess[t].log /\ sess'[t].busy = sess[t].busy
                               /\ sess'[t].pending = sess[t].pending
<1>1. sess[s] \in Entry /\ sess' = [sess EXCEPT ![s] = [sess[s] EXCEPT !.live = TRUE]]
  BY DEF WebTypes
<1>2. /\ [sess[s] EXCEPT !.live = TRUE] \in Entry /\ [sess[s] EXCEPT !.live = TRUE].log = sess[s].log
      /\ [sess[s] EXCEPT !.live = TRUE].busy = sess[s].busy
      /\ [sess[s] EXCEPT !.live = TRUE].pending = sess[s].pending
  BY <1>1 DEF Entry
<1>3. /\ sess' \in [Session -> Entry] /\ sess'[s] = [sess[s] EXCEPT !.live = TRUE]
      /\ \A t \in Session \ {s} : sess'[t] = sess[t]
  BY <1>1, <1>2, EntryFields
<1> QED
  BY <1>2, <1>3

LEMMA PendingFields ==
  ASSUME WebTypes, NEW s \in Session, NEW n \in Nat, sess' = [sess EXCEPT ![s].pending = n]
  PROVE  /\ sess' \in [Session -> Entry] /\ sess'[s].pending = n
         /\ \A t \in Session \ {s} : sess'[t] = sess[t]
         /\ \A t \in Session : sess'[t].log = sess[t].log /\ sess'[t].busy = sess[t].busy
<1>1. sess[s] \in Entry /\ sess' = [sess EXCEPT ![s] = [sess[s] EXCEPT !.pending = n]]
  BY DEF WebTypes
<1>2. /\ [sess[s] EXCEPT !.pending = n] \in Entry /\ [sess[s] EXCEPT !.pending = n].log = sess[s].log
      /\ [sess[s] EXCEPT !.pending = n].busy = sess[s].busy
      /\ [sess[s] EXCEPT !.pending = n].pending = n
  BY <1>1 DEF Entry
<1>3. /\ sess' \in [Session -> Entry] /\ sess'[s] = [sess[s] EXCEPT !.pending = n]
      /\ \A t \in Session \ {s} : sess'[t] = sess[t]
  BY <1>1, <1>2, EntryFields
<1> QED
  BY <1>2, <1>3

LEMMA LogFields ==
  ASSUME WebTypes, NEW p \in Post, NEW kind \in {"asked", "denied", "started", "finished", "end"},
         Log(p, kind)
  PROVE  /\ sess' \in [Session -> Entry]
         /\ sess'[post[p].session].log = Append(sess[post[p].session].log, WebEvent(kind, p))
         /\ \A t \in Session \ {post[p].session} : sess'[t].log = sess[t].log
         /\ \A t \in Session : sess'[t].pending = sess[t].pending /\ sess'[t].busy = sess[t].busy
         /\ WebEvent(kind, p) \in Event /\ WebEvent(kind, p).of = p /\ WebEvent(kind, p).kind = kind
         /\ (kind = "end" => WebEvent(kind, p).req = 0)
         /\ kind # "end" => WebEvent(kind, p).req = post[p].req
<1> DEFINE s == post[p].session
           new == Append(sess[s].log, WebEvent(kind, p))
<1>1. s \in Session /\ sess[s] \in Entry /\ post[p] \in Message
  BY DEF WebTypes, Message
<1>2. /\ WebEvent(kind, p) \in Event /\ WebEvent(kind, p).of = p /\ WebEvent(kind, p).kind = kind
      /\ kind = "end" => WebEvent(kind, p).req = 0
      /\ kind # "end" => WebEvent(kind, p).req = post[p].req
  BY <1>1 DEF WebEvent, Event, Message
<1>3. new \in Seq(Event)
  BY <1>1, <1>2 DEF Entry
<1>4. sess' = [sess EXCEPT ![s] = [sess[s] EXCEPT !.log = new]]
  BY DEF Log
<1> HIDE DEF new
<1>5. /\ [sess[s] EXCEPT !.log = new] \in Entry /\ [sess[s] EXCEPT !.log = new].log = new
      /\ [sess[s] EXCEPT !.log = new].busy = sess[s].busy
      /\ [sess[s] EXCEPT !.log = new].pending = sess[s].pending
  BY <1>1, <1>3 DEF Entry
<1>6. /\ sess' \in [Session -> Entry] /\ sess'[s] = [sess[s] EXCEPT !.log = new]
      /\ \A t \in Session \ {s} : sess'[t] = sess[t]
  BY <1>1, <1>4, <1>5, EntryFields
<1> QED
  BY <1>2, <1>5, <1>6 DEF new

-----------------------------------------------------------------------------
(* What a step leaves of the invariant's parts. *)

LEMMA HoldersStay ==
  ASSUME Holders, WebTypes,
         \A p \in Post : /\ post'[p].session = post[p].session
                         /\ post'[p].at \in Holding <=> post[p].at \in Holding,
         \A s \in Session : sess'[s].busy = sess[s].busy
  PROVE  Holders'
<1>1. \A p \in Post : post[p].session \in Session
  BY DEF WebTypes, Message
<1> QED
  BY <1>1 DEF Holders

LEMMA RequestsStay ==
  ASSUME Requests, nextReq' = nextReq, said' = said,
         \A p \in Post :
           /\ post'[p].session = post[p].session /\ post'[p].req = post[p].req
           /\ post'[p].reply = post[p].reply /\ post'[p].allowed = post[p].allowed
           /\ post'[p].at \in ReqPhase <=> post[p].at \in ReqPhase,
         \A s \in Session : sess'[s].pending # 0 =>
           /\ sess'[s].pending = sess[s].pending
           /\ \A p \in Post : post[p].session = s /\ post[p].at \in PendPhase => post'[p].at \in PendPhase
  PROVE  Requests'
<1>1. \A s \in Session : sess'[s].pending # 0 =>
        \E p \in Post : /\ post'[p].session = s /\ post'[p].at \in PendPhase
                        /\ post'[p].req = sess'[s].pending
  BY DEF Requests
<1> QED
  BY <1>1 DEF Requests

LEMMA LogsStay ==
  ASSUME LogInv, WebTypes,
         \A s \in Session : sess'[s].log = sess[s].log,
         nextReq' \in Nat, nextReq <= nextReq', said \subseteq said', ran' = ran,
         \A p \in Post :
           /\ post'[p].session = post[p].session
           /\ post[p].at = "over" => post'[p].at = "over"
           /\ post[p].at = "tooling" => post'[p].at = "tooling" /\ post'[p].req = post[p].req
           /\ post'[p].at \in ShownPhase => post[p].at \in ShownPhase /\ post'[p].req = post[p].req
           /\ post'[p].at \in OpenPhase =>
                (post[p].at \in OpenPhase /\ post'[p].req = post[p].req) \/ post'[p].req = nextReq
  PROVE  LogInv'
<1>1. /\ nextReq \in Nat /\ ran \subseteq 1 .. nextReq - 1
      /\ \A p \in Post : post[p].session \in Session
      /\ \A s \in Session : /\ sess[s].log \in Seq(Event)
                            /\ \A i \in DOMAIN sess[s].log : sess[s].log[i] \in Event
  BY DEF WebTypes, Entry, Message
<1>2. \A s \in Session : \A i \in DOMAIN sess[s].log :
        sess[s].log[i].of \in Post /\ sess[s].log[i].req \in Nat
  BY <1>1 DEF Event
<1>3. EventsAreOwn'
  <2> SUFFICES ASSUME NEW s \in Session, NEW i \in DOMAIN sess'[s].log
               PROVE  post'[sess'[s].log[i].of].session = s /\ sess'[s].log[i].req < nextReq'
    BY DEF EventsAreOwn
  <2> DEFINE e == sess[s].log[i]
  <2>1. sess'[s].log[i] = e /\ e.of \in Post /\ e.req \in Nat
    BY <1>2
  <2>2. post[e.of].session = s /\ e.req < nextReq
    BY DEF EventsAreOwn, LogInv
  <2> HIDE DEF e
  <2>3. post'[e.of].session = s
    BY <2>1, <2>2
  <2>4. e.req < nextReq'
    BY <1>1, <2>1, <2>2
  <2> QED
    BY <2>1, <2>3, <2>4
<1>4. AskedFirst'
  <2>1. \A n, r : \A s \in Session : Asked(s, n, r) => Asked(s, n, r)'
    BY DEF Asked
  <2>2. \A s \in Session : \A i \in DOMAIN sess'[s].log :
          sess'[s].log[i].kind \in {"denied", "started"} => Asked(s, i - 1, sess[s].log[i].req)'
    BY <2>1 DEF LogInv, AskedFirst, Asked
  <2>3. ASSUME NEW p \in Post, post'[p].at \in ShownPhase
        PROVE  Asked(post[p].session, Len(sess[post[p].session].log), post[p].req)'
    <3>1. /\ post[p].at \in ShownPhase /\ post'[p].req = post[p].req
          /\ post'[p].session = post[p].session /\ post[p].session \in Session
          /\ sess'[post[p].session].log = sess[post[p].session].log
      BY <1>1, <2>3
    <3>2. Asked(post[p].session, Len(sess[post[p].session].log), post[p].req)
      BY <3>1 DEF LogInv, AskedFirst
    <3>3. PICK j \in 1 .. Len(sess[post[p].session].log) :
            /\ sess[post[p].session].log[j].kind = "asked"
            /\ sess[post[p].session].log[j].req = post[p].req
      BY <3>2 DEF Asked
    <3> QED
      BY <3>1, <3>3 DEF Asked
  <2> QED
    BY <2>2, <2>3 DEF AskedFirst
<1>5. StartedAllowed'
  BY DEF LogInv, StartedAllowed
<1>6. EndsAreLast'
  BY <1>2 DEF LogInv, EndsAreLast
<1>7. ToolsFinish'
  <2> SUFFICES ASSUME NEW s \in Session, NEW j \in DOMAIN sess'[s].log,
                      sess'[s].log[j].kind = "started"
               PROVE  /\ \/ LET p == sess'[s].log[j].of
                            IN  post'[p].at = "tooling" /\ post'[p].req = sess'[s].log[j].req
                         \/ Finished(s, j, Len(sess[s].log))'
                      /\ \A i \in DOMAIN sess'[s].log :
                           j < i /\ sess'[s].log[i].kind = "end" /\ sess'[s].log[i].of = sess'[s].log[j].of
                           => Finished(s, j, i)'
    BY DEF ToolsFinish
  <2>1. /\ sess'[s].log = sess[s].log /\ sess[s].log[j].kind = "started" /\ j \in DOMAIN sess[s].log
        /\ sess[s].log[j].of \in Post
    BY <1>2
  <2>2. \A n : Finished(s, j, n) => Finished(s, j, n)'
    BY <2>1 DEF Finished
  <2>3. Finished(s, j, Len(sess[s].log)) => Finished(s, j, Len(sess[s].log))'
    BY <2>1 DEF Finished
  <2> QED
    BY <2>1, <2>2, <2>3 DEF LogInv, ToolsFinish
<1>8. DeniedNeverRan'
  <2>1. \A s \in Session : \A i \in DOMAIN sess[s].log : sess[s].log[i].req # nextReq
    BY <1>1, <1>2 DEF LogInv, EventsAreOwn
  <2>2. nextReq \notin ran
    BY <1>1
  <2> QED
    BY <2>1, <2>2 DEF LogInv, DeniedNeverRan
<1> QED
  BY <1>3, <1>4, <1>5, <1>6, <1>7, <1>8 DEF LogInv

(* A message that is not over appends an event. *)
LEMMA LogsGrow ==
  ASSUME LogInv, WebTypes, NEW p \in Post, NEW e \in Event, e.of = p,
         e.req < nextReq, nextReq' = nextReq, said' = said,
         post[p].at # "over",
         \A t \in Session \ {post[p].session} : sess'[t].log = sess[t].log,
         sess'[post[p].session].log = Append(sess[post[p].session].log, e),
         \A q \in Post \ {p} : post'[q] = post[q],
         post'[p].session = post[p].session,
         post'[p].at \in ShownPhase =>
           post'[p].req = e.req /\ (e.kind = "asked" \/ (post[p].at \in ShownPhase /\ post[p].req = e.req)),
         post'[p].at \in OpenPhase =>
           post[p].at \in OpenPhase /\ post'[p].req = post[p].req /\ e.kind \notin {"denied", "started"},
         post[p].at = "tooling" => e.kind = "finished" /\ e.req = post[p].req,
         e.kind \in {"denied", "started"} =>
           post[p].at = "told" /\ e.req = post[p].req /\ \A q \in Post \ {p} : post[q].req # e.req,
         e.kind = "started" =>
           <<e.req, "allow">> \in said /\ post'[p].at = "tooling" /\ post'[p].req = e.req,
         e.kind = "end" => post'[p].at = "over",
         ran' = IF e.kind = "started" THEN ran \cup {e.req} ELSE ran
  PROVE  LogInv'
<1> DEFINE s == post[p].session
           log == sess[s].log
           new == Append(log, e)
           last == Len(log) + 1
<1>1. /\ nextReq \in Nat /\ ran \subseteq 1 .. nextReq - 1
      /\ s \in Session
      /\ \A t \in Session : /\ sess[t].log \in Seq(Event)
                            /\ \A i \in DOMAIN sess[t].log : sess[t].log[i] \in Event
  BY DEF WebTypes, Entry, Message
<1>2. \A t \in Session : \A i \in DOMAIN sess[t].log :
        sess[t].log[i].of \in Post /\ sess[t].log[i].req \in Nat
  BY <1>1 DEF Event
<1>3. /\ log \in Seq(Event) /\ Len(log) \in Nat /\ DOMAIN log = 1 .. Len(log)
      /\ sess'[s].log = new /\ Len(new) = last /\ DOMAIN new = 1 .. last
      /\ new[last] = e /\ \A i \in 1 .. Len(log) : new[i] = log[i]
  BY <1>1
<1> HIDE DEF new
<1>4. ASSUME NEW t \in Session
      PROVE  /\ \A i \in DOMAIN sess[t].log : i \in DOMAIN sess'[t].log /\ sess'[t].log[i] = sess[t].log[i]
             /\ \A i \in DOMAIN sess'[t].log :
                  \/ i \in DOMAIN sess[t].log /\ sess'[t].log[i] = sess[t].log[i]
                  \/ t = s /\ i = last /\ sess'[t].log[i] = e
             /\ DOMAIN sess[t].log = 1 .. Len(sess[t].log) /\ Len(sess[t].log) \in Nat
             /\ DOMAIN sess'[t].log = 1 .. Len(sess'[t].log) /\ Len(sess'[t].log) \in Nat
             /\ Len(sess[t].log) <= Len(sess'[t].log)
  <2>1. CASE t = s
    <3>1. sess'[t].log = new /\ sess[t].log = log
      BY <1>3, <2>1
    <3>2. \A n \in Nat : /\ \A i \in 1 .. n : i \in 1 .. n + 1
                         /\ \A i \in 1 .. n + 1 : i \in 1 .. n \/ i = n + 1
                         /\ n <= n + 1 /\ n + 1 \in Nat
      OBVIOUS
    <3>3. new[last] = e /\ DOMAIN log = 1 .. Len(log) /\ DOMAIN new = 1 .. last /\ Len(new) = last
          /\ Len(log) \in Nat /\ last = Len(log) + 1 /\ \A i \in 1 .. Len(log) : new[i] = log[i]
      BY <1>3
    <3> HIDE DEF log, last
    <3> QED
      BY <2>1, <3>1, <3>2, <3>3
  <2>2. CASE t # s
    BY <1>1, <2>2
  <2> QED
    BY <2>1, <2>2
<1>5. EventsAreOwn'
  <2>1. ASSUME NEW t \in Session, NEW i \in DOMAIN sess'[t].log
        PROVE  post'[sess'[t].log[i].of].session = t /\ sess'[t].log[i].req < nextReq'
    <3>1. CASE i \in DOMAIN sess[t].log /\ sess'[t].log[i] = sess[t].log[i]
      BY <1>2, <3>1 DEF EventsAreOwn, LogInv
    <3>2. CASE t = s /\ i = last /\ sess'[t].log[i] = e
      BY <3>2
    <3> QED
      BY <1>4, <2>1, <3>1, <3>2
  <2> QED
    BY <2>1 DEF EventsAreOwn
<1>6. AskedFirst'
  <2> DEFINE Then(t, n, r) == \E j \in 1 .. n : sess'[t].log[j].kind = "asked" /\ sess'[t].log[j].req = r
  <2>2. ASSUME NEW t \in Session, NEW i \in DOMAIN sess'[t].log,
               sess'[t].log[i].kind \in {"denied", "started"}
        PROVE  Then(t, i - 1, sess'[t].log[i].req)
    <3>1. CASE i \in DOMAIN sess[t].log /\ sess'[t].log[i] = sess[t].log[i]
      <4>1. Asked(t, i - 1, sess[t].log[i].req) /\ i - 1 \in Nat /\ i - 1 <= Len(sess[t].log)
        BY <1>4, <2>2, <3>1 DEF LogInv, AskedFirst
      <4>2. PICK j \in 1 .. i - 1 : /\ sess[t].log[j].kind = "asked"
                                   /\ sess[t].log[j].req = sess[t].log[i].req
        BY <4>1 DEF Asked
      <4>3. sess'[t].log[j] = sess[t].log[j]
        <5>1. j \in DOMAIN sess[t].log
          <6>1. DOMAIN sess[t].log = 1 .. Len(sess[t].log) /\ Len(sess[t].log) \in Nat
            BY <1>4
          <6> QED
            BY <4>1, <4>2, <6>1
        <5> QED
          BY <1>4, <5>1
      <4> QED
        BY <3>1, <4>2, <4>3
    <3>2. CASE t = s /\ i = last /\ sess'[t].log[i] = e
      <4>1. post[p].at \in ShownPhase /\ e.req = post[p].req
        BY <2>2, <3>2 DEF ShownPhase
      <4>2. Asked(s, Len(log), post[p].req)
        BY <4>1 DEF LogInv, AskedFirst
      <4>3. i - 1 = Len(log) /\ Len(log) \in Nat
        BY <1>3, <3>2
      <4>4. PICK j \in 1 .. Len(log) : log[j].kind = "asked" /\ log[j].req = post[p].req
        BY <4>2 DEF Asked
      <4>5. new[j] = log[j] /\ j \in 1 .. i - 1
        BY <1>3, <4>3, <4>4
      <4>6. sess'[t].log[j].kind = "asked" /\ sess'[t].log[j].req = sess'[t].log[i].req
        <5>1. sess'[t].log = new
          BY <1>3, <3>2
        <5>2. sess'[t].log[j] = log[j]
          BY <4>5, <5>1
        <5> QED
          BY <3>2, <4>1, <4>4, <5>2
      <4> QED
        BY <4>5, <4>6
    <3> QED
      BY <1>4, <2>2, <3>1, <3>2
  <2>3. ASSUME NEW q \in Post, post'[q].at \in ShownPhase
        PROVE  Then(post'[q].session, Len(sess'[post'[q].session].log), post'[q].req)
    <3> DEFINE t == post[q].session
    <3>1. t \in Session /\ post'[q].session = t
      BY DEF WebTypes, Message
    <3>2. CASE post[q].at \in ShownPhase /\ post'[q].req = post[q].req
      <4>1. Asked(t, Len(sess[t].log), post[q].req)
        BY <3>2 DEF LogInv, AskedFirst
      <4>2. /\ Len(sess[t].log) \in Nat /\ Len(sess'[t].log) \in Nat
            /\ Len(sess[t].log) <= Len(sess'[t].log)
        BY <1>4, <3>1
      <4>3. PICK j \in 1 .. Len(sess[t].log) : /\ sess[t].log[j].kind = "asked"
                                              /\ sess[t].log[j].req = post[q].req
        BY <4>1 DEF Asked
      <4>4. sess'[t].log[j] = sess[t].log[j] /\ j \in 1 .. Len(sess'[t].log)
        BY <1>4, <3>1, <4>2, <4>3
      <4>5. \E k \in 1 .. Len(sess'[t].log) : /\ sess'[t].log[k].kind = "asked"
                                              /\ sess'[t].log[k].req = post'[q].req
        BY <3>2, <4>3, <4>4
      <4> QED
        BY <3>1, <4>5
    <3>3. CASE q = p /\ e.kind = "asked" /\ post'[p].req = e.req
      <4>1. /\ t = s /\ Len(sess'[s].log) = last /\ last \in 1 .. last
            /\ sess'[s].log[last].kind = "asked" /\ sess'[s].log[last].req = post'[q].req
        BY <1>3, <3>1, <3>3
      <4>2. \E j \in 1 .. Len(sess'[s].log) :
              sess'[s].log[j].kind = "asked" /\ sess'[s].log[j].req = post'[q].req
        BY <4>1
      <4>3. post'[q].session = s
        BY <3>1, <4>1
      <4> QED
        BY <4>2, <4>3
    <3> QED
      BY <2>3, <3>2, <3>3
  <2> QED
    BY <2>2, <2>3 DEF AskedFirst, Asked
<1>7. StartedAllowed'
  BY <1>4 DEF LogInv, StartedAllowed
<1>8. EndsAreLast'
  <2>1. \A i \in DOMAIN log : log[i].kind = "end" => log[i].of # p
    BY <1>1 DEF LogInv, EndsAreLast
  <2>2. ASSUME NEW t \in Session, NEW i \in DOMAIN sess'[t].log, sess'[t].log[i].kind = "end"
        PROVE  /\ post'[sess'[t].log[i].of].at = "over"
               /\ \A j \in DOMAIN sess'[t].log : i < j => sess'[t].log[j].of # sess'[t].log[i].of
    <3>1. CASE i \in DOMAIN sess[t].log /\ sess'[t].log[i] = sess[t].log[i]
      <4>1. /\ post[sess[t].log[i].of].at = "over" /\ sess[t].log[i].of # p
            /\ \A j \in DOMAIN sess[t].log : i < j => sess[t].log[j].of # sess[t].log[i].of
        BY <2>2, <3>1 DEF LogInv, EndsAreLast
      <4>2. post'[sess'[t].log[i].of].at = "over"
        BY <1>2, <3>1, <4>1
      <4>3. ASSUME NEW j \in DOMAIN sess'[t].log, i < j
            PROVE  sess'[t].log[j].of # sess'[t].log[i].of
        <5>1. CASE j \in DOMAIN sess[t].log /\ sess'[t].log[j] = sess[t].log[j]
          BY <3>1, <4>1, <4>3, <5>1
        <5>2. CASE sess'[t].log[j] = e
          BY <3>1, <4>1, <5>2
        <5> QED
          BY <1>4, <5>1, <5>2
      <4> QED
        BY <4>2, <4>3
    <3>2. CASE t = s /\ i = last /\ sess'[t].log[i] = e
      <4>1. \A j \in DOMAIN sess'[t].log : ~(i < j)
        BY <1>3, <3>2
      <4> QED
        BY <2>2, <3>2, <4>1
    <3> QED
      BY <1>4, <3>1, <3>2
  <2> QED
    BY <2>2 DEF EndsAreLast
<1>9. ToolsFinish'
  <2> DEFINE Then(t, j, n) == \E k \in j .. n : /\ sess'[t].log[k].kind = "finished"
                                               /\ sess'[t].log[k].req = sess'[t].log[j].req
  <2> SUFFICES ASSUME NEW t \in Session, NEW j \in DOMAIN sess'[t].log,
                      sess'[t].log[j].kind = "started"
               PROVE  /\ \/ LET q == sess'[t].log[j].of
                            IN  post'[q].at = "tooling" /\ post'[q].req = sess'[t].log[j].req
                         \/ Then(t, j, Len(sess'[t].log))
                      /\ \A i \in DOMAIN sess'[t].log :
                           j < i /\ sess'[t].log[i].kind = "end" /\ sess'[t].log[i].of = sess'[t].log[j].of
                           => Then(t, j, i)
    BY DEF ToolsFinish, Finished
  <2>1. CASE t = s /\ j = last /\ sess'[t].log[j] = e
    <3>1. post'[e.of].at = "tooling" /\ post'[e.of].req = e.req
      BY <2>1
    <3>2. \A i \in DOMAIN sess'[t].log : ~(j < i)
      <4>1. last \in Nat
        BY <1>3
      <4> HIDE DEF last, log
      <4>2. DOMAIN sess'[t].log = 1 .. last /\ j = last
        BY <1>3, <2>1
      <4> QED
        BY <4>1, <4>2
    <3> QED
      BY <2>1, <3>1, <3>2
  <2>2. CASE j \in DOMAIN sess[t].log /\ sess'[t].log[j] = sess[t].log[j]
    <3>2. sess[t].log[j].kind = "started" /\ sess[t].log[j].of \in Post
      BY <1>2, <2>2
    <3>3. CASE Finished(t, j, Len(sess[t].log))
      <4>1. PICK k \in j .. Len(sess[t].log) : /\ sess[t].log[k].kind = "finished"
                                               /\ sess[t].log[k].req = sess[t].log[j].req
        BY <3>3 DEF Finished
      <4>2. /\ sess'[t].log[k] = sess[t].log[k] /\ k \in Nat /\ j \in Nat
            /\ Len(sess[t].log) \in Nat /\ Len(sess'[t].log) \in Nat
            /\ Len(sess[t].log) <= Len(sess'[t].log)
        BY <1>4, <2>2, <4>1
      <4>3. k \in j .. Len(sess'[t].log) /\ \A m \in Nat : Len(sess[t].log) <= m => k \in j .. m
        BY <4>1, <4>2
      <4>4. sess'[t].log[k].kind = "finished" /\ sess'[t].log[k].req = sess'[t].log[j].req
        BY <2>2, <4>1, <4>2
      <4>5. ASSUME NEW i \in DOMAIN sess'[t].log, j < i, sess'[t].log[i].kind = "end",
                   sess'[t].log[i].of = sess'[t].log[j].of
            PROVE  Then(t, j, i)
        <5>1. CASE i \in DOMAIN sess[t].log /\ sess'[t].log[i] = sess[t].log[i]
          <6>0. /\ i \in DOMAIN sess[t].log /\ sess[t].log[i].kind = "end"
                /\ sess[t].log[i].of = sess[t].log[j].of
            BY <2>2, <4>5, <5>1
          <6>1. Finished(t, j, i) /\ i \in Nat /\ i <= Len(sess[t].log)
            <7>1. i \in Nat /\ i <= Len(sess[t].log)
              <8>1. DOMAIN sess[t].log = 1 .. Len(sess[t].log) /\ Len(sess[t].log) \in Nat
                BY <1>4
              <8> QED
                BY <6>0, <8>1
            <7>2. ToolsFinish
              BY DEF LogInv
            <7>3. Finished(t, j, i)
              BY <2>2, <3>2, <4>5, <6>0, <7>2 DEF ToolsFinish
            <7> QED
              BY <7>1, <7>3
          <6>2. PICK l \in j .. i : /\ sess[t].log[l].kind = "finished"
                                    /\ sess[t].log[l].req = sess[t].log[j].req
            BY <6>1 DEF Finished
          <6>3. sess'[t].log[l] = sess[t].log[l]
            BY <1>4, <2>2, <6>1, <6>2
          <6> QED
            BY <2>2, <6>2, <6>3
        <5>2. CASE t = s /\ i = last
          <6>1. i \in Nat /\ Len(sess[t].log) <= i
            <7>1. sess[t].log = log
              BY <5>2
            <7>2. Len(log) \in Nat /\ i = Len(log) + 1
              BY <1>3, <5>2
            <7> HIDE DEF log
            <7> QED
              BY <7>1, <7>2
          <6> QED
            BY <4>3, <4>4, <6>1
        <5> QED
          BY <1>4, <4>5, <5>1, <5>2
      <4> QED
        BY <4>3, <4>4, <4>5
    <3>4. CASE ~Finished(t, j, Len(sess[t].log))
      <4> DEFINE q == sess[t].log[j].of
      <4>1. /\ post[q].at = "tooling" /\ post[q].req = sess[t].log[j].req /\ q \in Post
            /\ post[q].session = t
        BY <2>2, <3>2, <3>4 DEF LogInv, ToolsFinish, EventsAreOwn
      <4>2. \A i \in DOMAIN sess'[t].log : sess'[t].log[i].kind = "end" => sess'[t].log[i].of # q
        <5>1. ASSUME NEW i \in DOMAIN sess'[t].log, sess'[t].log[i].kind = "end",
                     i \in DOMAIN sess[t].log, sess'[t].log[i] = sess[t].log[i]
              PROVE  sess'[t].log[i].of # q
          <6>1. sess[t].log[i].kind = "end"
            BY <5>1
          <6>2. EndsAreLast
            BY DEF LogInv
          <6>3. post[sess[t].log[i].of].at = "over"
            BY <5>1, <6>1, <6>2 DEF EndsAreLast
          <6> QED
            BY <4>1, <5>1, <6>3
        <5>2. e.kind = "end" => e.of # q
          BY <4>1
        <5> QED
          BY <1>4, <5>1, <5>2
      <4>3. CASE q # p
        BY <2>2, <4>1, <4>2, <4>3
      <4>4. CASE q = p
        <5>1. t = s /\ e.kind = "finished" /\ e.req = sess[t].log[j].req /\ j <= last /\ j \in Nat
          BY <1>3, <2>2, <4>1, <4>4
        <5>2. Then(t, j, Len(sess'[t].log))
          <6>1. /\ Len(sess'[t].log) = last /\ last \in j .. last
                /\ sess'[t].log[last].kind = "finished"
                /\ sess'[t].log[last].req = sess'[t].log[j].req
            <7>1. sess'[t].log = new /\ new[last] = e /\ Len(new) = last /\ last \in Nat
              BY <1>3, <5>1
            <7>2. last \in j .. last
              BY <5>1, <7>1
            <7> QED
              BY <2>2, <5>1, <7>1, <7>2
          <6>2. \E k \in j .. Len(sess'[t].log) :
                  sess'[t].log[k].kind = "finished" /\ sess'[t].log[k].req = sess'[t].log[j].req
            BY <6>1
          <6> QED
            BY <6>2
        <5> QED
          BY <2>2, <4>2, <5>2
      <4> QED
        BY <4>3, <4>4
    <3> QED
      BY <3>3, <3>4
  <2> QED
    BY <1>4, <2>1, <2>2
<1>10. DeniedNeverRan'
  <2>1. /\ post[p].at = "told" => post[p].req \notin ran
        /\ \A t \in Session : \A i \in DOMAIN sess[t].log :
             sess[t].log[i].kind = "denied" /\ post[p].at = "told" => sess[t].log[i].req # post[p].req
    BY DEF LogInv, DeniedNeverRan, OpenPhase
  <2>2. ASSUME NEW t \in Session, NEW i \in DOMAIN sess'[t].log, sess'[t].log[i].kind = "denied"
        PROVE  /\ sess'[t].log[i].req \notin ran'
               /\ \A q \in Post : post'[q].at \in OpenPhase => post'[q].req # sess'[t].log[i].req
    <3>1. CASE i \in DOMAIN sess[t].log /\ sess'[t].log[i] = sess[t].log[i]
      <4>1. /\ sess[t].log[i].req \notin ran
            /\ \A q \in Post : post[q].at \in OpenPhase => post[q].req # sess[t].log[i].req
        BY <2>2, <3>1 DEF LogInv, DeniedNeverRan
      <4>2. sess[t].log[i].req \notin ran'
        BY <2>1, <2>2, <3>1, <4>1
      <4> QED
        BY <3>1, <4>1, <4>2
    <3>2. CASE t = s /\ i = last /\ sess'[t].log[i] = e
      <4>1. e.req \notin ran' /\ \A q \in Post \ {p} : post'[q].req # e.req
        BY <2>1, <2>2, <3>2
      <4> QED
        BY <2>2, <3>2, <4>1
    <3> QED
      BY <1>4, <3>1, <3>2
  <2>3. ASSUME NEW q \in Post, post'[q].at \in OpenPhase
        PROVE  post'[q].req \notin ran'
    <3>1. post[q].at \in OpenPhase /\ post'[q].req = post[q].req /\ post[q].req \notin ran
      BY <2>3 DEF LogInv, DeniedNeverRan
    <3>2. e.kind = "started" => post[q].req # e.req
      BY <2>3
    <3> QED
      BY <3>1, <3>2
  <2> QED
    BY <2>2, <2>3 DEF DeniedNeverRan
<1> QED
  BY <1>5, <1>6, <1>7, <1>8, <1>9, <1>10 DEF LogInv

-----------------------------------------------------------------------------
(* The steps.  Those that only move a message, and may set or clear the    *)
(* flag or the slot of its session.                                        *)

LEMMA Moved ==
  ASSUME WebInv, NEW p \in Post, NEW phase \in Phase, WebGoes(p, phase),
         nextReq' = nextReq, said' = said, ran' = ran,
         post[p].at \notin {"over", "tooling"},
         phase \in ReqPhase <=> post[p].at \in ReqPhase,
         phase \in ShownPhase => post[p].at \in ShownPhase,
         phase \in OpenPhase => post[p].at \in OpenPhase,
         sess' \in [Session -> Entry],
         \A s \in Session : sess'[s].log = sess[s].log,
         \A s \in Session : sess'[s].pending # 0 =>
           /\ sess'[s].pending = sess[s].pending
           /\ s = post[p].session => (post[p].at \in PendPhase => phase \in PendPhase)
  PROVE  WebTypes' /\ Requests' /\ LogInv'
<1>1. /\ post' \in [Post -> Message] /\ post'[p].at = phase
      /\ \A q \in Post \ {p} : post'[q] = post[q]
      /\ \A q \in Post : /\ post'[q].session = post[q].session /\ post'[q].req = post[q].req
                         /\ post'[q].reply = post[q].reply /\ post'[q].allowed = post[q].allowed
  BY GoesFields DEF WebInv
<1>2. WebTypes'
  BY <1>1 DEF WebInv, WebTypes
<1>3. Requests'
  <2>1. \A q \in Post : post'[q].at \in ReqPhase <=> post[q].at \in ReqPhase
    BY <1>1
  <2>2. \A s \in Session : sess'[s].pending # 0 =>
          \A q \in Post : post[q].session = s /\ post[q].at \in PendPhase => post'[q].at \in PendPhase
    BY <1>1
  <2> QED
    BY <1>1, <2>1, <2>2, RequestsStay DEF WebInv
<1>4. LogInv'
  <2>1. nextReq' \in Nat /\ nextReq <= nextReq'
    BY DEF WebInv, WebTypes
  <2>2. \A q \in Post :
          /\ post'[q].session = post[q].session
          /\ post[q].at = "over" => post'[q].at = "over"
          /\ post[q].at = "tooling" => post'[q].at = "tooling" /\ post'[q].req = post[q].req
          /\ post'[q].at \in ShownPhase => post[q].at \in ShownPhase /\ post'[q].req = post[q].req
          /\ post'[q].at \in OpenPhase => post[q].at \in OpenPhase /\ post'[q].req = post[q].req
    BY <1>1
  <2> QED
    BY <2>1, <2>2, LogsStay DEF WebInv
<1> QED
  BY <1>2, <1>3, <1>4

(* The holders, when the message stays one or stays none. *)
LEMMA MovedHolds ==
  ASSUME WebInv, NEW p \in Post, NEW phase \in Phase, WebGoes(p, phase),
         phase \in Holding <=> post[p].at \in Holding,
         \A s \in Session : sess'[s].busy = sess[s].busy
  PROVE  Holders'
<1>1. \A q \in Post : /\ post'[q].session = post[q].session
                      /\ post'[q].at \in Holding <=> post[q].at \in Holding
  BY GoesFields DEF WebInv
<1> QED
  BY <1>1, HoldersStay DEF WebInv

(* And when it takes the session, or leaves it. *)
LEMMA TakesSession ==
  ASSUME WebInv, NEW p \in Post, WebGoes(p, "started"), post[p].at \notin Holding,
         ~sess[post[p].session].busy,
         sess' = [sess EXCEPT ![post[p].session].busy = TRUE]
  PROVE  Holders'
<1> DEFINE s == post[p].session
<1>1. s \in Session /\ \A q \in Post : post[q].session \in Session
  BY DEF WebInv, WebTypes, Message
<1>2. sess'[s].busy = TRUE /\ \A t \in Session \ {s} : sess'[t] = sess[t]
  BY <1>1, BusyFields DEF WebInv
<1>3. /\ post'[p].at = "started" /\ \A q \in Post \ {p} : post'[q] = post[q]
      /\ \A q \in Post : post'[q].session = post[q].session
      /\ "started" \in Holding
  BY GoesFields, PhasesAre DEF WebInv, Holding
<1>4. \A q \in Post : post[q].session = s => post[q].at \notin Holding
  BY DEF WebInv, Holders
<1> QED
  BY <1>1, <1>2, <1>3, <1>4 DEF WebInv, Holders

LEMMA LeavesSession ==
  ASSUME WebInv, NEW p \in Post, NEW phase \in Phase, WebGoes(p, phase),
         post[p].at \in Holding, phase \notin Holding,
         sess' = [sess EXCEPT ![post[p].session].busy = FALSE]
  PROVE  Holders'
<1> DEFINE s == post[p].session
<1>1. s \in Session /\ \A q \in Post : post[q].session \in Session
  BY DEF WebInv, WebTypes, Message
<1>2. sess'[s].busy = FALSE /\ \A t \in Session \ {s} : sess'[t] = sess[t]
  BY <1>1, BusyFields DEF WebInv
<1>3. /\ post'[p].at = phase /\ \A q \in Post \ {p} : post'[q] = post[q]
      /\ \A q \in Post : post'[q].session = post[q].session
  BY GoesFields DEF WebInv
<1>4. \A q \in Post \ {p} : post[q].session = s => post[q].at \notin Holding
  BY DEF WebInv, Holders
<1> QED
  BY <1>1, <1>2, <1>3, <1>4 DEF WebInv, Holders

LEMMA HandlerKeepsInv ==
  ASSUME WebInv, NEW p \in Post, SendMessageHandler(p)
  PROVE  WebInv'
<1> DEFINE s == post[p].session
<1>0. s \in Session /\ sess \in [Session -> Entry] /\ WebTypes
  BY DEF WebInv, WebTypes, Message
<1> USE PhasesAre
<1>1. CASE EnsureSession(p)
  <2>1. PICK phase \in {"ensured", "over"} : WebGoes(p, phase)
    BY <1>1 DEF EnsureSession
  <2>2. post[p].at = "sent" /\ nextReq' = nextReq /\ said' = said /\ ran' = ran
    BY <1>1 DEF EnsureSession
  <2>3. /\ sess' \in [Session -> Entry]
        /\ \A t \in Session : /\ sess'[t].log = sess[t].log /\ sess'[t].busy = sess[t].busy
                              /\ sess'[t].pending = sess[t].pending
    <3>1. CASE sess' = [sess EXCEPT ![s].live = TRUE]
      BY <1>0, <3>1, LiveFields
    <3>2. CASE UNCHANGED sess
      BY <1>0, <3>2
    <3> QED
      BY <1>1, <3>1, <3>2 DEF EnsureSession
  <2>4. /\ phase \in Phase /\ phase \notin Holding /\ post[p].at \notin Holding
        /\ phase \notin ReqPhase \cup ShownPhase \cup OpenPhase
        /\ post[p].at \notin ReqPhase \cup PendPhase \cup {"over", "tooling"}
    BY <2>1, <2>2 DEF Holding, ReqPhase, ShownPhase, OpenPhase, PendPhase, Phase
  <2> QED
    BY <2>1, <2>2, <2>3, <2>4, Moved, MovedHolds DEF WebInv
<1>2. CASE TryStart(p)
  <2>1. /\ post[p].at = "ensured" /\ nextReq' = nextReq /\ said' = said /\ ran' = ran
        /\ post[p].at \notin ReqPhase \cup PendPhase \cup Holding \cup {"over", "tooling"}
    BY <1>2 DEF TryStart, Holding, ReqPhase, OpenPhase, PendPhase
  <2>2. CASE sess[s].busy
    <3>1. WebGoes(p, "over") /\ sess' = sess
      BY <1>2, <2>2 DEF TryStart
    <3>2. "over" \in Phase /\ "over" \notin Holding \cup ReqPhase \cup ShownPhase \cup OpenPhase
      BY DEF Holding, ReqPhase, ShownPhase, OpenPhase
    <3> QED
      BY <1>0, <2>1, <3>1, <3>2, Moved, MovedHolds DEF WebInv
  <2>3. CASE ~sess[s].busy
    <3>1. WebGoes(p, "started") /\ sess' = [sess EXCEPT ![s].busy = TRUE]
      BY <1>2, <2>3 DEF TryStart
    <3>2. "started" \in Phase /\ "started" \notin ReqPhase \cup ShownPhase \cup OpenPhase
      BY DEF ReqPhase, ShownPhase, OpenPhase
    <3>3. /\ sess' \in [Session -> Entry]
          /\ \A t \in Session : sess'[t].log = sess[t].log /\ sess'[t].pending = sess[t].pending
      BY <1>0, <3>1, BusyFields
    <3>4. Holders'
      BY <2>1, <2>3, <3>1, TakesSession
    <3> QED
      BY <2>1, <3>1, <3>2, <3>3, <3>4, Moved DEF WebInv
  <2> QED
    BY <2>2, <2>3
<1>3. CASE CannotStart(p)
  <2>1. /\ post[p].at = "started" /\ nextReq' = nextReq /\ said' = said /\ ran' = ran
        /\ post[p].at \notin ReqPhase \cup PendPhase \cup {"over", "tooling"} /\ post[p].at \in Holding
        /\ WebGoes(p, "over") /\ sess' = [sess EXCEPT ![s].busy = FALSE]
    BY <1>3 DEF CannotStart, Holding, ReqPhase, OpenPhase, PendPhase
  <2>2. "over" \in Phase /\ "over" \notin Holding \cup ReqPhase \cup ShownPhase \cup OpenPhase
    BY DEF Holding, ReqPhase, ShownPhase, OpenPhase
  <2>3. /\ sess' \in [Session -> Entry]
        /\ \A t \in Session : sess'[t].log = sess[t].log /\ sess'[t].pending = sess[t].pending
    BY <1>0, <2>1, BusyFields
  <2>4. Holders'
    BY <2>1, <2>2, LeavesSession
  <2> QED
    BY <2>1, <2>2, <2>3, <2>4, Moved DEF WebInv
<1> QED
  BY <1>1, <1>2, <1>3 DEF SendMessageHandler

LEMMA BackFields ==
  ASSUME WebTypes, NEW p \in Post, BackToLoop(p)
  PROVE  /\ post' \in [Post -> Message]
         /\ post'[p].at = "running" /\ post'[p].session = post[p].session /\ post'[p].req = 0
         /\ post'[p].reply = "none" /\ post'[p].allowed = FALSE
         /\ \A q \in Post \ {p} : post'[q] = post[q]
<1> DEFINE m == [post[p] EXCEPT !.at = "running", !.req = 0, !.reply = "none", !.allowed = FALSE]
<1>1. post[p] \in Message /\ "running" \in Phase
  BY PhasesAre DEF WebTypes
<1>2. /\ m \in Message /\ m.at = "running" /\ m.session = post[p].session /\ m.req = 0
      /\ m.reply = "none" /\ m.allowed = FALSE
  BY <1>1 DEF Message
<1>3. post' = [post EXCEPT ![p] = m]
  BY DEF BackToLoop
<1> HIDE DEF m
<1> QED
  BY <1>2, <1>3, MessageFields

(* Going back to the loop gives up the request. *)
LEMMA BackKeepsRequests ==
  ASSUME WebInv, NEW p \in Post, BackToLoop(p), post[p].at \in {"told", "tooling"},
         nextReq' = nextReq, said' = said,
         \A s \in Session : sess'[s].pending = sess[s].pending
  PROVE  Requests'
<1>1. /\ post'[p].at = "running" /\ post'[p].session = post[p].session /\ post'[p].req = 0
      /\ post'[p].reply = "none" /\ post'[p].allowed = FALSE
      /\ \A q \in Post \ {p} : post'[q] = post[q]
  BY BackFields DEF WebInv
<1>2. "running" \notin ReqPhase /\ post[p].at \notin PendPhase
  BY DEF ReqPhase, OpenPhase, PendPhase
<1>3. \A s \in Session : sess'[s].pending # 0 =>
        \E q \in Post : /\ post'[q].session = s /\ post'[q].at \in PendPhase
                        /\ post'[q].req = sess'[s].pending
  <2>1. ASSUME NEW s \in Session, sess[s].pending # 0
        PROVE  \E q \in Post : /\ post'[q].session = s /\ post'[q].at \in PendPhase
                               /\ post'[q].req = sess[s].pending
    <3>1. PICK q \in Post : /\ post[q].session = s /\ post[q].at \in PendPhase
                            /\ post[q].req = sess[s].pending
      BY <2>1 DEF WebInv, Requests
    <3> QED
      BY <1>1, <1>2, <3>1
  <2> QED
    BY <2>1
<1>4. \A q \in Post : IF post'[q].at \in ReqPhase THEN post'[q].req \in 1 .. nextReq - 1
                      ELSE post'[q].req = 0
  BY <1>1, <1>2 DEF WebInv, Requests
<1>5. \A q, r \in Post : post'[q].req # 0 /\ post'[q].req = post'[r].req => q = r
  BY <1>1 DEF WebInv, Requests
<1>6. \A q \in Post : post'[q].reply = "allow" \/ post'[q].allowed => <<post'[q].req, "allow">> \in said'
  BY <1>1 DEF WebInv, Requests
<1> QED
  BY <1>3, <1>4, <1>5, <1>6 DEF Requests

LEMMA RequestKeepsInv ==
  ASSUME WebInv, NEW p \in Post, RequestPermission(p)
  PROVE  WebInv'
<1> DEFINE s == post[p].session
<1>0. s \in Session /\ sess \in [Session -> Entry] /\ WebTypes /\ post[p] \in Message
      /\ nextReq \in Nat /\ nextReq > 0 /\ ran \subseteq 1 .. nextReq - 1
  BY DEF WebInv, WebTypes, Message
<1> USE PhasesAre
<1>1. CASE Ask(p)
  <2> DEFINE m == [post[p] EXCEPT !.at = "asking", !.req = nextReq, !.reply = "none", !.allowed = FALSE]
  <2>1. /\ m \in Message /\ m.at = "asking" /\ m.session = s /\ m.req = nextReq
        /\ m.reply = "none" /\ m.allowed = FALSE
    BY <1>0 DEF Message
  <2>2. post' = [post EXCEPT ![p] = m]
    BY <1>1 DEF Ask
  <2> HIDE DEF m
  <2>3. post' \in [Post -> Message] /\ post'[p] = m /\ \A q \in Post \ {p} : post'[q] = post[q]
    BY <1>0, <2>1, <2>2, MessageFields
  <2>4. /\ sess' \in [Session -> Entry] /\ sess'[s].pending = nextReq
        /\ \A t \in Session \ {s} : sess'[t] = sess[t]
        /\ \A t \in Session : sess'[t].log = sess[t].log /\ sess'[t].busy = sess[t].busy
    BY <1>0, <1>1, PendingFields DEF Ask
  <2>5. post[p].at = "running" /\ nextReq' = nextReq + 1 /\ said' = said /\ ran' = ran
    BY <1>1 DEF Ask
  <2>6. nextReq' \in Nat /\ nextReq' > 0 /\ nextReq <= nextReq' /\ nextReq \in 1 .. nextReq' - 1
        /\ \A n \in 1 .. nextReq - 1 : n \in 1 .. nextReq' - 1 /\ n # nextReq
        /\ nextReq # 0
    BY <1>0, <2>5
  <2>7. WebTypes'
    BY <1>0, <2>3, <2>4, <2>5, <2>6 DEF WebTypes
  <2>8. Holders'
    <3>1. \A q \in Post : /\ post'[q].session = post[q].session
                          /\ post'[q].at \in Holding <=> post[q].at \in Holding
      BY <2>1, <2>3, <2>5 DEF Holding
    <3> QED
      BY <2>4, <3>1, HoldersStay DEF WebInv
  <2>9. Requests'
    <3>1. \A q \in Post : IF post'[q].at \in ReqPhase THEN post'[q].req \in 1 .. nextReq' - 1
                          ELSE post'[q].req = 0
      <4>1. \A q \in Post \ {p} : IF post'[q].at \in ReqPhase THEN post'[q].req \in 1 .. nextReq' - 1
                                  ELSE post'[q].req = 0
        BY <2>3, <2>6 DEF WebInv, Requests
      <4>2. post'[p].at \in ReqPhase /\ post'[p].req \in 1 .. nextReq' - 1
        BY <2>1, <2>3, <2>6 DEF ReqPhase, OpenPhase
      <4> QED
        BY <4>1, <4>2
    <3>2. \A q \in Post : post[q].req # nextReq
      BY <2>6 DEF WebInv, Requests
    <3>3. \A q, r \in Post : post'[q].req # 0 /\ post'[q].req = post'[r].req => q = r
      BY <2>1, <2>3, <3>2 DEF WebInv, Requests
    <3>4. ASSUME NEW t \in Session, sess'[t].pending # 0
          PROVE  \E q \in Post : /\ post'[q].session = t /\ post'[q].at \in PendPhase
                                 /\ post'[q].req = sess'[t].pending
      <4>1. CASE t = s
        <5>1. /\ post'[p].session = t /\ post'[p].at \in PendPhase
              /\ post'[p].req = sess'[t].pending
          BY <2>1, <2>3, <2>4, <4>1 DEF PendPhase
        <5> QED
          BY <5>1
      <4>2. CASE t # s
        <5>1. sess'[t] = sess[t]
          BY <2>4, <4>2
        <5>2. PICK q \in Post : /\ post[q].session = t /\ post[q].at \in PendPhase
                                /\ post[q].req = sess[t].pending
          BY <3>4, <5>1 DEF WebInv, Requests
        <5> QED
          BY <2>3, <4>2, <5>1, <5>2
      <4> QED
        BY <4>1, <4>2
    <3>5. \A q \in Post : post'[q].reply = "allow" \/ post'[q].allowed => <<post'[q].req, "allow">> \in said'
      BY <2>1, <2>3, <2>5 DEF WebInv, Requests
    <3> QED
      BY <3>1, <3>3, <3>4, <3>5 DEF Requests
  <2>10. LogInv'
    <3>1. \A q \in Post :
            /\ post'[q].session = post[q].session
            /\ post[q].at = "over" => post'[q].at = "over"
            /\ post[q].at = "tooling" => post'[q].at = "tooling" /\ post'[q].req = post[q].req
            /\ post'[q].at \in ShownPhase => post[q].at \in ShownPhase /\ post'[q].req = post[q].req
            /\ post'[q].at \in OpenPhase =>
                 (post[q].at \in OpenPhase /\ post'[q].req = post[q].req) \/ post'[q].req = nextReq
      BY <2>1, <2>3, <2>5 DEF ShownPhase
    <3> QED
      BY <2>4, <2>5, <2>6, <3>1, LogsStay DEF WebInv
  <2> QED
    BY <2>7, <2>8, <2>9, <2>10 DEF WebInv
<1>2. CASE PublishAsk(p)
  <2> DEFINE e == WebEvent("asked", p)
  <2>1. /\ post[p].at = "asking" /\ WebGoes(p, "waiting") /\ Log(p, "asked")
        /\ nextReq' = nextReq /\ said' = said /\ ran' = ran
    BY <1>2 DEF PublishAsk
  <2>2. /\ sess' \in [Session -> Entry]
        /\ sess'[s].log = Append(sess[s].log, e)
        /\ \A t \in Session \ {s} : sess'[t].log = sess[t].log
        /\ \A t \in Session : sess'[t].pending = sess[t].pending /\ sess'[t].busy = sess[t].busy
        /\ e \in Event /\ e.of = p /\ e.kind = "asked" /\ e.req = post[p].req
    BY <1>0, <2>1, LogFields
  <2>3. /\ post' \in [Post -> Message] /\ post'[p].at = "waiting"
        /\ \A q \in Post \ {p} : post'[q] = post[q]
        /\ \A q \in Post : /\ post'[q].session = post[q].session /\ post'[q].req = post[q].req
                           /\ post'[q].reply = post[q].reply /\ post'[q].allowed = post[q].allowed
    BY <1>0, <2>1, GoesFields
  <2> HIDE DEF e
  <2>4. WebTypes'
    BY <1>0, <2>1, <2>2, <2>3 DEF WebTypes
  <2>5. Holders'
    BY <2>1, <2>2, MovedHolds DEF Holding
  <2>6. Requests'
    <3>1. \A q \in Post : post'[q].at \in ReqPhase <=> post[q].at \in ReqPhase
      BY <2>1, <2>3 DEF ReqPhase, OpenPhase
    <3>2. \A t \in Session, q \in Post : post[q].at \in PendPhase => post'[q].at \in PendPhase
      BY <2>3 DEF PendPhase
    <3> QED
      BY <2>1, <2>2, <2>3, <3>1, <3>2, RequestsStay DEF WebInv
  <2>7. LogInv'
    <3>1. e.req < nextReq
      <4>1. post[p].req \in 1 .. nextReq - 1
        BY <2>1 DEF WebInv, Requests, ReqPhase, OpenPhase
      <4> QED
        BY <1>0, <2>2, <4>1
    <3>2. /\ post'[p].at \in ShownPhase =>
               post'[p].req = e.req /\ (e.kind = "asked" \/ (post[p].at \in ShownPhase /\ post[p].req = e.req))
          /\ post'[p].at \in OpenPhase =>
               post[p].at \in OpenPhase /\ post'[p].req = post[p].req /\ e.kind \notin {"denied", "started"}
          /\ post[p].at \notin {"over", "tooling"}
      BY <2>1, <2>2, <2>3 DEF OpenPhase
    <3> QED
      BY <2>1, <2>2, <2>3, <3>1, <3>2, LogsGrow DEF WebInv
  <2> QED
    BY <2>4, <2>5, <2>6, <2>7 DEF WebInv
<1>3. CASE AskReturns(p)
  <2> DEFINE m == [post[p] EXCEPT !.at = "answered", !.allowed = post[p].reply = "allow"]
  <2>1. /\ m \in Message /\ m.at = "answered" /\ m.session = s /\ m.req = post[p].req
        /\ m.reply = post[p].reply /\ m.allowed = (post[p].reply = "allow")
    BY <1>0 DEF Message
  <2>2. post' = [post EXCEPT ![p] = m]
    BY <1>3 DEF AskReturns
  <2> HIDE DEF m
  <2>3. post' \in [Post -> Message] /\ post'[p] = m /\ \A q \in Post \ {p} : post'[q] = post[q]
    BY <1>0, <2>1, <2>2, MessageFields
  <2>4. /\ post[p].at = "waiting"
        /\ sess' = sess /\ nextReq' = nextReq /\ said' = said /\ ran' = ran
    BY <1>3 DEF AskReturns
  <2>5. WebTypes'
    BY <1>0, <2>3, <2>4 DEF WebTypes
  <2>6. Holders'
    <3>1. \A q \in Post : /\ post'[q].session = post[q].session
                          /\ post'[q].at \in Holding <=> post[q].at \in Holding
      BY <2>1, <2>3, <2>4 DEF Holding
    <3> QED
      BY <2>4, <3>1, HoldersStay DEF WebInv
  <2>7. Requests'
    <3>1. \A q \in Post : /\ post'[q].session = post[q].session /\ post'[q].req = post[q].req
                          /\ post'[q].at \in ReqPhase <=> post[q].at \in ReqPhase
                          /\ post'[q].at \in PendPhase <=> post[q].at \in PendPhase
                          /\ post'[q].reply = post[q].reply
      BY <2>1, <2>3, <2>4 DEF ReqPhase, OpenPhase, PendPhase
    <3>2. \A q \in Post : post'[q].reply = "allow" \/ post'[q].allowed => <<post'[q].req, "allow">> \in said'
      <4>1. \A q \in Post : post[q].reply = "allow" \/ post[q].allowed => <<post[q].req, "allow">> \in said
        BY DEF WebInv, Requests
      <4>2. post'[p].allowed => post[p].reply = "allow"
        BY <2>1, <2>3
      <4>3. post'[p].reply = "allow" \/ post'[p].allowed => <<post'[p].req, "allow">> \in said'
        BY <2>4, <3>1, <4>1, <4>2
      <4>4. \A q \in Post \ {p} : post'[q].reply = "allow" \/ post'[q].allowed => <<post'[q].req, "allow">> \in said'
        BY <2>3, <2>4, <4>1
      <4> QED
        BY <4>3, <4>4
    <3>3. \A t \in Session : sess'[t].pending # 0 =>
            \E q \in Post : /\ post'[q].session = t /\ post'[q].at \in PendPhase
                            /\ post'[q].req = sess'[t].pending
      BY <2>4, <3>1 DEF WebInv, Requests
    <3> QED
      BY <2>4, <3>1, <3>2, <3>3 DEF WebInv, Requests
  <2>8. LogInv'
    <3>1. \A q \in Post :
            /\ post'[q].session = post[q].session
            /\ post[q].at = "over" => post'[q].at = "over"
            /\ post[q].at = "tooling" => post'[q].at = "tooling" /\ post'[q].req = post[q].req
            /\ post'[q].at \in ShownPhase => post[q].at \in ShownPhase /\ post'[q].req = post[q].req
            /\ post'[q].at \in OpenPhase => post[q].at \in OpenPhase /\ post'[q].req = post[q].req
      BY <2>1, <2>3, <2>4 DEF ShownPhase, OpenPhase
    <3> QED
      BY <1>0, <2>4, <3>1, LogsStay DEF WebInv
  <2> QED
    BY <2>5, <2>6, <2>7, <2>8 DEF WebInv
<1>4. CASE AskTimesOut(p)
  <2>1. /\ post[p].at = "waiting" /\ WebGoes(p, "answered")
        /\ sess' = sess /\ nextReq' = nextReq /\ said' = said /\ ran' = ran
    BY <1>4 DEF AskTimesOut
  <2>2. /\ "answered" \in Phase /\ {"waiting", "answered"} \subseteq ReqPhase \cap ShownPhase
        /\ {"waiting", "answered"} \subseteq OpenPhase \cap PendPhase \cap Holding
    BY DEF ReqPhase, ShownPhase, OpenPhase, PendPhase, Holding
  <2> QED
    BY <1>0, <2>1, <2>2, Moved, MovedHolds DEF WebInv
<1>5. CASE ForgetAsk(p)
  <2>1. /\ post[p].at = "answered" /\ WebGoes(p, "told")
        /\ sess' = [sess EXCEPT ![s].pending = 0] /\ nextReq' = nextReq /\ said' = said /\ ran' = ran
    BY <1>5 DEF ForgetAsk
  <2>2. "told" \in Phase /\ {"answered", "told"} \subseteq ReqPhase \cap ShownPhase \cap OpenPhase \cap Holding
    BY DEF ReqPhase, ShownPhase, OpenPhase, Holding
  <2>3. /\ sess' \in [Session -> Entry] /\ sess'[s].pending = 0
        /\ \A t \in Session \ {s} : sess'[t] = sess[t]
        /\ \A t \in Session : sess'[t].log = sess[t].log /\ sess'[t].busy = sess[t].busy
    BY <1>0, <2>1, PendingFields
  <2>4. Holders'
    BY <2>1, <2>2, <2>3, MovedHolds
  <2>5. \A t \in Session : sess'[t].pending # 0 =>
          sess'[t].pending = sess[t].pending /\ t # s
    BY <2>3
  <2>6. WebTypes' /\ Requests' /\ LogInv'
    <3>1. /\ post[p].at \notin {"over", "tooling"}
          /\ "told" \in ReqPhase <=> post[p].at \in ReqPhase
          /\ "told" \in ShownPhase => post[p].at \in ShownPhase
          /\ "told" \in OpenPhase => post[p].at \in OpenPhase
      BY <2>1, <2>2
    <3>2. \A t \in Session : sess'[t].pending # 0 =>
            /\ sess'[t].pending = sess[t].pending
            /\ t = post[p].session => (post[p].at \in PendPhase => "told" \in PendPhase)
      BY <2>5
    <3>3. \A t \in Session : sess'[t].log = sess[t].log
      BY <2>3
    <3> QED
      BY <2>1, <2>2, <2>3, <3>1, <3>2, <3>3, Moved
  <2> QED
    BY <2>4, <2>6 DEF WebInv
<1> QED
  BY <1>1, <1>2, <1>3, <1>4, <1>5 DEF RequestPermission

(* `run_tool`: what is denied or finished goes back, what starts runs. *)
LEMMA ToolKeepsInv ==
  ASSUME WebInv, NEW p \in Post, RunWebTool(p)
  PROVE  WebInv'
<1> DEFINE s == post[p].session
<1>0. /\ s \in Session /\ sess \in [Session -> Entry] /\ WebTypes /\ post[p] \in Message
      /\ nextReq \in Nat /\ nextReq > 0 /\ ran \subseteq 1 .. nextReq - 1
  BY DEF WebInv, WebTypes, Message
<1> USE PhasesAre
<1>1. post[p].at \in {"told", "tooling"}
  BY DEF RunWebTool, DenyTool, StartTool, FinishTool
<1>2. /\ post[p].req \in 1 .. nextReq - 1
      /\ \A q \in Post \ {p} : post[q].req # post[p].req
  <2>1. post[p].req \in 1 .. nextReq - 1
    BY <1>1 DEF WebInv, Requests, ReqPhase, OpenPhase
  <2> QED
    BY <2>1 DEF WebInv, Requests
<1>3. post[p].req < nextReq /\ post[p].req # 0
  BY <1>0, <1>2
<1>4. ASSUME NEW e \in Event, e.of = p, e.req = post[p].req, BackToLoop(p),
             sess' \in [Session -> Entry], sess'[s].log = Append(sess[s].log, e),
             \A t \in Session \ {s} : sess'[t].log = sess[t].log,
             \A t \in Session : sess'[t].pending = sess[t].pending /\ sess'[t].busy = sess[t].busy,
             nextReq' = nextReq, said' = said, ran' = ran, e.kind \in {"denied", "finished"},
             e.kind = "denied" => post[p].at = "told",
             e.kind = "finished" => post[p].at = "tooling"
      PROVE  WebInv'
  <2>2. /\ post' \in [Post -> Message]
        /\ post'[p].at = "running" /\ post'[p].session = post[p].session /\ post'[p].req = 0
        /\ \A q \in Post \ {p} : post'[q] = post[q]
    BY <1>0, <1>4, BackFields
  <2>3. WebTypes'
    BY <1>0, <1>4, <2>2 DEF WebTypes
  <2>4. Holders'
    <3>1. \A q \in Post : /\ post'[q].session = post[q].session
                          /\ post'[q].at \in Holding <=> post[q].at \in Holding
      BY <1>1, <2>2 DEF Holding
    <3> QED
      BY <1>4, <3>1, HoldersStay DEF WebInv
  <2>5. Requests'
    BY <1>1, <1>4, BackKeepsRequests
  <2>6. LogInv'
    <3>1. "running" \notin ShownPhase \cup OpenPhase /\ post[p].at # "over"
      BY <1>1 DEF ShownPhase, OpenPhase
    <3>2. /\ post[p].at = "tooling" => e.kind = "finished" /\ e.req = post[p].req
          /\ e.kind \in {"denied", "started"} =>
               post[p].at = "told" /\ e.req = post[p].req /\ \A q \in Post \ {p} : post[q].req # e.req
          /\ e.kind \notin {"started", "end"} /\ e.req < nextReq
      BY <1>2, <1>3, <1>4
    <3>3. /\ LogInv /\ WebTypes /\ nextReq' = nextReq /\ said' = said
          /\ post'[p].at \notin ShownPhase /\ post'[p].at \notin OpenPhase
          /\ ran' = IF e.kind = "started" THEN ran \cup {e.req} ELSE ran
      BY <1>0, <1>4, <2>2, <3>1, <3>2 DEF WebInv
    <3>4. e \in Event /\ e.of = p /\ e.req < nextReq /\ e.kind # "started" /\ e.kind # "end"
      BY <1>4, <3>2
    <3> QED
      BY <1>4, <2>2, <3>1, <3>2, <3>3, <3>4, LogsGrow
  <2> QED
    BY <2>3, <2>4, <2>5, <2>6 DEF WebInv
<1>5. CASE DenyTool(p)
  <2> DEFINE e == WebEvent("denied", p)
  <2>1. /\ post[p].at = "told" /\ Log(p, "denied") /\ BackToLoop(p)
        /\ nextReq' = nextReq /\ said' = said /\ ran' = ran
    BY <1>5 DEF DenyTool
  <2>2. /\ sess' \in [Session -> Entry]
        /\ sess'[s].log = Append(sess[s].log, e)
        /\ \A t \in Session \ {s} : sess'[t].log = sess[t].log
        /\ \A t \in Session : sess'[t].pending = sess[t].pending /\ sess'[t].busy = sess[t].busy
        /\ e \in Event /\ e.of = p /\ e.kind = "denied" /\ e.req = post[p].req
    BY <1>0, <2>1, LogFields
  <2> HIDE DEF e
  <2> QED
    BY <2>1, <2>2, <1>4
<1>6. CASE FinishTool(p)
  <2> DEFINE e == WebEvent("finished", p)
  <2>1. /\ post[p].at = "tooling" /\ Log(p, "finished") /\ BackToLoop(p)
        /\ nextReq' = nextReq /\ said' = said /\ ran' = ran
    BY <1>6 DEF FinishTool
  <2>2. /\ sess' \in [Session -> Entry]
        /\ sess'[s].log = Append(sess[s].log, e)
        /\ \A t \in Session \ {s} : sess'[t].log = sess[t].log
        /\ \A t \in Session : sess'[t].pending = sess[t].pending /\ sess'[t].busy = sess[t].busy
        /\ e \in Event /\ e.of = p /\ e.kind = "finished" /\ e.req = post[p].req
    BY <1>0, <2>1, LogFields
  <2> HIDE DEF e
  <2> QED
    BY <2>1, <2>2, <1>4
<1>7. CASE StartTool(p)
  <2> DEFINE e == WebEvent("started", p)
  <2>1. /\ post[p].at = "told" /\ post[p].allowed /\ WebGoes(p, "tooling") /\ Log(p, "started")
        /\ nextReq' = nextReq /\ said' = said /\ ran' = ran \cup {post[p].req}
    BY <1>7 DEF StartTool
  <2>2. /\ sess' \in [Session -> Entry]
        /\ sess'[s].log = Append(sess[s].log, e)
        /\ \A t \in Session \ {s} : sess'[t].log = sess[t].log
        /\ \A t \in Session : sess'[t].pending = sess[t].pending /\ sess'[t].busy = sess[t].busy
        /\ e \in Event /\ e.of = p /\ e.kind = "started" /\ e.req = post[p].req
    <3>1. WebTypes /\ Log(p, "started") /\ "started" # "end"
      BY <1>0, <2>1
    <3> QED
      BY <3>1, LogFields
  <2>3. /\ post' \in [Post -> Message] /\ post'[p].at = "tooling"
        /\ \A q \in Post \ {p} : post'[q] = post[q]
        /\ \A q \in Post : /\ post'[q].session = post[q].session /\ post'[q].req = post[q].req
                           /\ post'[q].reply = post[q].reply /\ post'[q].allowed = post[q].allowed
    BY <1>0, <2>1, GoesFields
  <2> HIDE DEF e
  <2>4. WebTypes'
    BY <1>0, <1>2, <2>1, <2>2, <2>3 DEF WebTypes
  <2>5. Holders'
    BY <2>1, <2>2, MovedHolds DEF Holding
  <2>6. Requests'
    <3>1. \A q \in Post : post'[q].at \in ReqPhase <=> post[q].at \in ReqPhase
      BY <2>1, <2>3 DEF ReqPhase, OpenPhase
    <3>2. \A t \in Session, q \in Post : post[q].at \in PendPhase => post'[q].at \in PendPhase
      BY <2>1, <2>3 DEF PendPhase
    <3> QED
      BY <2>1, <2>2, <2>3, <3>1, <3>2, RequestsStay DEF WebInv
  <2>7. LogInv'
    <3>1. /\ <<e.req, "allow">> \in said
          /\ e.req < nextReq /\ \A q \in Post \ {p} : post[q].req # e.req
      <4>1. \A q \in Post : post[q].allowed => <<post[q].req, "allow">> \in said
        BY DEF WebInv, Requests
      <4>2. <<post[p].req, "allow">> \in said
        BY <2>1, <4>1
      <4> QED
        BY <1>2, <1>3, <2>2, <4>2
    <3>2. "tooling" \notin OpenPhase /\ "told" \in ShownPhase
      BY DEF OpenPhase, ShownPhase
    <3>3. /\ LogInv /\ WebTypes /\ nextReq' = nextReq /\ said' = said /\ post[p].at # "over"
          /\ post'[p].session = post[p].session /\ post'[p].req = e.req /\ post'[p].at \notin OpenPhase
          /\ post[p].at \in ShownPhase /\ post[p].req = e.req /\ post[p].at # "tooling"
          /\ ran' = IF e.kind = "started" THEN ran \cup {e.req} ELSE ran
      BY <1>0, <2>1, <2>2, <2>3, <3>2 DEF WebInv
    <3> QED
      BY <2>1, <2>2, <2>3, <3>1, <3>3, LogsGrow
  <2> QED
    BY <2>4, <2>5, <2>6, <2>7 DEF WebInv
<1> QED
  BY <1>5, <1>6, <1>7 DEF RunWebTool

LEMMA TaskKeepsInv ==
  ASSUME WebInv, NEW p \in Post, WebTask(p)
  PROVE  WebInv'
<1> DEFINE s == post[p].session
<1>0. /\ s \in Session /\ sess \in [Session -> Entry] /\ WebTypes
      /\ nextReq \in Nat /\ nextReq > 0
  BY DEF WebInv, WebTypes, Message
<1> USE PhasesAre
<1>1. CASE Spawn(p) \/ LoopEnds(p)
  <2>1. /\ post[p].at \in {"started", "running"}
        /\ sess' = sess /\ nextReq' = nextReq /\ said' = said /\ ran' = ran
    BY <1>1 DEF Spawn, LoopEnds
  <2>2. PICK phase \in {"running", "failed", "ended"} : WebGoes(p, phase)
    BY <1>1 DEF Spawn, LoopEnds
  <2>3. /\ phase \in Phase /\ phase \in Holding /\ post[p].at \in Holding
        /\ phase \notin ReqPhase \cup ShownPhase \cup OpenPhase
        /\ post[p].at \notin ReqPhase \cup PendPhase \cup {"over", "tooling"}
    BY <2>1, <2>2 DEF ReqPhase, ShownPhase, OpenPhase, PendPhase, Holding
  <2> QED
    BY <1>0, <2>1, <2>2, <2>3, Moved, MovedHolds DEF WebInv
<1>2. CASE RequestPermission(p)
  BY <1>2, RequestKeepsInv
<1>3. CASE RunWebTool(p)
  BY <1>3, ToolKeepsInv
<1>4. CASE FinishBusy(p)
  <2>1. /\ post[p].at \in {"ended", "failed"} /\ nextReq' = nextReq /\ said' = said /\ ran' = ran
        /\ WebGoes(p, "freed") /\ sess' = [sess EXCEPT ![s].busy = FALSE]
    BY <1>4 DEF FinishBusy
  <2>2. /\ "freed" \in Phase /\ "freed" \notin Holding \cup ReqPhase \cup ShownPhase \cup OpenPhase
        /\ post[p].at \notin ReqPhase \cup PendPhase \cup {"over", "tooling"} /\ post[p].at \in Holding
    BY <2>1 DEF Holding, ReqPhase, ShownPhase, OpenPhase, PendPhase
  <2>3. /\ sess' \in [Session -> Entry]
        /\ \A t \in Session : sess'[t].log = sess[t].log /\ sess'[t].pending = sess[t].pending
    BY <1>0, <2>1, BusyFields
  <2>4. Holders'
    BY <2>1, <2>2, LeavesSession
  <2> QED
    BY <2>1, <2>2, <2>3, <2>4, Moved DEF WebInv
<1>5. CASE PublishEnd(p)
  <2> DEFINE e == WebEvent("end", p)
  <2>1. /\ post[p].at = "freed" /\ WebGoes(p, "over") /\ Log(p, "end")
        /\ nextReq' = nextReq /\ said' = said /\ ran' = ran
    BY <1>5 DEF PublishEnd
  <2>2. /\ sess' \in [Session -> Entry]
        /\ sess'[s].log = Append(sess[s].log, e)
        /\ \A t \in Session \ {s} : sess'[t].log = sess[t].log
        /\ \A t \in Session : sess'[t].pending = sess[t].pending /\ sess'[t].busy = sess[t].busy
        /\ e \in Event /\ e.of = p /\ e.kind = "end" /\ e.req = 0
    BY <1>0, <2>1, LogFields
  <2>3. /\ post' \in [Post -> Message] /\ post'[p].at = "over"
        /\ \A q \in Post \ {p} : post'[q] = post[q]
        /\ \A q \in Post : /\ post'[q].session = post[q].session /\ post'[q].req = post[q].req
                           /\ post'[q].reply = post[q].reply /\ post'[q].allowed = post[q].allowed
    BY <1>0, <2>1, GoesFields
  <2> HIDE DEF e
  <2>4. {"freed", "over"} \cap (Holding \cup ReqPhase \cup ShownPhase \cup OpenPhase \cup PendPhase) = {}
    BY DEF Holding, ReqPhase, ShownPhase, OpenPhase, PendPhase
  <2>5. WebTypes'
    BY <1>0, <2>1, <2>2, <2>3 DEF WebInv, WebTypes
  <2>6. Holders'
    BY <2>1, <2>2, <2>4, MovedHolds
  <2>7. Requests'
    <3>1. \A q \in Post : post'[q].at \in ReqPhase <=> post[q].at \in ReqPhase
      BY <2>1, <2>3, <2>4
    <3>2. \A t \in Session, q \in Post : post[q].at \in PendPhase => post'[q].at \in PendPhase
      BY <2>1, <2>3, <2>4
    <3> QED
      BY <2>1, <2>2, <2>3, <3>1, <3>2, RequestsStay DEF WebInv
  <2>8. LogInv'
    <3>1. e.req < nextReq
      BY <1>0, <2>2
    <3> QED
      BY <1>0, <2>1, <2>2, <2>3, <2>4, <3>1, LogsGrow DEF WebInv
  <2> QED
    BY <2>5, <2>6, <2>7, <2>8 DEF WebInv
<1> QED
  BY <1>1, <1>2, <1>3, <1>4, <1>5 DEF WebTask

LEMMA SubscribeKeepsInv ==
  ASSUME WebInv, NEW s \in Session, SubscribeEvents(s)
  PROVE  WebInv'
<1>1. /\ sess' \in [Session -> Entry]
      /\ \A t \in Session : /\ sess'[t].log = sess[t].log /\ sess'[t].busy = sess[t].busy
                            /\ sess'[t].pending = sess[t].pending
      /\ post' = post /\ nextReq' = nextReq /\ said' = said /\ ran' = ran /\ nextReq \in Nat
  BY LiveFields DEF WebInv, WebTypes, SubscribeEvents
<1>2. WebTypes'
  BY <1>1 DEF WebInv, WebTypes
<1>3. Holders'
  BY <1>1, HoldersStay DEF WebInv
<1>4. Requests'
  BY <1>1, RequestsStay DEF WebInv
<1>5. LogInv'
  BY <1>1, LogsStay DEF WebInv
<1> QED
  BY <1>2, <1>3, <1>4, <1>5 DEF WebInv

LEMMA ResolveKeepsInv ==
  ASSUME WebInv, NEW s \in Session, ResolvePermission(s)
  PROVE  WebInv'
<1> DEFINE n == sess[s].pending
<1>1. PICK allow \in {"allow", "deny"} :
        /\ said' = said \cup {<<n, allow>>}
        /\ post' = [p \in Post |-> IF post[p].req = n THEN [post[p] EXCEPT !.reply = allow] ELSE post[p]]
  BY DEF ResolvePermission
<1>2. /\ WebTypes /\ n # 0 /\ n \in Nat /\ sess' = [sess EXCEPT ![s].pending = 0]
      /\ nextReq' = nextReq /\ ran' = ran /\ nextReq \in Nat
  BY DEF WebInv, WebTypes, Entry, ResolvePermission
<1>3. /\ sess' \in [Session -> Entry] /\ sess'[s].pending = 0
      /\ \A t \in Session \ {s} : sess'[t] = sess[t]
      /\ \A t \in Session : sess'[t].log = sess[t].log /\ sess'[t].busy = sess[t].busy
  BY <1>2, PendingFields
<1> HIDE DEF n
<1>4. \A p \in Post : /\ post'[p] \in Message
                      /\ post'[p].at = post[p].at /\ post'[p].session = post[p].session
                      /\ post'[p].req = post[p].req /\ post'[p].allowed = post[p].allowed
                      /\ post'[p].reply = IF post[p].req = n THEN allow ELSE post[p].reply
  <2>1. ASSUME NEW p \in Post
        PROVE  /\ [post[p] EXCEPT !.reply = allow] \in Message
               /\ [post[p] EXCEPT !.reply = allow].at = post[p].at
               /\ [post[p] EXCEPT !.reply = allow].session = post[p].session
               /\ [post[p] EXCEPT !.reply = allow].req = post[p].req
               /\ [post[p] EXCEPT !.reply = allow].allowed = post[p].allowed
               /\ [post[p] EXCEPT !.reply = allow].reply = allow
               /\ post[p] \in Message
    BY <1>2 DEF WebTypes, Message
  <2> QED
    BY <1>1, <2>1
<1>5. WebTypes'
  <2>1. post' \in [Post -> Message]
    BY <1>1, <1>4
  <2> QED
    BY <1>2, <1>3, <2>1 DEF WebTypes
<1>6. Holders'
  BY <1>3, <1>4, HoldersStay DEF WebInv
<1>7. Requests'
  <2>1. ASSUME NEW p \in Post, post'[p].reply = "allow" \/ post'[p].allowed
        PROVE  <<post'[p].req, "allow">> \in said'
    <3>1. CASE post[p].reply = "allow" \/ post[p].allowed
      BY <1>1, <1>4, <3>1 DEF WebInv, Requests
    <3>2. CASE post[p].req = n /\ allow = "allow"
      BY <1>1, <1>4, <3>2
    <3> QED
      BY <1>4, <2>1, <3>1, <3>2
  <2>2. ASSUME NEW t \in Session, sess'[t].pending # 0
        PROVE  \E q \in Post : /\ post'[q].session = t /\ post'[q].at \in PendPhase
                               /\ post'[q].req = sess'[t].pending
    <3>1. sess'[t] = sess[t]
      BY <1>3, <2>2
    <3>2. PICK q \in Post : /\ post[q].session = t /\ post[q].at \in PendPhase
                            /\ post[q].req = sess[t].pending
      BY <2>2, <3>1 DEF WebInv, Requests
    <3> QED
      BY <1>4, <3>1, <3>2
  <2>3. \A p \in Post : IF post'[p].at \in ReqPhase THEN post'[p].req \in 1 .. nextReq' - 1
                        ELSE post'[p].req = 0
    BY <1>2, <1>4 DEF WebInv, Requests
  <2>4. \A p, q \in Post : post'[p].req # 0 /\ post'[p].req = post'[q].req => p = q
    BY <1>4 DEF WebInv, Requests
  <2> QED
    BY <2>1, <2>2, <2>3, <2>4 DEF Requests
<1>8. LogInv'
  <2>1. said \subseteq said'
    BY <1>1
  <2> QED
    BY <1>2, <1>3, <1>4, <2>1, LogsStay DEF WebInv
<1> QED
  BY <1>5, <1>6, <1>7, <1>8 DEF WebInv

LEMMA InitWeb == WebInit => WebInv
<1> SUFFICES ASSUME WebInit PROVE WebInv
  OBVIOUS
<1>1. /\ \A s \in Session : sess[s] = NoSession
      /\ \A p \in Post : /\ post[p].at = "sent" /\ post[p].req = 0 /\ post[p].reply = "none"
                         /\ post[p].allowed = FALSE
      /\ nextReq = 1 /\ ran = {}
  BY DEF WebInit
<1>2. NoSession \in Entry /\ ~NoSession.busy /\ NoSession.pending = 0 /\ NoSession.log = << >>
  BY DEF NoSession, Entry
<1>3. "sent" \in Phase /\ "sent" \notin Holding \cup ReqPhase \cup ShownPhase \cup OpenPhase
  BY PhasesAre DEF Holding, ReqPhase, ShownPhase, OpenPhase
<1>4. WebTypes
  <2>1. sess \in [Session -> Entry]
    BY <1>2 DEF WebInit
  <2>2. post \in [Post -> Message]
    <3> DEFINE Sent == [at : {"sent"}, session : Session, req : {0}, reply : {"none"}, allowed : {FALSE}]
    <3>1. post \in [Post -> Sent]
      BY DEF WebInit
    <3>2. ASSUME NEW p \in Post PROVE post[p] \in Message
      <4>1. post[p] \in Sent
        BY <3>1
      <4>2. post[p] = [at |-> "sent", session |-> post[p].session, req |-> 0, reply |-> "none",
                       allowed |-> FALSE] /\ post[p].session \in Session
        BY <4>1
      <4>3. [at |-> "sent", session |-> post[p].session, req |-> 0, reply |-> "none",
             allowed |-> FALSE] \in Message
        BY <1>3, <4>2 DEF Message
      <4> QED
        BY <4>2, <4>3
    <3> QED
      BY <3>1, <3>2
  <2> QED
    BY <1>1, <2>1, <2>2 DEF WebTypes
<1>5. Holders
  BY <1>1, <1>2, <1>3 DEF Holders
<1>6. Requests
  BY <1>1, <1>2, <1>3 DEF Requests
<1>7. LogInv
  <2>1. \A s \in Session : \A i \in DOMAIN sess[s].log : FALSE
    BY <1>1, <1>2
  <2> QED
    BY <1>1, <1>3, <2>1
    DEF LogInv, EventsAreOwn, AskedFirst, StartedAllowed, EndsAreLast, ToolsFinish, DeniedNeverRan
<1> QED
  BY <1>4, <1>5, <1>6, <1>7 DEF WebInv

LEMMA NextWeb == WebInv /\ [WebNext]_webVars => WebInv'
<1> SUFFICES ASSUME WebInv, [WebNext]_webVars PROVE WebInv'
  OBVIOUS
<1>1. ASSUME NEW p \in Post, SendMessageHandler(p) PROVE WebInv'
  BY <1>1, HandlerKeepsInv
<1>2. ASSUME NEW p \in Post, WebTask(p) PROVE WebInv'
  BY <1>2, TaskKeepsInv
<1>3. ASSUME NEW s \in Session, SubscribeEvents(s) PROVE WebInv'
  BY <1>3, SubscribeKeepsInv
<1>4. ASSUME NEW s \in Session, ResolvePermission(s) PROVE WebInv'
  BY <1>4, ResolveKeepsInv
<1>5. CASE UNCHANGED webVars
  <2>1. sess' = sess /\ post' = post /\ nextReq' = nextReq /\ said' = said /\ ran' = ran /\ nextReq \in Nat
    BY <1>5 DEF webVars, WebInv, WebTypes
  <2>2. WebTypes' /\ Holders' /\ Requests'
    BY <2>1 DEF WebInv, WebTypes, Holders, Requests
  <2>3. LogInv'
    BY <2>1, LogsStay DEF WebInv
  <2> QED
    BY <2>2, <2>3 DEF WebInv
<1> QED
  BY <1>1, <1>2, <1>3, <1>4, <1>5 DEF WebNext

(* `try_start`, `request_permission` and `finish_busy`: however messages,  *)
(* answers and deadlines meet, a session is one message's while it is      *)
(* busy, a tool starts only after its own request was shown and allowed,   *)
(* and no event follows the end that was announced; for any sessions and   *)
(* messages and any cap.                                                   *)
THEOREM SessionsAreExclusive == WebSpec => []SessionHasOneActor
<1>1. ASSUME WebInv PROVE SessionHasOneActor
  <2> SUFFICES ASSUME NEW s \in Session
               PROVE  LET log == sess[s].log
                          before(i, kind) == \E j \in 1 .. i - 1 : log[j].kind = kind /\ log[j].req = log[i].req
                      IN  /\ Cardinality(HolderOf(s)) <= 1
                          /\ sess[s].busy <=> HolderOf(s) # {}
                          /\ sess[s].pending # 0 =>
                               \E p \in HolderOf(s) : /\ post[p].req = sess[s].pending
                                                      /\ post[p].at \in {"asking", "waiting", "answered"}
                          /\ \A i \in DOMAIN log :
                               /\ log[i].kind \in {"denied", "started"} => before(i, "asked")
                               /\ log[i].kind = "started" => <<log[i].req, "allow">> \in said
                               /\ log[i].kind = "end" =>
                                    /\ log[i].of \notin HolderOf(s)
                                    /\ \A j \in i + 1 .. Len(log) : log[j].of # log[i].of
                                    /\ \A j \in 1 .. i - 1 : log[j].of = log[i].of /\ log[j].kind = "started" =>
                                         \E k \in j .. i : log[k].kind = "finished" /\ log[k].req = log[j].req
                               /\ log[i].kind = "denied" => log[i].req \notin ran
    BY DEF SessionHasOneActor
  <2> DEFINE log == sess[s].log
  <2>1. Cardinality(HolderOf(s)) <= 1
    <3>1. CASE HolderOf(s) = {}
      BY <3>1, FS_EmptySet
    <3>2. CASE HolderOf(s) # {}
      <4>1. PICK p : p \in HolderOf(s)
        BY <3>2
      <4>2. HolderOf(s) = {p}
        BY <1>1, <4>1 DEF WebInv, Holders, HolderOf
      <4> QED
        BY <4>2, FS_Singleton
    <3> QED
      BY <3>1, <3>2
  <2>2. sess[s].busy <=> HolderOf(s) # {}
    BY <1>1 DEF WebInv, Holders, HolderOf
  <2>3. sess[s].pending # 0 =>
          \E p \in HolderOf(s) : /\ post[p].req = sess[s].pending
                                 /\ post[p].at \in {"asking", "waiting", "answered"}
    BY <1>1, PhasesAre DEF WebInv, Requests, HolderOf, PendPhase
  <2>4. ASSUME NEW i \in DOMAIN log
        PROVE  /\ log[i].kind \in {"denied", "started"} =>
                    \E j \in 1 .. i - 1 : log[j].kind = "asked" /\ log[j].req = log[i].req
               /\ log[i].kind = "started" => <<log[i].req, "allow">> \in said
               /\ log[i].kind = "end" =>
                    /\ log[i].of \notin HolderOf(s)
                    /\ \A j \in i + 1 .. Len(log) : log[j].of # log[i].of
                    /\ \A j \in 1 .. i - 1 : log[j].of = log[i].of /\ log[j].kind = "started" =>
                         \E k \in j .. i : log[k].kind = "finished" /\ log[k].req = log[j].req
               /\ log[i].kind = "denied" => log[i].req \notin ran
    <3>1. log \in Seq(Event) /\ DOMAIN log = 1 .. Len(log) /\ Len(log) \in Nat
      BY <1>1 DEF WebInv, WebTypes, Entry
    <3>2. /\ \A j \in i + 1 .. Len(log) : j \in DOMAIN log /\ i < j
          /\ \A j \in 1 .. i - 1 : j \in DOMAIN log /\ j < i
      BY <2>4, <3>1
    <3>3. log[i].kind \in {"denied", "started"} =>
            \E j \in 1 .. i - 1 : log[j].kind = "asked" /\ log[j].req = log[i].req
      BY <1>1, <2>4 DEF WebInv, LogInv, AskedFirst, Asked
    <3>4. log[i].kind = "started" => <<log[i].req, "allow">> \in said
      BY <1>1, <2>4 DEF WebInv, LogInv, StartedAllowed
    <3>5. log[i].kind = "end" => /\ log[i].of \notin HolderOf(s)
                                 /\ \A j \in i + 1 .. Len(log) : log[j].of # log[i].of
      BY <1>1, <2>4, <3>2 DEF WebInv, LogInv, EndsAreLast, HolderOf, Holding
    <3>6. ASSUME log[i].kind = "end", NEW j \in 1 .. i - 1, log[j].of = log[i].of, log[j].kind = "started"
          PROVE  \E k \in j .. i : log[k].kind = "finished" /\ log[k].req = log[j].req
      <4>1. Finished(s, j, i)
        BY <1>1, <2>4, <3>2, <3>6 DEF WebInv, LogInv, ToolsFinish
      <4> QED
        BY <4>1 DEF Finished
    <3>7. log[i].kind = "denied" => log[i].req \notin ran
      BY <1>1, <2>4 DEF WebInv, LogInv, DeniedNeverRan
    <3> QED
      BY <3>3, <3>4, <3>5, <3>6, <3>7
  <2> QED
    BY <2>1, <2>2, <2>3, <2>4
<1> QED
  BY <1>1, InitWeb, NextWeb, PTL DEF WebSpec
=============================================================================
