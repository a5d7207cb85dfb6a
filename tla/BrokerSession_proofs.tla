------------------------- MODULE BrokerSession_proofs -------------------------
(***************************************************************************)
(* The broker adapters tell the truth, for any number of callers, requests *)
(* and faults.  The argument: a request has a number of its own, so that   *)
(* what the broker answers can only be taken by the call that waits for    *)
(* it; the broker takes a request from the wire once and answers after it  *)
(* has taken it; and what ends a request as refused is never sent for one  *)
(* that was applied.                                                       *)
(***************************************************************************)
EXTENDS BrokerSession, TLAPS

Ops == {"market", "pending", "modify", "cancel", "close"}
Reqs == Ops \union {"read", "application", "account", "symbols"}
Ids == Callers \X Nat
Events == {"ok", "error", "order error", "denied", "refused", "server error", "accepted", "filled", "rejected",
           "partial", "cancelled", "expired", "cancel rejected", "replaced"}
Calls == [at : {"idle", "connecting", "sending", "waiting"}, op : Ops \union {"none"},
          todo : Seq(Reqs), id : Ids \union {<<>>}]

Types ==
    /\ kind \in {"ctrader", "http"} /\ t \in Nat /\ opened \in Nat
    /\ sent \in [Callers -> Nat]
    /\ call \in [Callers -> Calls]
    /\ inbox \in Seq([conn : Nat, id : Ids, req : Reqs])
    /\ outbox \in Seq([id : Ids, event : Events])

(* An operation under way has something left to do, and waits for its caller's last request. *)
Busy ==
    \A c \in Callers :
        /\ call[c].at # "idle" => call[c].todo # <<>> /\ call[c].op \in Ops
        /\ call[c].at = "waiting" => call[c].id = <<c, sent[c]>>

(* The requests sent so far, and the number 0 of an operation that has sent none. *)
Issued(id) == \E c \in Callers : \E n \in 1..sent[c] : id = <<c, n>>
Spent(id) == \E c \in Callers : \E n \in 0..sent[c] : id = <<c, n>>
OnWire(id) == \E i \in DOMAIN inbox : inbox[i].id = id

(* A request on the wire was sent, once, and is not applied yet; the caller that waits for it wants what it says. *)
WireOK ==
    \A i \in DOMAIN inbox :
        /\ Issued(inbox[i].id) /\ inbox[i].id \notin done
        /\ \A j \in DOMAIN inbox : inbox[j].id = inbox[i].id => j = i
        /\ \A c \in Callers :
               call[c].at = "waiting" /\ call[c].id = inbox[i].id => inbox[i].req = Head(call[c].todo)

DoneOK == \A id \in done : Issued(id)

(* An event, for the caller that waits for it, says whether its request was applied. *)
Tells(c, m, applied) ==
    LET req == Head(call[c].todo)
    IN  Finishes(req, m.event) =>
            /\ Good(req, m.event) => applied
            /\ ~Good(req, m.event) /\ Result(c, req, m.event) = "refused" => ~applied
EventsOK ==
    \A i \in DOMAIN outbox :
        /\ Issued(outbox[i].id) /\ ~OnWire(outbox[i].id)
        /\ \A c \in Callers :
               call[c].at = "waiting" /\ call[c].id = outbox[i].id => Tells(c, outbox[i], outbox[i].id \in done)

(* An answer is true, and one of refusal stays so: its request is not on the wire. *)
Stands(a) ==
    /\ a.out = "ok" => a.id \in done
    /\ a.out = "refused" => Spent(a.id) /\ a.id \notin done /\ ~OnWire(a.id)
AnswersOK == \A a \in answers : Stands(a)

IInv == Types /\ Busy /\ WireOK /\ DoneOK /\ EventsOK /\ AnswersOK

(* What the theorem asks of the constants. *)
Instances ==
    /\ Kinds \subseteq {"ctrader", "http"}
    /\ \A c \in Callers : OpsOf[c] \subseteq Ops

-----------------------------------------------------------------------------
LEMMA HeadAndTail ==
    ASSUME NEW S, NEW s \in Seq(S), s # <<>>
    PROVE  /\ Head(s) \in S /\ Head(s) = s[1] /\ 1 \in DOMAIN s
           /\ Tail(s) \in Seq(S)
           /\ \A i \in DOMAIN Tail(s) : i + 1 \in DOMAIN s /\ i + 1 # 1 /\ Tail(s)[i] = s[i + 1]
  OBVIOUS

LEMMA Counted ==
    ASSUME NEW S, NEW n \in Nat, NEW s, s = [i \in 1..n |-> s[i]], \A i \in 1..n : s[i] \in S
    PROVE  s \in Seq(S)
  OBVIOUS

LEMMA Joined ==
    ASSUME NEW S, NEW s \in Seq(S), NEW u \in Seq(S)
    PROVE  /\ s \o u \in Seq(S)
           /\ \A i \in DOMAIN (s \o u) : (i \in DOMAIN s /\ (s \o u)[i] = s[i])
                                         \/ (\E j \in DOMAIN u : (s \o u)[i] = u[j])
<1>1. s \o u \in Seq(S) /\ Len(s \o u) = Len(s) + Len(u)
  OBVIOUS
<1>2. ASSUME NEW i \in DOMAIN (s \o u)
      PROVE  (i \in DOMAIN s /\ (s \o u)[i] = s[i]) \/ (\E j \in DOMAIN u : (s \o u)[i] = u[j])
  <2>1. i \in 1..(Len(s) + Len(u))
    BY <1>1
  <2>2. CASE i <= Len(s)
    BY <2>1, <2>2
  <2>3. CASE i > Len(s)
    <3>1. i - Len(s) \in DOMAIN u /\ (s \o u)[i] = u[i - Len(s)]
      BY <2>1, <2>3
    <3> QED
      BY <3>1
  <2> QED
    BY <2>1, <2>2, <2>3
<1> QED
  BY <1>1, <1>2

LEMMA Appended ==
    ASSUME NEW S, NEW s \in Seq(S), NEW x \in S, NEW u, u = Append(s, x) \/ u = s
    PROVE  /\ u \in Seq(S)
           /\ \A i \in DOMAIN u : (i \in DOMAIN s /\ u[i] = s[i]) \/ (i = Len(s) + 1 /\ u[i] = x)
  OBVIOUS

LEMMA Listed ==
    ASSUME NEW S, NEW e \in S, NEW f \in S, NEW g \in S
    PROVE  /\ <<e>> \in Seq(S) /\ \A i \in DOMAIN <<e>> : <<e>>[i] = e
           /\ <<e, f>> \in Seq(S) /\ \A i \in DOMAIN <<e, f>> : <<e, f>>[i] \in {e, f}
           /\ <<e, f, g>> \in Seq(S) /\ \A i \in DOMAIN <<e, f, g>> : <<e, f, g>>[i] \in {e, f, g}
<1>1. <<e>> \in Seq(S) /\ DOMAIN <<e>> = 1..1 /\ \A i \in 1..1 : <<e>>[i] = e
  OBVIOUS
<1>2. <<e, f>> \in Seq(S) /\ DOMAIN <<e, f>> = 1..2 /\ \A i \in 1..2 : <<e, f>>[i] \in {e, f}
  OBVIOUS
<1>3. <<e, f, g>> \in Seq(S) /\ DOMAIN <<e, f, g>> = 1..3 /\ \A i \in 1..3 : <<e, f, g>>[i] \in {e, f, g}
  OBVIOUS
<1> QED
  BY <1>1, <1>2, <1>3

LEMMA Requested ==
    ASSUME NEW op \in Ops
    PROVE  Requests(op) \in Seq(Reqs) /\ Requests(op) # <<>>
<1>1. op \in Reqs /\ "read" \in Reqs /\ "close" \in Reqs /\ "modify" \in Reqs
  BY DEF Ops, Reqs
<1>2. <<"read", "close">> \in Seq(Reqs) /\ <<"read", "modify">> \in Seq(Reqs) /\ <<op>> \in Seq(Reqs)
  BY <1>1
<1> QED
  BY <1>2 DEF Requests

LEMMA InitInv == Instances /\ Init => IInv
<1> SUFFICES ASSUME Instances, Init PROVE IInv
  OBVIOUS
<1>1. Resting \in Calls /\ Resting.at = "idle"
  BY DEF Resting, Calls
<1>2. Types
  BY <1>1 DEF Init, Instances, Types
<1>3. Busy
  BY <1>1 DEF Init, Busy
<1>4. DOMAIN inbox = {} /\ DOMAIN outbox = {} /\ done = {} /\ answers = {}
  BY DEF Init
<1>5. WireOK /\ DoneOK /\ EventsOK /\ AnswersOK
  BY <1>4 DEF WireOK, DoneOK, EventsOK, AnswersOK
<1> QED
  BY <1>2, <1>3, <1>5 DEF IInv

-----------------------------------------------------------------------------
(* The steps that send nothing and apply nothing: whoever waits after one has waited for the same before. *)
Quiet ==
    /\ kind' = kind /\ sent' = sent /\ inbox' = inbox /\ done' = done
    /\ \A i \in DOMAIN outbox' : \E j \in DOMAIN outbox : outbox'[i] = outbox[j]
    /\ \A c \in Callers : call'[c].at = "waiting" => call'[c] = call[c]
    /\ \A a \in answers' : a \in answers \/ Stands(a)

LEMMA QuietKeeps ==
    ASSUME IInv, Quiet, Types', Busy'
    PROVE  IInv'
<1>1. /\ \A id : Issued(id)' = Issued(id)
      /\ \A id : Spent(id)' = Spent(id)
      /\ \A id : OnWire(id)' = OnWire(id)
  BY DEF Quiet, Issued, Spent, OnWire
<1>2. WireOK'
  <2>1. \A i \in DOMAIN inbox' : i \in DOMAIN inbox /\ inbox'[i] = inbox[i] /\ inbox[i].id \notin done'
    BY DEF IInv, WireOK, Quiet
  <2>2. \A i \in DOMAIN inbox' : Issued(inbox[i].id)'
    BY <1>1, <2>1 DEF IInv, WireOK
  <2>3. \A i, j \in DOMAIN inbox' : inbox'[j].id = inbox'[i].id => j = i
    BY <2>1 DEF IInv, WireOK
  <2>4. \A i \in DOMAIN inbox' : \A c \in Callers :
            call'[c].at = "waiting" /\ call'[c].id = inbox'[i].id => inbox'[i].req = Head(call'[c].todo)
    BY <2>1 DEF IInv, WireOK, Quiet
  <2> QED
    BY <2>1, <2>2, <2>3, <2>4 DEF WireOK
<1>3. DoneOK'
  BY <1>1 DEF IInv, DoneOK, Quiet
<1>4. EventsOK'
  <2> SUFFICES ASSUME NEW i \in DOMAIN outbox'
               PROVE  /\ Issued(outbox[i].id)' /\ ~OnWire(outbox[i].id)'
                      /\ \A c \in Callers :
                             call'[c].at = "waiting" /\ call'[c].id = outbox'[i].id
                                 => Tells(c, outbox[i], outbox[i].id \in done)'
    BY DEF EventsOK
  <2>1. PICK j \in DOMAIN outbox : outbox'[i] = outbox[j]
    BY DEF Quiet
  <2>2. /\ Issued(outbox[j].id) /\ ~OnWire(outbox[j].id)
        /\ \A c \in Callers :
               call[c].at = "waiting" /\ call[c].id = outbox[j].id => Tells(c, outbox[j], outbox[j].id \in done)
    BY DEF IInv, EventsOK
  <2>3. ASSUME NEW c \in Callers, call'[c].at = "waiting", call'[c].id = outbox'[i].id
        PROVE  Tells(c, outbox[i], outbox[i].id \in done)'
    <3>1. call'[c] = call[c] /\ done' = done /\ kind' = kind
      BY <2>3 DEF Quiet
    <3>2. Tells(c, outbox[j], outbox[j].id \in done)
      BY <2>1, <2>2, <2>3, <3>1
    <3> QED
      BY <2>1, <3>1, <3>2 DEF Tells, Result, Raises
  <2> QED
    BY <1>1, <2>1, <2>2, <2>3
<1>5. AnswersOK'
  <2>1. \A a : Stands(a) => Stands(a)'
    BY <1>1 DEF Stands, Quiet
  <2> QED
    BY <2>1 DEF IInv, AnswersOK, Quiet
<1> QED
  BY <1>2, <1>3, <1>4, <1>5 DEF IInv

(* A call that is given up, by an answer that is neither of success nor of refusal or that stands. *)
LEMMA EndQuietly ==
    ASSUME IInv, NEW c \in Callers, NEW out, Ends(c, out),
           kind' = kind, sent' = sent, inbox' = inbox, done' = done,
           t' \in Nat, opened' \in Nat, outbox' \in Seq([id : Ids, event : Events]),
           \A i \in DOMAIN outbox' : \E j \in DOMAIN outbox : outbox'[i] = outbox[j],
           out \notin {"ok", "refused"} \/ Stands([id |-> call[c].id, out |-> out])
    PROVE  IInv'
<1>1. Resting \in Calls /\ Resting.at = "idle"
  BY DEF Resting, Calls
<1>2. call' = [call EXCEPT ![c] = Resting] /\ answers' = answers \union {[id |-> call[c].id, out |-> out]}
  BY DEF Ends
<1>3. \A d \in Callers : call'[d] = call[d] \/ call'[d] = Resting
  BY <1>2 DEF IInv, Types
<1>4. Types'
  BY <1>1, <1>2 DEF IInv, Types
<1>5. Busy'
  BY <1>1, <1>3 DEF IInv, Busy
<1>6. Stands([id |-> call[c].id, out |-> out])
  BY DEF Stands
<1>7. Quiet
  BY <1>1, <1>2, <1>3, <1>6 DEF Quiet
<1> QED
  BY <1>4, <1>5, <1>7, QuietKeeps

-----------------------------------------------------------------------------
LEMMA BeginQuiet == ASSUME Instances, IInv, NEW c \in Callers, Begin(c) PROVE IInv'
<1>1. PICK op \in OpsOf[c] :
          call' = [call EXCEPT ![c] = [at |-> IF SessionIsUp THEN "sending" ELSE "connecting",
                                       op |-> op, todo |-> Requests(op), id |-> <<c, 0>>]]
  BY DEF Begin
<1>2. op \in Ops
  BY DEF Instances
<1>3. <<c, 0>> \in Ids
  BY DEF Ids
<1>4. Requests(op) \in Seq(Reqs) /\ Requests(op) # <<>>
  BY <1>2, Requested
<1>5. /\ UNCHANGED <<kind, sent, inbox, outbox, done, answers>> /\ t' = t /\ opened' = opened
  BY DEF Begin, sessionVars, wireVars
<1>6. Types'
  <2>1. [at |-> IF SessionIsUp THEN "sending" ELSE "connecting", op |-> op, todo |-> Requests(op), id |-> <<c, 0>>] \in Calls
    BY <1>2, <1>3, <1>4 DEF Calls
  <2> QED
    BY <1>1, <1>5, <2>1 DEF IInv, Types
<1>7. \A d \in Callers : d # c => call'[d] = call[d]
  BY <1>1 DEF IInv, Types
<1>8. /\ call'[c].at # "waiting" /\ call'[c].op = op /\ call'[c].todo = Requests(op)
  BY <1>1 DEF IInv, Types
<1>9. Busy'
  BY <1>2, <1>4, <1>5, <1>7, <1>8 DEF IInv, Busy
<1>10. Quiet
  BY <1>5, <1>7, <1>8 DEF Quiet
<1> QED
  BY <1>6, <1>9, <1>10, QuietKeeps

(* A call that goes on to its next await. *)
LEMMA GoesOn ==
    ASSUME IInv, NEW c \in Callers, NEW todo \in Seq(Reqs), todo # <<>>, call[c].at # "idle",
           call' = [call EXCEPT ![c].at = "sending", ![c].todo = todo],
           kind' = kind, sent' = sent, inbox' = inbox, done' = done, answers' = answers,
           t' \in Nat, opened' \in Nat, outbox' \in Seq([id : Ids, event : Events]),
           \A i \in DOMAIN outbox' : \E j \in DOMAIN outbox : outbox'[i] = outbox[j]
    PROVE  IInv'
<1>1. call[c] \in Calls
  BY DEF IInv, Types
<1>2. \A d \in Callers : d # c => call'[d] = call[d]
  BY DEF IInv, Types
<1>3. /\ call'[c].at = "sending" /\ call'[c].op = call[c].op /\ call'[c].todo = todo /\ call'[c].id = call[c].id
      /\ call'[c] \in Calls
  BY <1>1 DEF IInv, Types, Calls
<1>4. Types'
  <2>1. call' \in [Callers -> Calls]
    BY <1>2, <1>3 DEF IInv, Types
  <2> QED
    BY <2>1 DEF IInv, Types
<1>5. Busy'
  BY <1>2, <1>3 DEF IInv, Busy
<1>6. Quiet
  BY <1>2, <1>3 DEF Quiet
<1> QED
  BY <1>4, <1>5, <1>6, QuietKeeps

LEMMA NothingOut ==
    /\ <<>> \in Seq([id : Ids, event : Events])
    /\ \A i \in DOMAIN <<>> : \E j \in DOMAIN outbox : <<>>[i] = outbox[j]
  OBVIOUS

LEMMA ConnectQuiet == ASSUME IInv, NEW c \in Callers, Connect(c) PROVE IInv'
<1>1. call[c].at = "connecting" /\ call[c] \in Calls /\ call[c].todo \in Seq(Reqs) /\ call[c].todo # <<>>
  BY DEF Connect, IInv, Types, Busy, Calls
<1>2. kind' = kind /\ sent' = sent /\ inbox' = inbox /\ done' = done
  BY DEF Connect
<1>3. CASE SessionIsUp
  <2>1. /\ call' = [call EXCEPT ![c].at = "sending"]
        /\ t' = t /\ opened' = opened /\ outbox' = outbox /\ answers' = answers
    BY <1>3 DEF Connect, sessionVars
  <2>2. call' = [call EXCEPT ![c].at = "sending", ![c].todo = call[c].todo]
    BY <1>1, <2>1 DEF IInv, Types, Calls
  <2>3. t \in Nat /\ opened \in Nat /\ outbox \in Seq([id : Ids, event : Events])
    BY DEF IInv, Types
  <2> QED
    BY <1>1, <1>2, <2>1, <2>2, <2>3, GoesOn
<1>4. CASE ~SessionIsUp /\ opened' = opened + 1 /\ t' = opened' /\ answers' = answers
             /\ call' = [call EXCEPT ![c].at = "sending", ![c].todo = Setup \o @] /\ outbox' = <<>>
  <2>1. Setup \in Seq(Reqs) /\ Setup # <<>>
    <3>1. "application" \in Reqs /\ "account" \in Reqs /\ "symbols" \in Reqs
      BY DEF Reqs
    <3> QED
      BY <3>1 DEF Setup
  <2>2. Setup \o call[c].todo \in Seq(Reqs) /\ Setup \o call[c].todo # <<>>
    BY <1>1, <2>1
  <2>3. call' = [call EXCEPT ![c].at = "sending", ![c].todo = Setup \o call[c].todo]
    BY <1>1, <1>4 DEF IInv, Types, Calls
  <2>4. t' \in Nat /\ opened' \in Nat
    BY <1>4 DEF IInv, Types
  <2> QED
    BY <1>1, <1>2, <1>4, <2>2, <2>3, <2>4, NothingOut, GoesOn
<1>5. CASE ~SessionIsUp /\ Ends(c, "unavailable") /\ t' = 0 /\ opened' = opened /\ outbox' = <<>>
  <2>1. t' \in Nat /\ opened' \in Nat
    BY <1>5 DEF IInv, Types
  <2> QED
    BY <1>2, <1>5, <2>1, NothingOut, EndQuietly
<1> QED
  BY <1>3, <1>4, <1>5 DEF Connect

LEMMA Loses ==
    ASSUME IInv, NEW c \in Callers, NEW out \in {"unavailable", "permission"}, Ends(c, out),
           kind' = kind, sent' = sent, inbox' = inbox, done' = done, t' = t, opened' = opened, outbox' = outbox
    PROVE  IInv'
<1>1. t' \in Nat /\ opened' \in Nat /\ outbox' \in Seq([id : Ids, event : Events])
  BY DEF IInv, Types
<1> QED
  BY <1>1, EndQuietly

LEMMA NoSuchPositionQuiet == ASSUME IInv, NEW c \in Callers, NoSuchPosition(c) PROVE IInv'
<1>1. /\ call' = [call EXCEPT ![c] = Resting]
      /\ answers' = answers \union {[id |-> <<c, 0>>, out |-> "refused"]}
      /\ UNCHANGED <<kind, sent, inbox, outbox, done>> /\ t' = t /\ opened' = opened
  BY DEF NoSuchPosition, sessionVars, wireVars
<1>2. Resting \in Calls /\ Resting.at = "idle"
  BY DEF Resting, Calls
<1>3. \A d \in Callers : call'[d] = call[d] \/ call'[d] = Resting
  BY <1>1 DEF IInv, Types
<1>4. Types'
  BY <1>1, <1>2 DEF IInv, Types
<1>5. Busy'
  BY <1>1, <1>2, <1>3 DEF IInv, Busy
<1>6. sent \in [Callers -> Nat]
  BY DEF IInv, Types
<1>7. ~Issued(<<c, 0>>) /\ Spent(<<c, 0>>)
  BY <1>6 DEF Issued, Spent
<1>8. <<c, 0>> \notin done /\ ~OnWire(<<c, 0>>)
  BY <1>7 DEF IInv, WireOK, DoneOK, OnWire
<1>9. Quiet
  BY <1>1, <1>2, <1>3, <1>7, <1>8 DEF Quiet, Stands
<1> QED
  BY <1>4, <1>5, <1>9, QuietKeeps

(* Everyone fails. *)
LEMMA AllFailQuiet ==
    ASSUME IInv, NEW out \in {"unavailable", "permission"}, AllFail(out),
           kind' = kind, sent' = sent, inbox' = inbox, done' = done, t' = t, opened' = opened, outbox' = outbox
    PROVE  IInv'
<1>1. Resting \in Calls /\ Resting.at = "idle"
  BY DEF Resting, Calls
<1>2. \A d \in Callers : call'[d] = call[d] \/ call'[d] = Resting
  BY DEF IInv, Types, AllFail
<1>3. Types'
  <2>1. call' \in [Callers -> Calls]
    BY <1>1 DEF IInv, Types, AllFail
  <2> QED
    BY <2>1 DEF IInv, Types
<1>4. Busy'
  BY <1>1, <1>2 DEF IInv, Busy
<1>5. \A a \in answers' : a \in answers \/ a.out = out
  BY DEF AllFail
<1>6. Quiet
  BY <1>1, <1>2, <1>5 DEF Quiet, Stands
<1> QED
  BY <1>3, <1>4, <1>6, QuietKeeps

LEMMA DispatchQuiet == ASSUME IInv, Dispatch PROVE IInv'
<1> DEFINE m == Head(outbox)
           c == Waiter(m)
           req == Head(call[c].todo)
           rest == Tail(call[c].todo)
<1>1. /\ outbox # <<>> /\ outbox' = Tail(outbox)
      /\ kind' = kind /\ sent' = sent /\ inbox' = inbox /\ done' = done /\ t' = t /\ opened' = opened
  BY DEF Dispatch
<1>2. outbox \in Seq([id : Ids, event : Events])
  BY DEF IInv, Types
<1>3. /\ m \in [id : Ids, event : Events] /\ m = outbox[1] /\ 1 \in DOMAIN outbox
      /\ outbox' \in Seq([id : Ids, event : Events])
      /\ \A i \in DOMAIN outbox' : \E j \in DOMAIN outbox : outbox'[i] = outbox[j]
  BY <1>1, <1>2, HeadAndTail
<1>4. c \in Callers
  BY <1>3 DEF Ids, Waiter
<1>5. t' \in Nat /\ opened' \in Nat
  BY <1>1 DEF IInv, Types
<1>6. CASE ~Awaited(m) \/ ~Finishes(req, m.event)
  <2>1. call' = call /\ answers' = answers
    BY <1>6 DEF Dispatch
  <2>2. Types'
    BY <1>1, <1>3, <1>5, <2>1 DEF IInv, Types
  <2>3. Busy'
    BY <1>1, <2>1 DEF IInv, Busy
  <2>4. Quiet
    BY <1>1, <1>3, <2>1 DEF Quiet
  <2> QED
    BY <2>2, <2>3, <2>4, QuietKeeps
<1>7. CASE Awaited(m) /\ Finishes(req, m.event)
  <2>1. call[c].at = "waiting" /\ call[c].id = m.id
    BY <1>7 DEF Awaited
  <2>2. Issued(m.id) /\ ~OnWire(m.id) /\ Tells(c, m, m.id \in done)
    BY <1>3, <1>4, <2>1 DEF IInv, EventsOK
  <2>3. Spent(m.id)
    BY <2>2 DEF Issued, Spent, IInv, Types
  <2>4. CASE ~Good(req, m.event)
    <3>1. Ends(c, Result(c, req, m.event))
      BY <1>7, <2>4 DEF Dispatch
    <3>2. Result(c, req, m.event) # "ok"
      BY DEF Result
    <3>3. Stands([id |-> call[c].id, out |-> Result(c, req, m.event)])
      BY <1>7, <2>1, <2>2, <2>3, <2>4, <3>2 DEF Stands, Tells
    <3> QED
      BY <1>1, <1>3, <1>4, <1>5, <3>1, <3>3, EndQuietly
  <2>5. CASE Good(req, m.event) /\ rest = <<>>
    <3>1. Ends(c, "ok")
      BY <1>7, <2>5 DEF Dispatch
    <3>2. Stands([id |-> call[c].id, out |-> "ok"])
      BY <1>7, <2>1, <2>2, <2>5 DEF Stands, Tells
    <3> QED
      BY <1>1, <1>3, <1>4, <1>5, <3>1, <3>2, EndQuietly
  <2>6. CASE Good(req, m.event) /\ rest # <<>>
    <3>1. call' = [call EXCEPT ![c].at = "sending", ![c].todo = rest] /\ answers' = answers
      BY <1>7, <2>6 DEF Dispatch
    <3>2. call[c].todo \in Seq(Reqs) /\ call[c].todo # <<>>
      BY <1>4, <2>1 DEF IInv, Types, Calls, Busy
    <3>3. rest \in Seq(Reqs)
      BY <3>2, HeadAndTail
    <3> HIDE DEF rest, c, m, req
    <3> QED
      BY <1>1, <1>3, <1>4, <1>5, <2>1, <2>6, <3>1, <3>3, GoesOn
  <2> QED
    BY <2>4, <2>5, <2>6
<1> QED
  BY <1>6, <1>7

-----------------------------------------------------------------------------
(* A request leaves: its number is new. *)
LEMMA SendKeeps == ASSUME IInv, NEW c \in Callers, Send(c) PROVE IInv'
<1>1. call[c].at = "sending" /\ call[c] \in Calls /\ call[c].todo \in Seq(Reqs) /\ call[c].todo # <<>>
      /\ call[c].op \in Ops
  BY DEF Send, IInv, Types, Busy, Calls
<1>2. UNCHANGED <<kind, t, opened, outbox, done>>
  BY DEF Send
<1>3. CASE /\ sent' = [sent EXCEPT ![c] = @ + 1]
           /\ call' = [call EXCEPT ![c].at = "waiting", ![c].id = <<c, sent'[c]>>]
           /\ inbox' = IF kind = "http" \/ t = alive
                       THEN Append(inbox, [conn |-> t, id |-> <<c, sent'[c]>>, req |-> Head(call[c].todo)])
                       ELSE inbox
           /\ answers' = answers
  <2>0. PICK n : n = sent[c] + 1
    OBVIOUS
  <2> DEFINE id == <<c, n>>
             msg == [conn |-> t, id |-> id, req |-> Head(call[c].todo)]
  <2>1. sent \in [Callers -> Nat] /\ sent' \in [Callers -> Nat] /\ sent'[c] = sent[c] + 1
        /\ \A d \in Callers : d # c => sent'[d] = sent[d]
    BY <1>3 DEF IInv, Types
  <2>2. id \in Ids
    BY <2>0, <2>1 DEF Ids
  <2>3. /\ call'[c].at = "waiting" /\ call'[c].id = id /\ call'[c].todo = call[c].todo /\ call'[c].op = call[c].op
        /\ call'[c] \in Calls
        /\ \A d \in Callers : d # c => call'[d] = call[d]
    BY <1>1, <1>3, <2>0, <2>1, <2>2 DEF IInv, Types, Calls
  <2>4. msg \in [conn : Nat, id : Ids, req : Reqs]
    BY <1>1, <2>2, HeadAndTail DEF IInv, Types
  <2>5. inbox' = Append(inbox, msg) \/ inbox' = inbox
    BY <1>3, <2>0, <2>1
  <2>6. inbox \in Seq([conn : Nat, id : Ids, req : Reqs])
    BY DEF IInv, Types
  <2>7. /\ inbox' \in Seq([conn : Nat, id : Ids, req : Reqs])
        /\ \A i \in DOMAIN inbox' : (i \in DOMAIN inbox /\ inbox'[i] = inbox[i])
                                    \/ (i = Len(inbox) + 1 /\ inbox'[i] = msg)
    <3> HIDE DEF msg
    <3> QED
      BY <2>4, <2>5, <2>6, Appended
  <2>8. Types'
    <3>1. call' \in [Callers -> Calls]
      BY <1>3, <2>3 DEF IInv, Types
    <3> QED
      BY <1>2, <2>1, <2>7, <3>1 DEF IInv, Types
  <2>9. Busy'
    BY <1>1, <2>0, <2>1, <2>3 DEF IInv, Busy
  <2>10. ~Issued(id) /\ ~Spent(id)
    BY <2>0, <2>1 DEF Issued, Spent
  <2>11. (\A x : Issued(x) => Issued(x)') /\ (\A x : Spent(x) => Spent(x)') /\ Issued(id)'
    <3>1. \A d \in Callers : 1..sent[d] \subseteq 1..sent'[d] /\ 0..sent[d] \subseteq 0..sent'[d]
      BY <2>1
    <3>2. sent'[c] \in 1..sent'[c] /\ id = <<c, sent'[c]>>
      BY <2>0, <2>1
    <3> QED
      BY <3>1, <3>2 DEF Issued, Spent
  <2>12. (\A x : OnWire(x)' => OnWire(x) \/ x = id) /\ id \notin done
    <3>1. id \notin done
      BY <2>10 DEF IInv, DoneOK
    <3>2. msg.id = id
      OBVIOUS
    <3> HIDE DEF id, msg
    <3> QED
      BY <2>7, <3>1, <3>2 DEF OnWire
  <2>13. WireOK'
    <3>1. ASSUME NEW i \in DOMAIN inbox', i \in DOMAIN inbox, inbox'[i] = inbox[i]
          PROVE  /\ Issued(inbox[i].id)' /\ inbox'[i].id \notin done'
                 /\ \A j \in DOMAIN inbox' : inbox'[j].id = inbox'[i].id => j = i
                 /\ \A d \in Callers :
                        call'[d].at = "waiting" /\ call'[d].id = inbox'[i].id => inbox'[i].req = Head(call'[d].todo)
      <4>1. /\ Issued(inbox[i].id) /\ inbox[i].id \notin done /\ inbox[i].id # id
            /\ \A j \in DOMAIN inbox : inbox[j].id = inbox[i].id => j = i
            /\ \A d \in Callers :
                   call[d].at = "waiting" /\ call[d].id = inbox[i].id => inbox[i].req = Head(call[d].todo)
        BY <2>10, <3>1 DEF IInv, WireOK
      <4>2. msg.id = id
        OBVIOUS
      <4>3. \A x : x = inbox[i].id => Issued(x)'
        BY <2>11, <4>1
      <4> HIDE DEF id, msg
      <4>4. inbox'[i].id = inbox[i].id /\ inbox'[i].req = inbox[i].req /\ done' = done
        BY <1>2, <3>1
      <4>5. Issued(inbox[i].id)'
        <5>1. \A x : x = inbox[i].id => (\E d \in Callers : \E k \in 1..sent'[d] : x = <<d, k>>)
          BY <4>3 DEF Issued
        <5> QED
          BY <4>4, <5>1 DEF Issued
      <4>6. \A j \in DOMAIN inbox' : inbox'[j].id = inbox'[i].id => j = i
        BY <2>7, <4>1, <4>2, <4>4
      <4>7. \A d \in Callers :
               call'[d].at = "waiting" /\ call'[d].id = inbox'[i].id => inbox'[i].req = Head(call'[d].todo)
        <5>1. ASSUME NEW d \in Callers, call'[d].at = "waiting", call'[d].id = inbox'[i].id
              PROVE  inbox'[i].req = Head(call'[d].todo)
          <6>1. d # c
            BY <2>3, <4>1, <4>4, <5>1
          <6>2. call'[d] = call[d]
            BY <2>3, <6>1
          <6>3. call[d].at = "waiting" /\ call[d].id = inbox[i].id
            BY <4>4, <5>1, <6>2
          <6>4. inbox[i].req = Head(call[d].todo)
            BY Zenon, <4>1, <6>3
          <6> QED
            BY <4>4, <6>2, <6>4
        <5> QED
          BY <5>1
      <4> QED
        BY <4>1, <4>4, <4>5, <4>6, <4>7
    <3>2. ASSUME NEW i \in DOMAIN inbox', i = Len(inbox) + 1, inbox'[i] = msg
          PROVE  /\ Issued(inbox[i].id)' /\ inbox'[i].id \notin done'
                 /\ \A j \in DOMAIN inbox' : inbox'[j].id = inbox'[i].id => j = i
                 /\ \A d \in Callers :
                        call'[d].at = "waiting" /\ call'[d].id = inbox'[i].id => inbox'[i].req = Head(call'[d].todo)
      <4>1. \A j \in DOMAIN inbox : inbox[j].id # id
        BY <2>10 DEF IInv, WireOK
      <4>2. \A d \in Callers : d # c => call'[d].id # id \/ call'[d].at # "waiting"
        <5>1. \A d \in Callers : d # c => <<d, sent[d]>> # id
          OBVIOUS
        <5> QED
          BY <2>3, <5>1 DEF IInv, Busy
      <4>3. msg.id = id /\ msg.req = Head(call[c].todo)
        OBVIOUS
      <4>4. inbox'[i].id = id /\ inbox'[i].req = Head(call'[c].todo)
        BY <2>3, <3>2, <4>3
      <4>5. Issued(inbox[i].id)'
        <5>1. \A x : x = id => Issued(x)'
          BY <2>11
        <5> HIDE DEF id
        <5> QED
          BY <4>4, <5>1 DEF Issued
      <4> HIDE DEF id, msg
      <4> QED
        BY <1>2, <2>7, <2>12, <3>2, <4>1, <4>2, <4>4, <4>5
    <3> QED
      BY <2>7, <3>1, <3>2 DEF WireOK
  <2>14. DoneOK'
    BY <1>2, <2>11 DEF IInv, DoneOK
  <2>15. EventsOK'
    <3> SUFFICES ASSUME NEW i \in DOMAIN outbox'
                 PROVE  /\ Issued(outbox[i].id)' /\ ~OnWire(outbox[i].id)'
                        /\ \A d \in Callers :
                               call'[d].at = "waiting" /\ call'[d].id = outbox'[i].id
                                   => Tells(d, outbox[i], outbox[i].id \in done)'
      BY DEF EventsOK
    <3>1. i \in DOMAIN outbox /\ outbox' = outbox /\ done' = done /\ kind' = kind
      BY <1>2
    <3>2. /\ Issued(outbox[i].id) /\ ~OnWire(outbox[i].id) /\ outbox[i].id # id
          /\ \A d \in Callers :
                 call[d].at = "waiting" /\ call[d].id = outbox[i].id => Tells(d, outbox[i], outbox[i].id \in done)
      BY <2>10, <3>1 DEF IInv, EventsOK
    <3>3. \A x : x = outbox[i].id => Issued(x)' /\ ~OnWire(x)'
      BY <2>11, <2>12, <3>2
    <3>4. Issued(outbox[i].id)' /\ ~OnWire(outbox[i].id)'
      BY <3>1, <3>3 DEF Issued, OnWire
    <3>5. ASSUME NEW d \in Callers, call'[d].at = "waiting", call'[d].id = outbox'[i].id
          PROVE  Tells(d, outbox[i], outbox[i].id \in done)'
      <4>1. d # c
        BY <2>3, <3>1, <3>2, <3>5
      <4>2. call'[d] = call[d]
        BY <2>3, <4>1
      <4>3. Tells(d, outbox[i], outbox[i].id \in done)
        BY <3>1, <3>2, <3>5, <4>2
      <4> QED
        BY <3>1, <4>2, <4>3 DEF Tells, Result, Raises
    <3> QED
      BY <3>4, <3>5
  <2>16. AnswersOK'
    <3>1. \A a : Stands(a) => Stands(a)'
      <4> SUFFICES ASSUME NEW a, Stands(a) PROVE Stands(a)'
        OBVIOUS
      <4>1. a.out = "refused" => Spent(a.id)' /\ ~OnWire(a.id)'
        BY <2>10, <2>11, <2>12 DEF Stands
      <4> QED
        BY <1>2, <4>1 DEF Stands
    <3> QED
      BY <1>3, <3>1 DEF IInv, AnswersOK
  <2> QED
    BY <2>8, <2>9, <2>13, <2>14, <2>15, <2>16 DEF IInv
<1>4. CASE Ends(c, "unavailable") /\ sent' = sent /\ inbox' = inbox
  BY <1>2, <1>4, Loses
<1> QED
  BY <1>3, <1>4 DEF Send

-----------------------------------------------------------------------------
(* What the broker answers says what it did. *)
Says(req, applied, e) ==
    Finishes(req, e) =>
        /\ Good(req, e) => applied = "yes"
        /\ ~Good(req, e) /\ applied = "yes" => e = "server error"
Honest(req, o) == o.events \in Seq(Events) /\ \A i \in DOMAIN o.events : Says(req, o.applied, o.events[i])

LEMMA HonestOne ==
    ASSUME NEW req, NEW a, NEW e \in Events, Says(req, a, e)
    PROVE  Honest(req, Outcome(a, <<e>>))
<1>1. Outcome(a, <<e>>).events = <<e>> /\ Outcome(a, <<e>>).applied = a
  BY DEF Outcome
<1> QED
  BY <1>1, Listed DEF Honest

LEMMA HonestMore ==
    ASSUME NEW req, NEW a, NEW e \in Events, NEW f \in Events, NEW g \in Events,
           Says(req, a, e), Says(req, a, f), Says(req, a, g)
    PROVE  Honest(req, Outcome(a, <<e, f>>)) /\ Honest(req, Outcome(a, <<e, f, g>>))
<1>1. Outcome(a, <<e, f>>).events = <<e, f>> /\ Outcome(a, <<e, f>>).applied = a
  BY DEF Outcome
<1>2. Outcome(a, <<e, f, g>>).events = <<e, f, g>> /\ Outcome(a, <<e, f, g>>).applied = a
  BY DEF Outcome
<1>3. \A i \in DOMAIN <<e, f>> : Says(req, a, <<e, f>>[i])
  BY Listed
<1>4. \A i \in DOMAIN <<e, f, g>> : Says(req, a, <<e, f, g>>[i])
  BY Listed
<1>5. <<e, f>> \in Seq(Events) /\ <<e, f, g>> \in Seq(Events)
  BY Listed
<1>6. Honest(req, Outcome(a, <<e, f>>))
  BY <1>1, <1>3, <1>5 DEF Honest
<1>7. Honest(req, Outcome(a, <<e, f, g>>))
  BY <1>2, <1>4, <1>5 DEF Honest
<1> QED
  BY <1>6, <1>7

LEMMA Truthful ==
    ASSUME NEW m, NEW req \in Reqs, m.req = req, NEW o \in Outcomes(m)
    PROVE  Honest(req, o)
<1>0. "ok" \in Events /\ "error" \in Events /\ "order error" \in Events /\ "denied" \in Events /\ "refused" \in Events /\ "server error" \in Events
      /\ "accepted" \in Events /\ "filled" \in Events /\ "rejected" \in Events /\ "partial" \in Events /\ "cancelled" \in Events /\ "cancel rejected" \in Events /\ "replaced" \in Events
  BY DEF Events
<1>1. /\ Says(req, "yes", "ok") /\ Says(req, "no", "refused") /\ Says(req, "no", "denied")
      /\ Says(req, "yes", "server error") /\ Says(req, "no", "server error")
      /\ Says(req, "no", "error") /\ Says(req, "no", "order error") /\ Says(req, "no", "rejected")
      /\ Says(req, "no", "cancel rejected")
  BY DEF Says, Good
<1>2. /\ req \in {"market", "close"} => Says(req, "no", "accepted")
      /\ req = "market" => \A e \in {"accepted", "partial", "cancelled"} : Says(req, "part", e)
      /\ req \in {"market", "close", "pending"} => Says(req, "yes", "accepted") /\ Says(req, "yes", "filled")
      /\ req = "modify" => Says(req, "yes", "replaced")
      /\ req = "cancel" => Says(req, "yes", "cancelled")
  BY DEF Says, Good, Finishes
<1>3. /\ Honest(req, Outcome("yes", <<"ok">>)) /\ Honest(req, Outcome("no", <<"refused">>))
      /\ Honest(req, Outcome("no", <<"denied">>)) /\ Honest(req, Outcome("yes", <<"server error">>))
      /\ Honest(req, Outcome("no", <<"server error">>)) /\ Honest(req, Outcome("no", <<"error">>))
      /\ Honest(req, Outcome("no", <<"order error">>)) /\ Honest(req, Outcome("no", <<"rejected">>))
      /\ Honest(req, Outcome("no", <<"cancel rejected">>))
  BY <1>0, <1>1, HonestOne
<1>4. req \in {"market", "close"} => Honest(req, Outcome("no", <<"accepted", "rejected">>))
  BY <1>0, <1>1, <1>2, HonestMore
<1>5. req = "market" => Honest(req, Outcome("part", <<"accepted", "partial", "cancelled">>))
  BY <1>0, <1>2, HonestMore
<1>6. req \in {"market", "close", "pending"} => Honest(req, Outcome("yes", <<"accepted", "filled">>))
  BY <1>0, <1>2, HonestMore
<1>7. /\ req = "pending" => Honest(req, Outcome("yes", <<"accepted">>))
      /\ req = "modify" => Honest(req, Outcome("yes", <<"replaced">>))
      /\ req = "cancel" => Honest(req, Outcome("yes", <<"cancelled">>))
  BY <1>0, <1>2, HonestOne
<1>8. o \in HttpOutcomes(req) => Honest(req, o)
  BY <1>3 DEF HttpOutcomes
<1>9. req \in Ops /\ o \in Successes(req) => Honest(req, o)
  BY <1>6, <1>7 DEF Successes, Ops
<1>10. req \in Ops /\ o \in Refusals(req) => Honest(req, o)
  BY <1>3, <1>4, <1>5 DEF Refusals, Ops
<1> QED
  BY <1>3, <1>8, <1>9, <1>10 DEF Outcomes, Reqs

(* The broker takes a request from the wire. *)
LEMMA ServeKeeps == ASSUME IInv, Serve PROVE IInv'
<1> DEFINE m == Head(inbox)
           S == [conn : Nat, id : Ids, req : Reqs]
           E == [id : Ids, event : Events]
<1>1. /\ inbox # <<>> /\ inbox' = Tail(inbox)
      /\ UNCHANGED <<kind, t, opened, call, sent, answers>>
  BY DEF Serve
<1>2. inbox \in Seq(S) /\ outbox \in Seq(E)
  BY DEF IInv, Types
<1>3. /\ m \in S /\ m = inbox[1] /\ 1 \in DOMAIN inbox
      /\ inbox' \in Seq(S)
      /\ \A i \in DOMAIN inbox' : i + 1 \in DOMAIN inbox /\ i + 1 # 1 /\ inbox'[i] = inbox[i + 1]
  BY <1>1, <1>2, HeadAndTail
<1>4. PICK o \in Outcomes(m) :
          /\ done' = IF o.applied = "yes" THEN done \union {m.id} ELSE done
          /\ outbox' = IF m.conn = alive
                       THEN outbox \o [i \in DOMAIN o.events |-> [id |-> m.id, event |-> o.events[i]]]
                       ELSE outbox
  BY DEF Serve
<1>5. Honest(m.req, o)
  BY <1>3, Truthful
<1>6. PICK id : id = m.id
  OBVIOUS
<1> DEFINE told == [i \in DOMAIN o.events |-> [id |-> id, event |-> o.events[i]]]
<1>7. /\ told \in Seq(E)
      /\ \A i \in DOMAIN told : told[i].id = id /\ Says(m.req, o.applied, told[i].event)
  <2>1. o.events \in Seq(Events) /\ \A i \in DOMAIN o.events : Says(m.req, o.applied, o.events[i])
    BY <1>5 DEF Honest
  <2>2. id \in Ids
    BY <1>3, <1>6
  <2>3. told \in Seq(E)
    <3>1. DOMAIN o.events = 1..Len(o.events) /\ Len(o.events) \in Nat
      BY <2>1
    <3>2. \A i \in 1..Len(o.events) : told[i] \in E
      BY <2>1, <2>2, <3>1
    <3>3. told = [i \in 1..Len(o.events) |-> told[i]]
      BY <3>1
    <3> HIDE DEF E, told
    <3> QED
      BY <3>1, <3>2, <3>3, Counted
  <2> QED
    BY <2>1, <2>3
<1>8. /\ outbox' \in Seq(E)
      /\ \A i \in DOMAIN outbox' : (i \in DOMAIN outbox /\ outbox'[i] = outbox[i])
                                   \/ (\E j \in DOMAIN told : outbox'[i] = told[j])
  <2>1. outbox' = outbox \o told \/ outbox' = outbox
    BY <1>4, <1>6
  <2> HIDE DEF told, E
  <2>2. CASE outbox' = outbox
    BY <1>2, <2>2
  <2>3. CASE outbox' = outbox \o told
    <3>1. told \in Seq(E) /\ outbox \in Seq(E)
      BY <1>2, <1>7
    <3> QED
      BY <2>3, <3>1, Joined
  <2> QED
    BY <2>1, <2>2, <2>3
<1>9. /\ Issued(id) /\ id \notin done /\ OnWire(id)
      /\ \A j \in DOMAIN inbox : inbox[j].id = id => j = 1
      /\ \A c \in Callers : call[c].at = "waiting" /\ call[c].id = id => m.req = Head(call[c].todo)
  BY <1>3, <1>6 DEF IInv, WireOK, OnWire
<1>10. /\ \A x : Issued(x)' = Issued(x)
       /\ \A x : Spent(x)' = Spent(x)
       /\ \A x : OnWire(x)' => OnWire(x) /\ x # id
       /\ done' \subseteq done \union {id} /\ done \subseteq done'
       /\ id \in done' <=> o.applied = "yes"
  <2>1. (\A x : Issued(x)' = Issued(x)) /\ (\A x : Spent(x)' = Spent(x))
    BY <1>1 DEF Issued, Spent
  <2>2. \A x : OnWire(x)' => OnWire(x) /\ x # id
    BY <1>3, <1>9 DEF OnWire
  <2> QED
    BY <1>4, <1>6, <1>9, <2>1, <2>2
<1>11. Types' /\ Busy'
  BY <1>1, <1>3, <1>8 DEF IInv, Types, Busy
<1>12. WireOK'
  <2> SUFFICES ASSUME NEW i \in DOMAIN inbox'
               PROVE  /\ Issued(inbox[i].id)' /\ inbox'[i].id \notin done'
                      /\ \A j \in DOMAIN inbox' : inbox'[j].id = inbox'[i].id => j = i
                      /\ \A c \in Callers :
                             call'[c].at = "waiting" /\ call'[c].id = inbox'[i].id => inbox'[i].req = Head(call'[c].todo)
    BY DEF WireOK
  <2>1. i + 1 \in DOMAIN inbox /\ inbox'[i] = inbox[i + 1] /\ inbox[i + 1].id # id
    BY <1>3, <1>9
  <2>2. /\ Issued(inbox[i + 1].id) /\ inbox[i + 1].id \notin done
        /\ \A j \in DOMAIN inbox : inbox[j].id = inbox[i + 1].id => j = i + 1
        /\ \A c \in Callers :
               call[c].at = "waiting" /\ call[c].id = inbox[i + 1].id => inbox[i + 1].req = Head(call[c].todo)
    BY <2>1 DEF IInv, WireOK
  <2>3. inbox'[i].id \notin done'
    BY <1>10, <2>1, <2>2
  <2>4. \A j \in DOMAIN inbox' : inbox'[j].id = inbox'[i].id => j = i
    <3>1. \A j \in DOMAIN inbox' : j \in Int
      BY <1>3
    <3> QED
      BY <1>3, <2>1, <2>2, <3>1
  <2>5. Issued(inbox[i].id)'
    BY <1>1, <2>1, <2>2 DEF Issued
  <2> QED
    BY <1>1, <2>1, <2>2, <2>3, <2>4, <2>5
<1>13. DoneOK'
  BY <1>9, <1>10 DEF IInv, DoneOK
<1>14. EventsOK'
  <2> SUFFICES ASSUME NEW i \in DOMAIN outbox'
               PROVE  /\ Issued(outbox[i].id)' /\ ~OnWire(outbox[i].id)'
                      /\ \A c \in Callers :
                             call'[c].at = "waiting" /\ call'[c].id = outbox'[i].id
                                 => Tells(c, outbox[i], outbox[i].id \in done)'
    BY DEF EventsOK
  <2>1. kind' = kind /\ call' = call
    BY <1>1
  <2>2. ASSUME i \in DOMAIN outbox, outbox'[i] = outbox[i]
        PROVE  /\ Issued(outbox[i].id)' /\ ~OnWire(outbox[i].id)'
               /\ \A c \in Callers :
                      call'[c].at = "waiting" /\ call'[c].id = outbox'[i].id
                          => Tells(c, outbox[i], outbox[i].id \in done)'
    <3>1. /\ Issued(outbox[i].id) /\ ~OnWire(outbox[i].id) /\ outbox[i].id # id
          /\ \A c \in Callers :
                 call[c].at = "waiting" /\ call[c].id = outbox[i].id => Tells(c, outbox[i], outbox[i].id \in done)
      BY <1>9, <2>2 DEF IInv, EventsOK
    <3>2. \A x : x = outbox[i].id => Issued(x)' /\ ~OnWire(x)'
      BY <1>10, <3>1
    <3>3. Issued(outbox[i].id)' /\ ~OnWire(outbox[i].id)'
      BY <2>2, <3>2 DEF Issued, OnWire
    <3>4. outbox'[i].id \in done' <=> outbox[i].id \in done
      BY <1>10, <2>2, <3>1
    <3>5. ASSUME NEW c \in Callers, call'[c].at = "waiting", call'[c].id = outbox'[i].id
          PROVE  Tells(c, outbox[i], outbox[i].id \in done)'
      <4>1. Tells(c, outbox[i], outbox[i].id \in done)
        BY <2>1, <2>2, <3>1, <3>5
      <4> QED
        BY <2>1, <2>2, <3>4, <4>1 DEF Tells, Result, Raises
    <3> QED
      BY <3>3, <3>5
  <2>3. ASSUME NEW j \in DOMAIN told, outbox'[i] = told[j]
        PROVE  /\ Issued(outbox[i].id)' /\ ~OnWire(outbox[i].id)'
               /\ \A c \in Callers :
                      call'[c].at = "waiting" /\ call'[c].id = outbox'[i].id
                          => Tells(c, outbox[i], outbox[i].id \in done)'
    <3>1. outbox'[i].id = id /\ Says(m.req, o.applied, outbox'[i].event)
      BY <1>7, <2>3
    <3>2. \A x : x = id => Issued(x)' /\ ~OnWire(x)'
      BY <1>9, <1>10
    <3>3. Issued(outbox[i].id)' /\ ~OnWire(outbox[i].id)'
      BY <3>1, <3>2 DEF Issued, OnWire
    <3>4. ASSUME NEW c \in Callers, call'[c].at = "waiting", call'[c].id = outbox'[i].id
          PROVE  Tells(c, outbox[i], outbox[i].id \in done)'
      <4>1. m.req = Head(call'[c].todo)
        BY <1>9, <2>1, <3>1, <3>4
      <4>2. outbox'[i].id \in done' <=> o.applied = "yes"
        BY <1>10, <3>1
      <4>3. Result(c, m.req, "server error") = "unavailable"
        BY DEF Result
      <4> HIDE DEF m
      <4> QED
        BY <2>1, <3>1, <4>1, <4>2, <4>3 DEF Tells, Says, Result
    <3> QED
      BY <3>3, <3>4
  <2> QED
    BY <1>8, <2>2, <2>3
<1>15. AnswersOK'
  <2>1. \A a : Stands(a) => Stands(a)'
    <3> SUFFICES ASSUME NEW a, Stands(a) PROVE Stands(a)'
      OBVIOUS
    <3>1. a.out = "refused" => a.id # id
      BY <1>9 DEF Stands
    <3> QED
      BY <1>10, <3>1 DEF Stands
  <2> QED
    BY <1>1, <2>1 DEF IInv, AnswersOK
<1> QED
  BY <1>11, <1>12, <1>13, <1>14, <1>15 DEF IInv

-----------------------------------------------------------------------------
LEMMA Step == ASSUME Instances, IInv, [Next]_vars PROVE IInv'
<1>1. CASE UNCHANGED vars
  <2>1. UNCHANGED <<kind, t, opened, sent, call, inbox, outbox, done, answers>>
    BY <1>1 DEF vars, sessionVars, wireVars
  <2>2. Types' /\ Busy'
    BY <2>1 DEF IInv, Types, Busy
  <2>3. Quiet
    BY <2>1 DEF Quiet
  <2> QED
    BY <2>2, <2>3, QuietKeeps
<1>2. CASE Next
  <2>1. ASSUME NEW c \in Callers, Begin(c) \/ Connect(c) \/ Send(c) \/ NoSuchPosition(c)
        PROVE  IInv'
    BY <2>1, BeginQuiet, ConnectQuiet, SendKeeps, NoSuchPositionQuiet
  <2>2. ASSUME NEW c \in Callers, TimesOut(c)
        PROVE  IInv'
    BY <2>2, Loses DEF TimesOut, sessionVars, wireVars
  <2>3. CASE Drops
    <3>1. /\ UNCHANGED <<kind, t, opened, call, sent, inbox, done, answers>> /\ outbox' = <<>>
      BY <2>3 DEF Drops
    <3>2. Types' /\ Busy'
      BY <3>1, NothingOut DEF IInv, Types, Busy
    <3>3. Quiet
      BY <3>1, NothingOut DEF Quiet
    <3> QED
      BY <3>2, <3>3, QuietKeeps
  <2>4. CASE ReaderFails
    BY <2>4, AllFailQuiet DEF ReaderFails, wireVars
  <2>5. CASE Invalidated
    BY <2>5, AllFailQuiet DEF Invalidated, wireVars
  <2> QED
    BY <1>2, <2>1, <2>2, <2>3, <2>4, <2>5, ServeKeeps, DispatchQuiet DEF Next
<1> QED
  BY <1>1, <1>2

(* Whatever is dropped, late, or answered to another caller meanwhile: an operation that reports success was applied,
   and one that reports a refusal was not and never will be. *)
THEOREM AdaptersTellTheTruth == ASSUME Instances PROVE Spec => []AnswersAreTrue
<1>1. IInv => AnswersAreTrue
  BY DEF IInv, AnswersOK, Stands, AnswersAreTrue
<1>2. Init => IInv
  BY InitInv
<1>3. IInv /\ [Next]_vars => IInv'
  BY Step
<1> QED
  BY <1>1, <1>2, <1>3, PTL DEF Spec
=============================================================================
