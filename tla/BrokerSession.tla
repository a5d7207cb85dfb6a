----------------------------- MODULE BrokerSession -----------------------------
(***************************************************************************)
(* The calls of the broker adapters: cTrader's session over one WebSocket  *)
(* (execution/ctrader.py), OANDA's REST API (oanda.py) and the MT5 bridge  *)
(* over HTTP (mt5.py, mt5_bridge).                                         *)
(*                                                                         *)
(* A caller's operation is a list of requests.  A request that is answered *)
(* ends with what the broker answered; one that is not, or whose session   *)
(* breaks, ends "unavailable": it may or may not have been applied.  The   *)
(* tasks of the process interleave at every await.  What an order contains *)
(* is left out: the broker takes a request or refuses it.                  *)
(***************************************************************************)
EXTENDS Naturals, Sequences, SequencesExt

CONSTANTS Callers,
          Kinds,           \* "ctrader", "http"
          OpsOf,           \* caller -> the operations it calls
          MaxRequests,     \* bound: a caller that has sent so many of them begins no other operation
          MaxFaults        \* bound: timeouts, drops, invalid tokens and failed connections

VARIABLES kind,
          t,               \* the adapter's connection (_t), 0 for none
          alive,           \* the connection the broker has open, 0 for none
          opened,          \* connections opened so far
          auth,            \* connection -> how far its authentication is
          fatal,           \* _fatal
          lock,            \* who is in connect
          call,            \* caller -> the operation under way
          sent,            \* caller -> requests sent
          inbox, outbox,   \* messages to the broker and from it, in order
          done, partly,    \* history: requests the broker has applied, or in part
          answers,         \* history: the outcome of every operation
          faults

sessionVars == <<t, alive, opened, auth, fatal, lock>>
wireVars == <<inbox, outbox, done, partly>>
vars == <<kind, sessionVars, call, sent, wireVars, answers, faults>>

NoCaller == "no caller"
Resting == [at |-> "idle", op |-> "none", todo |-> <<>>, id |-> <<>>]
(* The requests of an operation: cTrader looks for the position before it closes it, OANDA reads
   an order before it replaces it. *)
Requests(op) ==
    CASE op = "close" -> <<"read", "close">>
      [] op = "modify" /\ kind = "http" -> <<"read", "modify">>
      [] OTHER -> <<op>>

(* connect: the application, the account, the symbols. *)
Setup == <<"application", "account", "symbols">>
IsSetup(req) == req \in {"application", "account", "symbols"}

Init ==
    /\ kind \in Kinds
    /\ t = 0 /\ alive = 0 /\ opened = 0
    /\ auth = <<>> /\ fatal = "none" /\ lock = NoCaller
    /\ call = [c \in Callers |-> Resting]
    /\ sent = [c \in Callers |-> 0]
    /\ inbox = <<>> /\ outbox = <<>>
    /\ done = {} /\ partly = {} /\ answers = {}
    /\ faults = 0

Fault == faults < MaxFaults /\ faults' = faults + 1
Unlock(c) == lock' = IF lock = c THEN NoCaller ELSE lock

(* The operation ends; what it returned or raised. *)
Ends(c, out) ==
    /\ call' = [call EXCEPT ![c] = Resting]
    /\ answers' = answers \union {[id |-> call[c].id, out |-> out]}

-----------------------------------------------------------------------------
(* _ensure: a session that was set up, or seems to be, is used as it is. *)
SessionIsUp == kind = "http" \/ (t # 0 /\ fatal = "none")

Begin(c) ==
    /\ call[c].at = "idle" /\ sent[c] < MaxRequests[c]
    /\ fatal # "permission"
    /\ \E op \in OpsOf[c] :
           call' = [call EXCEPT ![c] = [at |-> IF SessionIsUp THEN "sending" ELSE "connecting",
                                        op |-> op, todo |-> Requests(op), id |-> <<c, 0>>]]
    /\ UNCHANGED <<kind, sessionVars, sent, wireVars, answers, faults>>

(* connect, up to the new connection; an older one is closed, what it has sent may still arrive. *)
Connect(c) ==
    /\ call[c].at = "connecting" /\ lock = NoCaller
    /\ IF SessionIsUp
       THEN call' = [call EXCEPT ![c].at = "sending"] /\ UNCHANGED <<sessionVars, outbox, answers, faults>>
       ELSE /\ outbox' = <<>> /\ fatal' = "none"
            /\ \/ /\ opened' = opened + 1 /\ t' = opened' /\ alive' = opened'
                  /\ auth' = Append(auth, 0)
                  /\ lock' = c
                  /\ call' = [call EXCEPT ![c].at = "sending", ![c].todo = Setup \o @]
                  /\ UNCHANGED <<answers, faults>>
               \/ /\ Fault
                  /\ t' = 0 /\ alive' = 0
                  /\ Ends(c, "unavailable")
                  /\ UNCHANGED <<opened, auth, lock>>
    /\ UNCHANGED <<kind, sent, inbox, done, partly>>

(* _call: the request leaves; on a connection that is gone it is lost, or the send fails. *)
Send(c) ==
    /\ call[c].at = "sending"
    /\ \/ /\ kind = "http" \/ t # 0
          /\ sent' = [sent EXCEPT ![c] = @ + 1]
          /\ call' = [call EXCEPT ![c].at = "waiting", ![c].id = <<c, sent'[c]>>]
          /\ inbox' = IF kind = "http" \/ t = alive
                      THEN Append(inbox, [conn |-> t, id |-> <<c, sent'[c]>>, req |-> Head(call[c].todo)])
                      ELSE inbox
          /\ UNCHANGED <<fatal, lock, answers>>
       \/ /\ kind = "ctrader" /\ (t # alive \/ t = 0)
          /\ fatal' = IF t = 0 THEN fatal ELSE "unavailable"
          /\ Ends(c, "unavailable") /\ Unlock(c)
          /\ UNCHANGED <<sent, inbox>>
    /\ UNCHANGED <<kind, t, alive, opened, auth, outbox, done, partly, faults>>

-----------------------------------------------------------------------------
(* The broker: what it does with a request, and the events it answers with. *)
Outcome(applied, events) == [applied |-> applied, events |-> events]
Refusals(req) ==
    {Outcome("no", <<"order error">>), Outcome("no", <<"error">>)}
    \union CASE req = "market" -> {Outcome("no", <<"accepted", "rejected">>),
                                   Outcome("part", <<"accepted", "partial", "cancelled">>)}
             [] req = "pending" -> {Outcome("no", <<"rejected">>)}
             [] req = "cancel" -> {Outcome("no", <<"cancel rejected">>)}
             [] req = "close" -> {Outcome("no", <<"accepted", "rejected">>)}
             [] OTHER -> {}
Successes(req) ==
    CASE req = "market" -> {Outcome("yes", <<"accepted", "filled">>)}
      [] req = "pending" -> {Outcome("yes", <<"accepted">>), Outcome("yes", <<"accepted", "filled">>)}
      [] req = "modify" -> {Outcome("yes", <<"replaced">>)}
      [] req = "cancel" -> {Outcome("yes", <<"cancelled">>)}
      [] req = "close" -> {Outcome("yes", <<"accepted", "filled">>)}

(* OANDA and the bridge answer once; an error of the server may hide what was done. *)
HttpOutcomes(req) ==
    {Outcome("yes", <<"ok">>), Outcome("no", <<"refused">>),
     Outcome("yes", <<"server error">>), Outcome("no", <<"server error">>), Outcome("no", <<"denied">>)}

(* cTrader takes nothing but the application's and then the account's authentication first. *)
Authorised(m) == m.req = "application" \/ auth[m.conn] >= (IF m.req = "account" THEN 1 ELSE 2)

Outcomes(m) ==
    IF kind = "http" THEN HttpOutcomes(m.req)
    ELSE IF ~Authorised(m) THEN {Outcome("no", <<"error">>)}
    ELSE CASE m.req = "application" -> {Outcome("yes", <<"ok">>), Outcome("no", <<"denied">>)}
           [] m.req = "account" -> {Outcome("yes", <<"ok">>), Outcome("no", <<"denied">>), Outcome("no", <<"error">>)}
           [] m.req \in {"symbols", "read"} -> {Outcome("yes", <<"ok">>), Outcome("no", <<"error">>)}
           [] OTHER -> Successes(m.req) \union Refusals(m.req)

Serve ==
    /\ inbox # <<>>
    /\ LET m == Head(inbox)
       IN  \E o \in Outcomes(m) :
               /\ done' = IF o.applied = "yes" THEN done \union {m.id} ELSE done
               /\ partly' = IF o.applied = "part" THEN partly \union {m.id} ELSE partly
               /\ auth' = IF o.applied = "yes" /\ m.req \in {"application", "account"}
                          THEN [auth EXCEPT ![m.conn] = @ + 1] ELSE auth
               /\ outbox' = IF m.conn = alive
                            THEN outbox \o [i \in DOMAIN o.events |-> [id |-> m.id, event |-> o.events[i]]]
                            ELSE outbox
    /\ inbox' = Tail(inbox)
    /\ UNCHANGED <<kind, t, alive, opened, fatal, lock, call, sent, answers, faults>>

-----------------------------------------------------------------------------
(* The events that end a request: place waits for a fill of a market order, and for the acceptance
   of a pending one. *)
Finishes(req, event) ==
    \/ event \in {"ok", "error", "order error", "denied", "refused", "server error"}
    \/ CASE req = "market" -> event \in {"filled", "rejected", "cancelled", "expired"}
         [] req = "pending" -> event \in {"accepted", "rejected", "cancelled"}
         [] req = "cancel" -> event \in {"cancelled", "cancel rejected"}
         [] req = "close" -> event \in {"filled", "rejected"}
         [] OTHER -> TRUE

Good(req, event) ==
    \/ event \in {"ok", "filled", "accepted", "replaced"}
    \/ req = "cancel" /\ event = "cancelled"

(* By the event that ended it: what the operation returns or raises. *)
Raises(c, req) == (IsSetup(req) /\ call[c].op # "cancel") \/ (req = "read" /\ kind = "ctrader")
Result(c, req, event) ==
    CASE event = "denied" -> "permission"
      [] event = "server error" -> "unavailable"
      [] event \notin {"denied", "server error"} -> IF Raises(c, req) THEN "raised" ELSE "refused"

Waiter(m) == CHOOSE c \in Callers : m.id[1] = c

(* Mutant: an event is for whatever the caller waits for now. *)
AwaitedByAny(m) == call[Waiter(m)].at = "waiting"

Awaited(m) == call[Waiter(m)].at = "waiting" /\ call[Waiter(m)].id = m.id

(* _dispatch: an event nobody waits for is dropped; the operation goes on or ends. *)
Dispatch ==
    /\ outbox # <<>> /\ outbox' = Tail(outbox)
    /\ LET m == Head(outbox)
           c == Waiter(m)
           req == Head(call[c].todo)
           rest == Tail(call[c].todo)
       IN  IF ~Awaited(m) \/ ~Finishes(req, m.event)
           THEN UNCHANGED <<call, answers, lock>>
           ELSE IF ~Good(req, m.event)
           THEN Ends(c, Result(c, req, m.event)) /\ Unlock(c)
           ELSE IF rest = <<>>
           THEN Ends(c, "ok") /\ UNCHANGED lock
           ELSE /\ call' = [call EXCEPT ![c].at = "sending", ![c].todo = rest]
                /\ IF req = "symbols" THEN Unlock(c) ELSE UNCHANGED lock
                /\ UNCHANGED answers
    /\ UNCHANGED <<kind, t, alive, opened, auth, fatal, sent, inbox, done, partly, faults>>

(* close: the position is not among those read. *)
NoSuchPosition(c) ==
    /\ call[c].at = "sending" /\ call[c].op = "close" /\ Len(call[c].todo) = 1
    /\ sent[c] > 0
    /\ call' = [call EXCEPT ![c] = Resting]
    /\ answers' = answers \union {[id |-> <<c, 0>>, out |-> "refused"]}
    /\ UNCHANGED <<kind, sessionVars, sent, wireVars, faults>>

(* No answer in timeout_s; the session stays as it is. *)
TimesOut(c) ==
    /\ call[c].at = "waiting" /\ Fault
    /\ Ends(c, "unavailable") /\ Unlock(c)
    /\ UNCHANGED <<kind, t, alive, opened, auth, fatal, sent, wireVars>>

(* Everyone who waits on the session fails. *)
AllFail(out) ==
    LET waiting == {c \in Callers : call[c].at = "waiting"}
    IN  /\ call' = [c \in Callers |-> IF c \in waiting THEN Resting ELSE call[c]]
        /\ answers' = answers \union {[id |-> call[c].id, out |-> out] : c \in waiting}
        /\ lock' = IF lock \in waiting THEN NoCaller ELSE lock

(* The connection drops: events on their way are lost, _reader fails the waiters. *)
Drops ==
    /\ kind = "ctrader" /\ alive # 0 /\ Fault
    /\ alive' = 0 /\ outbox' = <<>>
    /\ UNCHANGED <<kind, t, opened, auth, fatal, lock, call, sent, inbox, done, partly, answers>>
ReaderFails ==
    /\ kind = "ctrader" /\ t # 0 /\ t # alive /\ fatal = "none"
    /\ fatal' = "unavailable"
    /\ AllFail("unavailable")
    /\ UNCHANGED <<kind, t, alive, opened, auth, sent, wireVars, faults>>

(* The broker invalidates the token; the session is not used again. *)
Invalidated ==
    /\ kind = "ctrader" /\ t # 0 /\ t = alive /\ Fault
    /\ fatal' = "permission"
    /\ AllFail("permission")
    /\ UNCHANGED <<kind, t, alive, opened, auth, sent, wireVars>>

Next ==
    \/ \E c \in Callers : Begin(c) \/ Connect(c) \/ Send(c) \/ NoSuchPosition(c) \/ TimesOut(c)
    \/ Serve \/ Dispatch
    \/ Drops \/ ReaderFails \/ Invalidated

Spec == Init /\ [][Next]_vars

-----------------------------------------------------------------------------
(* The session, its lock and the calls under way. *)
SessionTypeOK ==
    /\ kind \in Kinds /\ t \in 0..opened /\ alive \in 0..opened
    /\ fatal \in {"none", "unavailable", "permission"}
    /\ lock \in Callers \union {NoCaller}
    /\ \A c \in Callers : call[c].at \in {"idle", "connecting", "sending", "waiting"}

(* What the order manager relies on (adapter.py): an operation that reports success was applied, and
   one that reports a refusal was not and will not be, whatever was dropped, late or answered to
   another caller meanwhile; only a market order that the broker filled in part may be reported refused. *)
AnswersAreTrue ==
    \A a \in answers :
        /\ a.out = "ok" => a.id \in done
        /\ a.out = "refused" => a.id \notin done
=============================================================================
