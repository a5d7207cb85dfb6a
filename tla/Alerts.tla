-------------------------------- MODULE Alerts --------------------------------
(***************************************************************************)
(* The monitor's alert router (monitor/alerts.py).  A tick of the          *)
(* scheduler awaits the chat, then every delivery; between two awaits the  *)
(* monitor's handlers send new alerts and the API acknowledges others.     *)
(*                                                                         *)
(* A step is what runs from one await to the next.  Time is left out but   *)
(* for the ten minutes after which a critical alert is due again.          *)
(***************************************************************************)
EXTENDS Integers, Sequences, FiniteSets, SequencesExt

CONSTANT MaxAlerts      \* bound: alerts sent

VARIABLES sent,         \* _n: alerts are numbered 1, 2, ...
          active,       \* critical alert, not acknowledged -> "never", "recent" or "old": when it was last sent
          outbox,       \* the other alerts, not delivered
          tick,         \* where the tick is: its phase, what is left of the criticals, the outbox's index, keep
          chat,         \* the owner's /ack messages that were not read yet
          told, acked   \* history: the alerts delivered, and those acknowledged

vars == <<sent, active, outbox, tick, chat, told, acked>>

All == 0                \* "/ack" alone, and the API's "*"
Idle == [phase |-> "idle", due |-> <<>>, at |-> 0, keep |-> <<>>]

Init ==
    /\ sent = 0 /\ active = <<>> /\ outbox = <<>> /\ tick = Idle
    /\ chat = {} /\ told = {} /\ acked = {}

Ids == 1..sent
Only(f, S) == [a \in S |-> f[a]]

-----------------------------------------------------------------------------
(* Mutant: without the else, a critical alert is queued with the others too. *)
SendTwice(critical) ==
    /\ sent < MaxAlerts
    /\ sent' = sent + 1
    /\ active' = IF critical THEN [a \in DOMAIN active \union {sent'} |-> IF a = sent' THEN "never" ELSE active[a]]
                 ELSE active
    /\ outbox' = Append(outbox, sent')
    /\ UNCHANGED <<tick, chat, told, acked>>

(* Mutant: send makes a new list of the old one and the alert; a tick in its loop replaces it by keep. *)
SendRebinding(critical) ==
    /\ sent < MaxAlerts
    /\ sent' = sent + 1
    /\ IF critical
       THEN /\ active' = [a \in DOMAIN active \union {sent'} |-> IF a = sent' THEN "never" ELSE active[a]]
            /\ UNCHANGED outbox
       ELSE /\ outbox' = IF tick.phase = "outbox" THEN outbox ELSE Append(outbox, sent')
            /\ UNCHANGED active
    /\ UNCHANGED <<tick, chat, told, acked>>

(* AlertRouter.send: called by the monitor's handlers, and by the scheduler. *)
Send(critical) ==
    /\ sent < MaxAlerts
    /\ sent' = sent + 1
    /\ IF critical
       THEN /\ active' = [a \in DOMAIN active \union {sent'} |-> IF a = sent' THEN "never" ELSE active[a]]
            /\ UNCHANGED outbox
       ELSE /\ outbox' = Append(outbox, sent')
            /\ UNCHANGED active
    /\ UNCHANGED <<tick, chat, told, acked>>

Named(S) == IF All \in S THEN DOMAIN active ELSE S \cap DOMAIN active

(* ack, of the API. *)
Ack(a) ==
    /\ Named({a}) # {}
    /\ active' = Only(active, DOMAIN active \ Named({a}))
    /\ acked' = acked \union Named({a})
    /\ UNCHANGED <<sent, outbox, tick, chat, told>>

(* The owner answers in the chat. *)
Write(a) ==
    /\ a \in {All} \union told
    /\ chat' = chat \union {a}
    /\ UNCHANGED <<sent, active, outbox, tick, told, acked>>

(* Ten minutes after it was last sent. *)
Due(a) ==
    /\ a \in DOMAIN active /\ active[a] = "recent"
    /\ active' = [active EXCEPT ![a] = "old"]
    /\ UNCHANGED <<sent, outbox, tick, chat, told, acked>>

-----------------------------------------------------------------------------
(* The loop over self.outbox: an alert sent meanwhile is at its end. *)
Onward(t, box) ==
    IF t.due # <<>> THEN [tick |-> [t EXCEPT !.phase = "criticals"], outbox |-> box]
    ELSE IF t.at < Len(box) THEN [tick |-> [t EXCEPT !.phase = "outbox"], outbox |-> box]
    ELSE [tick |-> Idle, outbox |-> t.keep]

Resumes(t, box) == tick' = Onward(t, box).tick /\ outbox' = Onward(t, box).outbox

(* tick begins: it asks the chat. *)
Begin ==
    /\ tick.phase = "idle"
    /\ tick' = [Idle EXCEPT !.phase = "acks"]
    /\ UNCHANGED <<sent, active, outbox, chat, told, acked>>

(* The chat's answer, or none when it cannot be reached. *)
Acks(S) ==
    /\ tick.phase = "acks"
    /\ S \in {{}, chat}
    /\ chat' = chat \ S
    /\ active' = Only(active, DOMAIN active \ Named(S))
    /\ acked' = acked \union Named(S)
    /\ Resumes([tick EXCEPT !.due = SetToSortSeq({a \in DOMAIN active' : active'[a] # "recent"}, <)], outbox)
    /\ UNCHANGED <<sent, told>>

(* _deliver of a critical alert: it is sent even if it was acknowledged after the loop began. *)
Repeat(ok) ==
    /\ tick.phase = "criticals"
    /\ LET a == Head(tick.due) IN
       /\ told' = IF ok THEN told \union {a} ELSE told
       /\ active' = IF ok /\ a \in DOMAIN active THEN [active EXCEPT ![a] = "recent"] ELSE active
    /\ Resumes([tick EXCEPT !.due = Tail(@)], outbox)
    /\ UNCHANGED <<sent, chat, acked>>

(* _deliver of another alert: kept for the next tick when neither channel takes it. *)
Deliver(ok) ==
    /\ tick.phase = "outbox"
    /\ LET a == outbox[tick.at + 1] IN
       /\ told' = IF ok THEN told \union {a} ELSE told
       /\ Resumes([tick EXCEPT !.at = @ + 1, !.keep = IF ok THEN @ ELSE Append(@, a)], outbox)
    /\ UNCHANGED <<sent, active, chat, acked>>

Next ==
    \/ \E critical \in BOOLEAN : Send(critical)
    \/ \E a \in {All} \union Ids : Ack(a) \/ Write(a) \/ Due(a)
    \/ Begin
    \/ \E S \in {{}, chat} : Acks(S)
    \/ \E ok \in BOOLEAN : Repeat(ok) \/ Deliver(ok)

Spec == Init /\ [][Next]_vars

(* A delivery of this alert returns. *)
Reaches(a) ==
    \/ tick.phase = "criticals" /\ Head(tick.due) = a /\ Repeat(TRUE)
    \/ tick.phase = "outbox" /\ outbox[tick.at + 1] = a /\ Deliver(TRUE)

(* The scheduler ticks every minute, its awaits return, and of the deliveries of an
   alert that is tried again and again one succeeds. *)
Fairness ==
    /\ WF_vars(Begin) /\ WF_vars(\E S \in {{}, chat} : Acks(S))
    /\ WF_vars(\E ok \in BOOLEAN : Repeat(ok) \/ Deliver(ok))
    /\ \A a \in 1..MaxAlerts : SF_vars(Reaches(a))

FairSpec == Spec /\ Fairness

-----------------------------------------------------------------------------
(* The state's types: alerts are held once, in the outbox or among the active. *)
AlertsTypeOK ==
    /\ sent \in 0..MaxAlerts
    /\ DOMAIN active \subseteq Ids /\ \A a \in DOMAIN active : active[a] \in {"never", "recent", "old"}
    /\ outbox \in Seq(Ids) /\ DOMAIN active \cap Range(outbox) = {}
    /\ tick.phase \in {"idle", "acks", "criticals", "outbox"} /\ tick.at \in 0..Len(outbox)
    /\ tick.keep \in Seq(Ids) /\ Range(tick.due) \subseteq Ids
    /\ chat \subseteq {All} \union told /\ told \subseteq Ids /\ acked \subseteq Ids

(* Nobody was told of the alert, or a critical one is due again. *)
Waits(a) ==
    \/ a \in Ids /\ a \notin told \union acked
    \/ a \in DOMAIN active /\ active[a] = "old"

(* Every alert is delivered in the end or acknowledged before, whenever it was sent; and
   a critical one that is due again is repeated or acknowledged (alerts.py:1-6, tick,
   send and ack). *)
AlertsArrive == \A a \in 1..MaxAlerts : Waits(a) ~> ~Waits(a)
================================================================================
