----------------------------- MODULE SignalJournal -----------------------------
(***************************************************************************)
(* The trade journal (learning/journal.py): every signal, with the risk    *)
(* gate's verdict, and what became of it on the M1 bars that followed;     *)
(* the outcome of a shadow signal goes out as a shadow trade.              *)
(*                                                                         *)
(* A bar is what it touches of each signal's barriers.  Bar k closes at    *)
(* time k; a bar that closes while the process is down is never seen.      *)
(* Excursions and real trades' R are left out.                             *)
(***************************************************************************)
EXTENDS Integers, Sequences, FiniteSets, SequencesExt

CONSTANTS Signals,
          Shadow,               \* the signals of shadow versions
          Horizon,              \* bars after which a signal times out
          MaxBars, MaxCrashes   \* bounds

VARIABLES bars,          \* bars closed so far
          made,          \* signal -> the time it was made, -1 before
          signals,       \* SIGNALS: not acknowledged yet
          decisions,     \* INTENTS and DECISIONS, in that order: not acknowledged yet
          entries,       \* signal -> [status, label]
          open,          \* the entries without an outcome
          intents,       \* signals of known intents
          file,          \* journal.jsonl: the newest line of each signal
          out,           \* _out: shadow trades not published yet
          trades,        \* TRADES
          given,         \* history: signal -> the outcomes that the bars seen gave it
          crashes

vars == <<bars, made, signals, decisions, entries, open, intents, file, out, trades, given, crashes>>

Verdicts == {"approved", "resized", "rejected"}
None == "none"           \* no outcome yet
Labels == {"target", "stop", "time"}

Init ==
    /\ bars = 0 /\ made = [s \in Signals |-> -1]
    /\ signals = {} /\ decisions = {}
    /\ entries = <<>> /\ open = {} /\ intents = {} /\ file = <<>>
    /\ out = <<>> /\ trades = <<>> /\ given = [s \in Signals |-> {}] /\ crashes = 0

Set(f, s, e) == [x \in DOMAIN f \union {s} |-> IF x = s THEN e ELSE f[x]]

(* _save: in memory, then a line of the file. *)
Save(s, e) ==
    /\ entries' = Set(entries, s, e)
    /\ open' = IF e.label = None THEN open \union {s} ELSE open \ {s}
    /\ file' = Set(file, s, e)

-----------------------------------------------------------------------------
(* An engine publishes a signal; the allocator and the gate answer those of money versions. *)
Emit(s) ==
    /\ made[s] = -1
    /\ made' = [made EXCEPT ![s] = bars]
    /\ signals' = signals \union {s}
    /\ \E v \in Verdicts :
           decisions' = IF s \in Shadow THEN decisions
                        ELSE decisions \union {[type |-> "intent", signal |-> s, verdict |-> v],
                                               [type |-> "decision", signal |-> s, verdict |-> v]}
    /\ UNCHANGED <<bars, entries, open, intents, file, out, trades, given, crashes>>

(* A handler ran; the message comes again when the process ends before it is acknowledged. *)
Acknowledged(S, m) == S \ {m}

(* _on_signal: a signal it knows is ignored. *)
OnSignal(s) ==
    /\ s \in signals
    /\ IF s \in DOMAIN entries THEN UNCHANGED <<entries, open, file>>
       ELSE Save(s, [status |-> "signalled", label |-> None])
    /\ \E acks \in BOOLEAN : signals' = IF acks THEN Acknowledged(signals, s) ELSE signals
    /\ UNCHANGED <<bars, made, decisions, intents, out, trades, given, crashes>>

(* _on_intent: kept in memory only. *)
OnIntent(m) ==
    /\ m \in decisions /\ m.type = "intent"
    /\ intents' = intents \union {m.signal}
    /\ decisions' = Acknowledged(decisions, m)
    /\ UNCHANGED <<bars, made, signals, entries, open, file, out, trades, given, crashes>>

(* _on_decision: of an intent and a signal it knows. *)
OnDecision(m) ==
    /\ m \in decisions /\ m.type = "decision"
    /\ IF m.signal \in intents \cap DOMAIN entries
       THEN Save(m.signal, [entries[m.signal] EXCEPT !.status = m.verdict])
       ELSE UNCHANGED <<entries, open, file>>
    /\ decisions' = Acknowledged(decisions, m)
    /\ UNCHANGED <<bars, made, signals, intents, out, trades, given, crashes>>

(* follow: the stop first, also when the bar touches both. *)
Label(s, k, touch) ==
    IF touch \in {"stop", "both"} THEN "stop"
    ELSE IF touch = "target" THEN "target"
    ELSE IF k - made[s] >= Horizon THEN "time"
    ELSE None

(* A bar that opened before the signal says nothing of it. *)
Follows(s, k) == k - 1 >= made[s]

(* The open signals that this bar decides. *)
Decided(bar) == {s \in open : Follows(s, bar.k) /\ Label(s, bar.k, bar.touch[s]) # None}
Resolved(s, bar) == [entries[s] EXCEPT !.label = Label(s, bar.k, bar.touch[s])]

(* What the bar would say of a signal, followed or not. *)
Told(s, bar) ==
    IF made[s] >= 0 /\ Follows(s, bar.k) THEN {Label(s, bar.k, bar.touch[s])} \ {None} ELSE {}

(* Mutant: the outcome is kept in memory, and written with the entry's next change. *)
OnBarUnsaved(bar) ==
    LET done == Decided(bar) IN
    /\ entries' = [s \in DOMAIN entries |-> IF s \in done THEN Resolved(s, bar) ELSE entries[s]]
    /\ open' = open \ done
    /\ UNCHANGED file
    /\ out' = out \o SetToSeq(done \cap Shadow)
    /\ given' = [s \in Signals |-> given[s] \union Told(s, bar)]

(* on_bars, of one M1 bar. *)
OnBar(bar) ==
    LET done == Decided(bar) IN
    /\ entries' = [s \in DOMAIN entries |-> IF s \in done THEN Resolved(s, bar) ELSE entries[s]]
    /\ open' = open \ done
    /\ file' = [s \in DOMAIN file |-> IF s \in done THEN Resolved(s, bar) ELSE file[s]]
    /\ out' = out \o SetToSeq(done \cap Shadow)
    /\ given' = [s \in Signals |-> given[s] \union Told(s, bar)]

Touches == {"none", "stop", "target", "both"}

(* A bar closes: on_quote or on_time, up to the first publish. *)
Bar(touch) ==
    /\ bars < MaxBars /\ out = <<>>
    /\ bars' = bars + 1
    /\ OnBar([k |-> bars', touch |-> touch])
    /\ UNCHANGED <<made, signals, decisions, intents, trades, crashes>>

(* flush: one shadow trade; the handlers of other messages wait for it. *)
Flush ==
    /\ out # <<>>
    /\ trades' = Append(trades, [signal |-> Head(out), label |-> entries[Head(out)].label])
    /\ out' = Tail(out)
    /\ UNCHANGED <<bars, made, signals, decisions, entries, open, intents, file, given, crashes>>

(* The process ends and starts again (_load), maybe a bar later. *)
Crash(later) ==
    /\ crashes < MaxCrashes /\ bars + later <= MaxBars
    /\ crashes' = crashes + 1 /\ bars' = bars + later
    /\ entries' = file
    /\ open' = {s \in DOMAIN file : file[s].label = None}
    /\ intents' = {} /\ out' = <<>>
    /\ UNCHANGED <<made, signals, decisions, file, trades, given>>

Next ==
    \/ \E s \in Signals : Emit(s) \/ (out = <<>> /\ OnSignal(s))
    \/ \E m \in decisions : out = <<>> /\ (OnIntent(m) \/ OnDecision(m))
    \/ \E touch \in [Signals -> Touches] : Bar(touch)
    \/ Flush
    \/ \E later \in 0..1 : Crash(later)

Spec == Init /\ [][Next]_vars

-----------------------------------------------------------------------------
(* The entries are those of the file, the open ones have no outcome. *)
JournalTypeOK ==
    /\ bars \in 0..MaxBars /\ crashes \in 0..MaxCrashes
    /\ \A s \in DOMAIN entries : /\ entries[s].status \in Verdicts \union {"signalled"}
                                 /\ entries[s].label \in Labels \union {None} /\ made[s] >= 0
    /\ open \subseteq DOMAIN entries /\ intents \subseteq Signals \ Shadow
    /\ Range(out) \subseteq Shadow

(* What learning and the lifecycle are told of a signal stands, over crashes and second
   deliveries: a shadow signal becomes one shadow trade at most, with the outcome that is
   on disk; an outcome is that of a bar from after the signal, and it is on disk as long
   as it is known (journal.py:150-176, 228-246, 263-281). *)
JournalStands ==
    /\ \A i, j \in DOMAIN trades : trades[i].signal = trades[j].signal => i = j
    /\ \A i \in DOMAIN trades : trades[i].signal \in Shadow /\ file[trades[i].signal].label = trades[i].label
    /\ \A s \in DOMAIN entries : entries[s] = file[s]
    /\ \A s \in DOMAIN entries : entries[s].label # None => entries[s].label \in given[s]
================================================================================
