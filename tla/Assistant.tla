------------------------------- MODULE Assistant -------------------------------
(***************************************************************************)
(* A session of the strategy assistant (ai/builder.py) behind the API      *)
(* (api/app.py): the owner posts, Claude answers in the background in      *)
(* rounds of drafts and checks, and the owner saves a draft that passed.   *)
(*                                                                         *)
(* Post and reply run on the event loop, save in a thread of the server's  *)
(* pool; each reads the session's file and writes it back as a whole.      *)
(***************************************************************************)
EXTENDS Integers, Sequences, FiniteSets

CONSTANTS Rounds,       \* MAX_ROUNDS
          MaxCalls,     \* max_calls_per_day
          MaxPosts, MaxSaves, MaxRestarts      \* bounds

VARIABLES disk,         \* the session's file
          reply,        \* the reply in flight and its copy of the session
          calls,        \* calls of today, in memory
          saving,       \* the save in flight, its copy of the session, and the version it writes
          kept,         \* the owner's strategy and, by version, its history: the drafts they hold
          known,        \* the versions that a start has registered, and their drafts
          count,        \* how many posts, drafts, saves and restarts there were
          crossed,      \* history: a write has undone what another had written meanwhile
          resaved       \* history: the versions given to a second save before a restart

vars == <<disk, reply, calls, saving, kept, known, count, crossed, resaved>>

Session(api, draft, saved) == [api |-> api, draft |-> draft, saved |-> saved]
NoDraft == [n |-> 0, ok |-> FALSE]
Nothing == [version |-> 0, n |-> 0]
VersionNumbers == 0..(MaxSaves + 1)
Resting == [at |-> "idle", s |-> Session(<<>>, NoDraft, {}), from |-> Session(<<>>, NoDraft, {}), left |-> 0]
NoSave == [at |-> "idle", s |-> Session(<<>>, NoDraft, {}), version |-> 0]

Init ==
    /\ disk = Session(<<>>, NoDraft, {})
    /\ reply = Resting /\ calls = 0 /\ saving = NoSave
    /\ kept = [dest |-> Nothing, archive |-> [v \in VersionNumbers |-> 0]]
    /\ known = [v \in VersionNumbers |-> 0]
    /\ count = [posts |-> 0, drafts |-> 0, saves |-> 0, restarts |-> 0]
    /\ crossed = FALSE /\ resaved = {}

-----------------------------------------------------------------------------
(* The turns sent to Claude: "owner" and "results" are the user's, "text" and "uses" the assistant's. *)
User == {"owner", "results"}

(* After check results or a call that failed the owner's words join the user's last turn. *)
WithMessage(api) ==
    IF api # <<>> /\ api[Len(api)] \in User THEN api ELSE Append(api, "owner")

Posts ==
    /\ count.posts < MaxPosts /\ reply.at = "idle"      \* busy: one reply at a time
    /\ disk' = [disk EXCEPT !.api = WithMessage(@)]
    /\ reply' = [Resting EXCEPT !.at = "posted"]
    /\ count' = [count EXCEPT !.posts = @ + 1]
    /\ UNCHANGED <<calls, saving, kept, known, crossed, resaved>>

Loads ==
    /\ reply.at = "posted"
    /\ reply' = [at |-> "round", s |-> disk, from |-> disk, left |-> Rounds]
    /\ UNCHANGED <<disk, calls, saving, kept, known, count, crossed, resaved>>

(* _store, and the end of the reply. *)
Stores(s) ==
    /\ disk' = s /\ reply' = Resting
    /\ crossed' = (crossed \/ disk # reply.from)

Round ==
    /\ reply.at = "round"
    /\ IF reply.left = 0 \/ calls = MaxCalls
       THEN Stores(reply.s) /\ UNCHANGED calls
       ELSE /\ calls' = calls + 1
            /\ reply' = [reply EXCEPT !.at = "asked", !.left = @ - 1]
            /\ UNCHANGED <<disk, crossed>>
    /\ UNCHANGED <<saving, kept, known, count, resaved>>

(* The call fails, and nothing of this reply is stored. *)
Fails ==
    /\ reply.at = "asked" /\ reply' = Resting
    /\ UNCHANGED <<disk, calls, saving, kept, known, count, crossed, resaved>>

Explains ==
    /\ reply.at = "asked"
    /\ Stores([reply.s EXCEPT !.api = Append(@, "text")])
    /\ UNCHANGED <<calls, saving, kept, known, count, resaved>>

(* _check for each draft of the answer, all of them before the next round; the last one is kept. *)
Proposes ==
    /\ reply.at = "asked"
    /\ \E n \in 1..2, ok \in BOOLEAN :
          /\ reply' = [reply EXCEPT !.at = "round", !.s.draft = [n |-> count.drafts + n, ok |-> ok],
                                    !.s.api = @ \o <<"uses", "results">>]
          /\ count' = [count EXCEPT !.drafts = @ + n]
    /\ UNCHANGED <<disk, calls, saving, kept, known, crossed, resaved>>

-----------------------------------------------------------------------------
(* next_version over the versions that the registry knows. *)
NextVersion ==
    LET taken == {v \in VersionNumbers : known[v] # 0}
    IN  IF taken = {} THEN 1 ELSE 1 + CHOOSE v \in taken : \A w \in taken : w <= v

SaveBegins ==
    /\ count.saves < MaxSaves /\ saving.at = "idle" /\ disk.draft.ok
    /\ count' = [count EXCEPT !.saves = @ + 1]
    /\ saving' = [at |-> "read", s |-> disk, version |-> NextVersion]
    /\ resaved' = IF kept.dest.version = NextVersion THEN resaved \union {NextVersion} ELSE resaved
    /\ UNCHANGED <<disk, reply, calls, kept, known, crossed>>

(* What is there goes to the history, unless a version of that name is in it, and is then removed. *)
Archives ==
    /\ saving.at = "read" /\ saving' = [saving EXCEPT !.at = "archived"]
    /\ kept' = LET old == kept.dest
               IN  [dest |-> Nothing,
                    archive |-> IF old # Nothing /\ kept.archive[old.version] = 0
                                THEN [kept.archive EXCEPT ![old.version] = old.n] ELSE kept.archive]
    /\ UNCHANGED <<disk, reply, calls, known, count, crossed, resaved>>

Writes ==
    /\ saving.at = "archived" /\ saving' = [saving EXCEPT !.at = "written"]
    /\ kept' = [kept EXCEPT !.dest = [version |-> saving.version, n |-> saving.s.draft.n]]
    /\ UNCHANGED <<disk, reply, calls, known, count, crossed, resaved>>

Records ==
    /\ saving.at = "written" /\ saving' = NoSave
    /\ disk' = [saving.s EXCEPT !.saved = @ \union {saving.version}]
    /\ crossed' = (crossed \/ disk # saving.s)
    /\ UNCHANGED <<reply, calls, kept, known, count, resaved>>

(* A crash or a restart: what is in memory is gone, and what is saved becomes a known version. *)
Restart ==
    /\ count.restarts < MaxRestarts
    /\ count' = [count EXCEPT !.restarts = @ + 1]
    /\ reply' = Resting /\ saving' = NoSave /\ calls' = 0
    /\ crossed' = (crossed \/ saving.at # "idle")
    /\ known' = LET d == kept.dest IN IF d = Nothing \/ known[d.version] # 0 THEN known ELSE [known EXCEPT ![d.version] = d.n]
    /\ UNCHANGED <<disk, kept, resaved>>

Next ==
    \/ Posts \/ Loads \/ Round \/ Fails \/ Explains \/ Proposes
    \/ SaveBegins \/ Archives \/ Writes \/ Records \/ Restart

Spec == Init /\ [][Next]_vars

-----------------------------------------------------------------------------
(* The session, the reply and the save have their types. *)
AssistantTypeOK ==
    /\ \A i \in DOMAIN disk.api : disk.api[i] \in User \union {"text", "uses"}
    /\ disk.saved \subseteq VersionNumbers /\ calls \in 0..MaxCalls
    /\ reply.at \in {"idle", "posted", "round", "asked"} /\ reply.left \in 0..Rounds
    /\ saving.at \in {"idle", "read", "archived", "written"} /\ saving.version \in VersionNumbers

(* What is sent to Claude ends with the user, alternates, and answers every draft, whichever calls
   failed before; a save that crosses a reply may break it. *)
TurnsAlternate ==
    reply.at = "asked" /\ ~crossed =>
        LET api == reply.s.api
        IN  /\ api[Len(api)] \in User
            /\ \A i \in 1..(Len(api) - 1) : /\ api[i] \in User <=> api[i + 1] \notin User
                                            /\ api[i] = "uses" => api[i + 1] = "results"

(* A version that a start has registered can still be read, from the strategy or its history, as it
   was registered, and the session names what it saved; except for versions that were saved twice
   before a restart, and for writes that crossed. *)
VersionsKept ==
    saving.at # "archived" =>
        \A v \in VersionNumbers \ {0} :
            /\ known[v] # 0 /\ v \notin resaved =>
                  kept.archive[v] = known[v] \/ kept.dest = [version |-> v, n |-> known[v]]
            /\ kept.dest.version = v /\ saving.at = "idle" /\ ~crossed => v \in disk.saved

AssistantKeepsItsWord == TurnsAlternate /\ VersionsKept
=============================================================================
