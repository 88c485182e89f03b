------------------------------- MODULE Handoff -------------------------------
(***************************************************************************)
(* The handoff of packages/effect/src/internal/stream/handoff.ts, by which a  *)
(* producer of a stream gives one value at a time to a consumer: a Ref, and a *)
(* Deferred for whoever has to wait until it changes.                        *)
(***************************************************************************)
EXTENDS Integers, FiniteSets

CONSTANTS
  Client, Jobs,   \* who they are, and what each of them may do: functions to
                  \* "offer", "take" and "poll"
  Nobody

VARIABLES
  job,
  ref,            \* whose value the handoff is full of, or Nobody
  turn,           \* how often it was emptied: which notifyConsumer it has
  announced,      \* the notifyConsumers that are done
  accepted,       \* the offers whose Deferred is done: notifyProducer
  pc,
  awaits,         \* the Deferred a client waits for: <<"turn", n>> or <<"offer", c>>;
                  \* of an offer that notifies, the one that it completes
  got,            \* whose value a client took, or Nobody
  cut             \* history: clients interrupted while they owed a notification

state == <<ref, turn>>
deferreds == <<announced, accepted>>
vars == <<job, state, deferreds, pc, awaits, got, cut>>

Nothing == <<"nothing", Nobody>>

TypeOK ==
  /\ job \in Jobs
  /\ ref \in Client \cup {Nobody} /\ turn \in 0..Cardinality(Client)
  /\ announced \subseteq 0..turn /\ accepted \subseteq Client
  /\ pc \in [Client -> {"begins", "notifies", "waits", "ended", "empty", "stopped"}]
  /\ awaits \in [Client -> {Nothing} \cup {<<"offer", c>> : c \in Client}
                             \cup {<<"turn", n>> : n \in 0..turn}]
  /\ got \in [Client -> Client \cup {Nobody}]
  /\ cut \subseteq Client

Init ==
  /\ job \in Jobs
  /\ ref = Nobody /\ turn = 0
  /\ announced = {} /\ accepted = {}
  /\ pc = [c \in Client |-> "begins"]
  /\ awaits = [c \in Client |-> Nothing]
  /\ got = [c \in Client |-> Nobody]
  /\ cut = {}

Goto(c, step) == pc' = [pc EXCEPT ![c] = step]
WaitFor(c, deferred) == Goto(c, "waits") /\ awaits' = [awaits EXCEPT ![c] = deferred]

-----------------------------------------------------------------------------
(* Ref.modify, and the effect it returns in the next steps.                  *)

(* The consumers are told that there is a value, then the offer waits for its  *)
(* own Deferred; or it waits for that of the value before it, and tries again. *)
Offer(c) ==
  /\ pc[c] = "begins" /\ job[c] = "offer"
  /\ IF ref = Nobody
       THEN /\ ref' = c /\ Goto(c, "notifies")
            /\ awaits' = [awaits EXCEPT ![c] = <<"turn", turn>>]
       ELSE WaitFor(c, <<"offer", ref>>) /\ UNCHANGED ref
  /\ UNCHANGED <<job, turn, deferreds, got, cut>>

Announce(c) ==
  /\ pc[c] = "notifies" /\ job[c] = "offer"
  /\ announced' = announced \cup {awaits[c][2]}
  /\ WaitFor(c, <<"offer", c>>)
  /\ UNCHANGED <<job, state, accepted, got, cut>>

Take(c) ==
  /\ pc[c] = "begins" /\ job[c] \in {"take", "poll"}
  /\ IF ref # Nobody
       THEN /\ got' = [got EXCEPT ![c] = ref]
            /\ ref' = Nobody /\ turn' = turn + 1
            /\ Goto(c, "notifies")
            /\ UNCHANGED awaits
       ELSE /\ IF job[c] = "poll" THEN Goto(c, "empty") /\ UNCHANGED awaits
                                  ELSE WaitFor(c, <<"turn", turn>>)
            /\ UNCHANGED <<state, got>>
  /\ UNCHANGED <<job, deferreds, cut>>

Accept(c) ==
  /\ pc[c] = "notifies" /\ job[c] # "offer"
  /\ accepted' = accepted \cup {got[c]}
  /\ Goto(c, "ended")
  /\ UNCHANGED <<job, state, announced, awaits, got, cut>>

IsDone(deferred) ==
  IF deferred[1] = "turn" THEN deferred[2] \in announced ELSE deferred[2] \in accepted

(* Seeded bug: an offer that waited for another returns with that.           *)
Returns(c) == TRUE

IsMine(c) == awaits[c] = <<"offer", c>>

Resume(c) ==
  /\ pc[c] = "waits" /\ IsDone(awaits[c])
  /\ Goto(c, IF job[c] = "offer" /\ IsMine(c) THEN "ended" ELSE "begins")
  /\ UNCHANGED <<job, state, deferreds, awaits, got, cut>>

(* A client is interrupted between two operations or while it waits.           *)
Interrupt(c) ==
  /\ pc[c] \in {"begins", "notifies", "waits"}
  /\ Goto(c, "stopped")
  /\ cut' = IF pc[c] = "notifies" THEN cut \cup {c} ELSE cut
  /\ UNCHANGED <<job, state, deferreds, awaits, got>>

-----------------------------------------------------------------------------
Step(c) == Offer(c) \/ Announce(c) \/ Take(c) \/ Accept(c) \/ Resume(c)
Next == \E c \in Client : Step(c) \/ Interrupt(c)

Spec == Init /\ [][Next]_vars

-----------------------------------------------------------------------------
(* A value goes to one consumer, and an offer returns when one has it.         *)
GivenOnce ==
  /\ \A c, d \in Client : got[c] = got[d] /\ got[c] # Nobody => c = d
  /\ \A c \in Client : job[c] = "offer" /\ pc[c] = "ended" => \E d \in Client : got[d] = c

(* Nobody waits for a state that is over, unless somebody is about to tell     *)
(* them: a take for a value while there is one, or was; an offer for the end   *)
(* of a value that is gone.  Except when who had to tell them was interrupted. *)
NobodyMissedIt ==
  \A c \in Client : pc[c] = "waits" /\ ~IsDone(awaits[c]) =>
    \/ cut # {}
    \/ awaits[c] = <<"turn", turn>> /\ ref = Nobody
    \/ awaits[c] = <<"offer", ref>>
    \/ \E d \in Client : pc[d] = "notifies" /\ awaits[c] \in {awaits[d], <<"offer", got[d]>>}

HandedOver == GivenOnce /\ NobodyMissedIt
=============================================================================
