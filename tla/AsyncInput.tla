----------------------------- MODULE AsyncInput -----------------------------
(***************************************************************************)
(* SingleProducerAsyncInput of packages/effect/src/internal/channel, by which *)
(* a channel that runs in a fiber of its own feeds the consumers of another,  *)
(* and that producer, the drainer of channelExecutor.ts: it awaits a reader,   *)
(* runs the upstream and gives on what that emits, until it is done.          *)
(***************************************************************************)
EXTENDS Integers, Sequences, FiniteSets, SequencesExt

CONSTANTS Consumer, MaxElements     \* bound: elements the upstream emits

VARIABLES
  tag,          \* of the state: "empty", "emit", "error" or "done"
  consumers,    \* notifyConsumers, while it is "emit"
  round,        \* which notifyProducer an "empty" state has
  notified,     \* the notifyProducers that are done
  given,        \* the Deferred of each consumer's last take
  pc, owes,     \* step of a consumer, and which notifyProducer it has to complete
  seen,         \* the elements that a consumer has had
  producer,     \* step of the drainer
  listens,      \* which notifyProducer it awaits
  hands,        \* the consumers it has to tell, and with what
  emitted,      \* how many elements the upstream emitted
  cut           \* history: a consumer was interrupted while it owed

state == <<tag, consumers, round>>
vars == <<state, notified, given, pc, owes, seen, producer, listens, hands, emitted, cut>>

Element == 1..MaxElements
Signal == {"error", "done"}

TypeOK ==
  /\ tag \in {"empty", "emit"} \cup Signal
  /\ consumers \in Seq(Consumer)
  /\ round \in 0..MaxElements /\ notified \subseteq 0..round
  /\ given \in [Consumer -> {"pending"} \X {0} \cup {"element"} \X Element \cup Signal \X {0}]
  /\ pc \in [Consumer -> {"idle", "notifies", "waits", "over", "stopped"}]
  /\ owes \in [Consumer -> 0..round]
  /\ seen \in [Consumer -> Seq(Element)]
  /\ producer \in {"awaits", "listens", "drops", "quits", "runs", "hands", "over", "interrupted"}
  /\ listens \in 0..round /\ emitted \in 0..MaxElements
  /\ cut \in BOOLEAN

Pending == <<"pending", 0>>

Init ==
  /\ tag = "empty" /\ consumers = <<>> /\ round = 0 /\ notified = {}
  /\ given = [c \in Consumer |-> Pending]
  /\ pc = [c \in Consumer |-> "idle"] /\ owes = [c \in Consumer |-> 0]
  /\ seen = [c \in Consumer |-> <<>>]
  /\ producer = "awaits" /\ listens = 0 /\ hands = <<>>
  /\ emitted = 0 /\ cut = FALSE

-----------------------------------------------------------------------------
(* takeWith, again and again.                                               *)

Goto(c, step) == pc' = [pc EXCEPT ![c] = step]

Take(c) ==
  /\ pc[c] = "idle"
  /\ given' = [given EXCEPT ![c] = Pending]
  /\ CASE tag = "empty" -> /\ tag' = "emit" /\ consumers' = <<c>>
                           /\ owes' = [owes EXCEPT ![c] = round]
                           /\ Goto(c, "notifies")
       [] tag = "emit"  -> /\ consumers' = Append(consumers, c)
                           /\ Goto(c, "waits")
                           /\ UNCHANGED <<tag, owes>>
       [] OTHER         -> Goto(c, "over") /\ UNCHANGED <<tag, consumers, owes>>
  /\ UNCHANGED <<round, notified, seen, producer, listens, hands, emitted, cut>>

Notify(c) ==
  /\ pc[c] = "notifies"
  /\ notified' = notified \cup {owes[c]}
  /\ Goto(c, "waits")
  /\ UNCHANGED <<state, given, owes, seen, producer, listens, hands, emitted, cut>>

Receive(c) ==
  /\ pc[c] = "waits" /\ given[c] # Pending
  /\ IF given[c][1] = "element"
       THEN seen' = [seen EXCEPT ![c] = Append(@, given[c][2])] /\ Goto(c, "idle")
       ELSE Goto(c, "over") /\ UNCHANGED seen
  /\ UNCHANGED <<state, notified, given, owes, producer, listens, hands, emitted, cut>>

(* Its Deferred remains where it is.                                         *)
Interrupt(c) ==
  /\ pc[c] \in {"idle", "notifies", "waits"}
  /\ Goto(c, "stopped")
  /\ cut' = (cut \/ pc[c] = "notifies")
  /\ UNCHANGED <<state, notified, given, owes, seen, producer, listens, hands, emitted>>

-----------------------------------------------------------------------------
(* The drainer.                                                             *)

AwaitRead ==
  /\ producer = "awaits"
  /\ IF tag = "empty" THEN producer' = "listens" /\ listens' = round
                      ELSE producer' = "runs" /\ UNCHANGED listens
  /\ UNCHANGED <<state, notified, given, pc, owes, seen, hands, emitted, cut>>

(* After awaitRead the upstream runs; an emit, done or error that found the    *)
(* state "empty" ends there.                                                *)
AndThen == [listens |-> "runs", drops |-> "awaits", quits |-> "over"]
Listened ==
  /\ producer \in DOMAIN AndThen /\ listens \in notified
  /\ producer' = AndThen[producer]
  /\ UNCHANGED <<state, notified, given, pc, owes, seen, listens, hands, emitted, cut>>

(* The upstream reads, or runs an effect, and the drainer starts again.        *)
Pull ==
  /\ producer = "runs"
  /\ producer' = "awaits"
  /\ UNCHANGED <<state, notified, given, pc, owes, seen, listens, hands, emitted, cut>>

(* Seeded bug: whoever else waits is forgotten.                              *)
NoneLeft == TRUE

WasTheLast == Len(consumers) = 1

(* emit, to the consumer that waits longest; in an "empty" state it would only *)
(* wait for a reader, and lose the element.                                  *)
Emit ==
  /\ producer = "runs" /\ emitted < MaxElements
  /\ emitted' = emitted + 1
  /\ CASE tag = "emit" ->
            /\ producer' = "hands"
            /\ hands' = << <<Head(consumers), <<"element", emitted + 1>> >> >>
            /\ IF WasTheLast THEN tag' = "empty" /\ consumers' = <<>> /\ round' = round + 1
                             ELSE consumers' = Tail(consumers) /\ UNCHANGED <<tag, round>>
            /\ UNCHANGED listens
       [] tag = "empty" -> producer' = "drops" /\ listens' = round /\ UNCHANGED <<state, hands>>
       [] OTHER -> producer' = "interrupted" /\ UNCHANGED <<state, listens, hands>>
  /\ UNCHANGED <<notified, given, pc, owes, seen, cut>>

(* done and error, which everybody is told, now or when they take.            *)
End(signal) ==
  /\ producer = "runs"
  /\ CASE tag = "emit" ->
            /\ producer' = "hands"
            /\ hands' = [i \in DOMAIN consumers |-> <<consumers[i], <<signal, 0>> >>]
            /\ tag' = signal /\ consumers' = <<>>
            /\ UNCHANGED <<round, listens>>
       [] tag = "empty" -> producer' = "quits" /\ listens' = round /\ UNCHANGED <<state, hands>>
       [] OTHER -> producer' = "interrupted" /\ UNCHANGED <<state, listens, hands>>
  /\ UNCHANGED <<notified, given, pc, owes, seen, emitted, cut>>

(* Deferred.succeed or failCause, of one consumer after the other.             *)
Hand ==
  /\ producer = "hands" /\ hands # <<>>
  /\ LET to == hands[1][1] IN
       given' = IF given[to] = Pending THEN [given EXCEPT ![to] = hands[1][2]] ELSE given
  /\ hands' = Tail(hands)
  /\ producer' = IF Len(hands) > 1 THEN "hands"
                 ELSE IF tag \in Signal THEN "over" ELSE "awaits"
  /\ UNCHANGED <<state, notified, pc, owes, seen, listens, emitted, cut>>

-----------------------------------------------------------------------------
ProducerStep == AwaitRead \/ Listened \/ Pull \/ Emit \/ (\E s \in Signal : End(s)) \/ Hand
ConsumerStep(c) == Take(c) \/ Notify(c) \/ Receive(c)
Next == ProducerStep \/ \E c \in Consumer : ConsumerStep(c) \/ Interrupt(c)

Spec == Init /\ [][Next]_vars

(* Fibers go on, and an upstream ends: it does not read for ever.             *)
Ends == \E s \in Signal : End(s)
FairSpec ==
  /\ Spec /\ WF_vars(ProducerStep) /\ SF_vars(Ends)
  /\ \A c \in Consumer : WF_vars(ConsumerStep(c))

-----------------------------------------------------------------------------
(* "At most one consumer sees every emitted element", and each sees them in    *)
(* order; an element is lost only with the consumer that it was for.          *)
SeenOnce ==
  /\ \A c, d \in Consumer : c # d => ToSet(seen[c]) \cap ToSet(seen[d]) = {}
  /\ \A c \in Consumer : \A i, j \in DOMAIN seen[c] : i < j => seen[c][i] < seen[c][j]
  /\ \A e \in 1..emitted :
       \/ \E c \in Consumer : e \in ToSet(seen[c]) \/ given[c] = <<"element", e>>
       \/ \E i \in DOMAIN hands : hands[i][2] = <<"element", e>>

(* A drainer that runs has somebody to give to, so that what the upstream      *)
(* emits or how it ends is not dropped by a state that is "empty", and whoever *)
(* waits is known to the state or to the drainer.                            *)
ReaderFirst ==
  /\ producer = "runs" => tag = "emit" /\ consumers # <<>>
  /\ \A c \in Consumer : pc[c] \in {"notifies", "waits"} /\ given[c] = Pending =>
       c \in ToSet(consumers) \/ \E i \in DOMAIN hands : hands[i][1] = c

FedInOrder == SeenOnce /\ ReaderFirst

(* Every consumer is fed until it is told the end, unless one was interrupted *)
(* between asking for an element and telling the producer.                   *)
Fed == cut \/ \A c \in Consumer : pc[c] \in {"over", "stopped"}
EverybodyFed == <>Fed
=============================================================================
