------------------------------- MODULE Cache -------------------------------
(***************************************************************************)
(* The Cache of packages/effect/src/internal/cache.ts: values by key, looked *)
(* up by the first fiber that asks for one and awaited by the others, with a *)
(* capacity, a time to live, refresh and invalidation.                      *)
(*                                                                         *)
(* A client is a fiber that performs one operation on one key.  It stands    *)
(* for the Deferred of its lookup, and for the value that it looks up or     *)
(* sets.  Time is whatever makes an entry expire.                           *)
(***************************************************************************)
EXTENDS Integers, Sequences, FiniteSets, SequencesExt

CONSTANTS Client, Key,
          Jobs,         \* what the clients may do: to each an <<operation, key>>
          Interruptible,\* the clients that somebody may interrupt
          Perishable,   \* the clients whose values may expire
          Capacity,
          Absent        \* no entry

VARIABLES
  map,          \* MapValue of each key
  keys,         \* the KeySet: a sequence of MapKeys, last accessed last
  job,          \* operation and key of each client
  pc,
  found,        \* the MapValue a client has read
  deferred,
  answer,       \* what a get or refresh returned: whose value, or why none
  expired,      \* the values whose time to live is over
  abandoned,    \* history: those interrupted between their entry and their lookup
  outdated,     \* history: values in the map, or once there, when their key was invalidated
  barred        \* history: those that were outdated when a client began

state == <<map, keys>>
history == <<abandoned, outdated, barred>>
vars == <<state, job, pc, found, deferred, answer, expired, history>>

(* A MapKey is an object: one for each pending entry, value and missed key.   *)
MapKey == Key \X Client \X {"pending", "complete", "missed"}
Complete(k, c) == [tag |-> "Complete", of |-> c, key |-> <<k, c, "complete">>]
Pending(k, c) == [tag |-> "Pending", of |-> c, key |-> <<k, c, "pending">>]
Refreshing(v, c) == [tag |-> "Refreshing", of |-> c, was |-> v.of, key |-> v.key]

MapValue == {Complete(k, c) : k \in Key, c \in Client}
            \cup {Pending(k, c) : k \in Key, c \in Client}
            \cup {Refreshing(Complete(k, b), c) : k \in Key, b \in Client, c \in Client}

Operations == {"get", "getOption", "getOptionComplete", "refresh", "set",
               "invalidate", "invalidateAll"}

TypeOK ==
  /\ map \in [Key -> MapValue \cup {Absent}]
  /\ keys \in Seq(MapKey) /\ IsInjective(keys)
  /\ job \in Jobs
  /\ pc \in [Client -> Operations \cup {"resolve", "renew", "lookup", "looking", "announce",
                                        "waiting", "ended"}]
  /\ found \in [Client -> MapValue \cup {Absent}]
  /\ deferred \in [Client -> {"pending", "done", "interrupted"}]
  /\ answer \in [Client -> Client \cup {"none"}]
  /\ expired \subseteq Client /\ abandoned \subseteq Client /\ outdated \subseteq Client
  /\ barred \in [Client -> SUBSET Client]

Init ==
  /\ map = [k \in Key |-> Absent]
  /\ keys = <<>>
  /\ job \in Jobs
  /\ pc = [c \in Client |-> job[c][1]]
  /\ found = [c \in Client |-> Absent]
  /\ deferred = [c \in Client |-> "pending"]
  /\ answer = [c \in Client |-> "none"]
  /\ expired = {} /\ abandoned = {} /\ outdated = {}
  /\ barred = [c \in Client |-> {}]

KeyOf(c) == job[c][2]
At(c, label) == pc[c] = label
Goto(c, label) == pc' = [pc EXCEPT ![c] = label]
Put(k, v) == [map EXCEPT ![k] = v]
Size(m) == Cardinality({k \in Key : m[k] # Absent})

-----------------------------------------------------------------------------
(* trackAccess: the key becomes the last of the KeySet, then the first ones   *)
(* are removed with their entries until the map is no larger than Capacity.  *)

(* How many MapKeys are removed: to the first that makes it small enough.    *)
Without(m, gone) == [k \in Key |-> IF \E i \in DOMAIN gone : gone[i][1] = k THEN Absent ELSE m[k]]
Removed(m, ks) ==
  LET enough == {n \in 0..Len(ks) : Size(Without(m, SubSeq(ks, 1, n))) <= Capacity}
  IN IF enough = {} THEN Len(ks) ELSE CHOOSE n \in enough : \A i \in enough : n <= i

Tracked(m, mk) ==
  LET ks == Append(Remove(keys, mk), mk)
      n == Removed(m, ks)
  IN [map |-> Without(m, SubSeq(ks, 1, n)), keys |-> SubSeq(ks, n + 1, Len(ks))]

Track(m, mk) == map' = Tracked(m, mk).map /\ keys' = Tracked(m, mk).keys

-----------------------------------------------------------------------------
(* getEither, getOption, getOptionComplete.                                 *)

(* What a client found before it began again counts no more.                 *)
Begins(c) == barred' = IF found[c] = Absent THEN [barred EXCEPT ![c] = outdated] ELSE barred

Find(c, k) ==
  /\ found' = [found EXCEPT ![c] = map[k]]
  /\ Goto(c, "resolve")
  /\ UNCHANGED state

Get(c) ==
  /\ At(c, "get")
  /\ LET k == KeyOf(c)
     IN \/ /\ map[k] = Absent
           /\ Track(Put(k, Pending(k, c)), <<k, c, "pending">>)
           /\ Goto(c, "lookup")
           /\ UNCHANGED found
        \/ map[k] # Absent /\ Find(c, k)
  /\ Begins(c)
  /\ UNCHANGED <<job, deferred, answer, expired, abandoned, outdated>>

GetOption(c) ==
  /\ \E op \in {"getOption", "getOptionComplete"} : At(c, op)
  /\ LET k == KeyOf(c)
     IN \/ /\ map[k] = Absent
           /\ Track(map, <<k, c, "missed">>)
           /\ Goto(c, "ended")
           /\ UNCHANGED found
        \/ map[k] # Absent /\ Find(c, k)
  /\ Begins(c)
  /\ UNCHANGED <<job, deferred, answer, expired, abandoned, outdated>>

(* The value a MapValue has already.                                        *)
ValueOf(v) == IF v.tag = "Refreshing" THEN v.was ELSE v.of
IsFresh(v) == v.tag # "Pending" /\ ValueOf(v) \notin expired

(* resolveMapValue, an operation after the value was found.  What is expired  *)
(* is removed, or what is there by now; a get begins again.                  *)
Resolve(c) ==
  /\ At(c, "resolve")
  /\ LET v == found[c]
         tracked == Tracked(map, v.key)
     IN /\ keys' = tracked.keys
        /\ map' = IF v.tag = "Complete" /\ ~IsFresh(v)
                    THEN [tracked.map EXCEPT ![KeyOf(c)] = Absent] ELSE tracked.map
        /\ answer' = IF IsFresh(v) THEN [answer EXCEPT ![c] = ValueOf(v)] ELSE answer
        /\ Goto(c, CASE IsFresh(v) -> "ended"
                     [] ~IsFresh(v) /\ v.tag = "Complete" /\ job[c][1] \in {"get", "refresh"} -> "get"
                     [] ~IsFresh(v) /\ v.tag = "Complete" /\ job[c][1] \notin {"get", "refresh"} -> "ended"
                     [] ~IsFresh(v) /\ v.tag # "Complete" /\ job[c][1] = "getOptionComplete" -> "ended"
                     [] OTHER -> "waiting")
  /\ UNCHANGED <<job, found, deferred, expired, history>>

(* Deferred.await.                                                          *)
Await(c) ==
  /\ At(c, "waiting")
  /\ deferred[found[c].of] # "pending"
  /\ answer' = IF deferred[found[c].of] = "done" THEN [answer EXCEPT ![c] = found[c].of] ELSE answer
  /\ Goto(c, "ended")
  /\ UNCHANGED <<state, job, found, deferred, expired, history>>

-----------------------------------------------------------------------------
(* lookupValueOf.                                                           *)

(* clockWith and suspend: from here on an interruption is noticed.           *)
Lookup(c) ==
  /\ At(c, "lookup")
  /\ Goto(c, "looking")
  /\ UNCHANGED <<state, job, found, deferred, answer, expired, history>>

(* The result is put into the map, whatever has become of the entry.         *)
Write(c) ==
  /\ At(c, "looking")
  /\ map' = Put(KeyOf(c), Complete(KeyOf(c), c))
  /\ Goto(c, "announce")
  /\ UNCHANGED <<keys, job, found, deferred, answer, expired, history>>

Announce(c) ==
  /\ At(c, "announce")
  /\ deferred' = [deferred EXCEPT ![c] = "done"]
  /\ answer' = [answer EXCEPT ![c] = c]
  /\ Goto(c, "ended")
  /\ UNCHANGED <<state, job, found, expired, history>>

(* Seeded bug: an interrupted lookup only removes its entry.                 *)
Silent(c) == deferred

(* Deferred.interrupt: who awaits the lookup is interrupted with it.         *)
Interrupted(c) == [deferred EXCEPT ![c] = "interrupted"]

(* onInterrupt of the lookup: it removes the entry of the key, whosever.     *)
Interrupt(c) ==
  /\ c \in Interruptible
  /\ pc[c] \in {"lookup", "looking", "announce", "waiting"}
  /\ IF pc[c] \in {"looking", "announce"}
       THEN deferred' = Interrupted(c) /\ map' = Put(KeyOf(c), Absent)
       ELSE UNCHANGED <<deferred, map>>
  /\ abandoned' = IF pc[c] = "lookup" THEN abandoned \cup {c} ELSE abandoned
  /\ Goto(c, "ended")
  /\ UNCHANGED <<keys, job, found, answer, expired, outdated, barred>>

-----------------------------------------------------------------------------
(* refresh.                                                                 *)

Refresh(c) ==
  /\ At(c, "refresh")
  /\ LET k == KeyOf(c)
         v == map[k]
     IN CASE v = Absent -> map' = Put(k, Pending(k, c)) /\ Goto(c, "lookup")
          [] v # Absent /\ v.tag = "Complete" /\ ~IsFresh(v) -> map' = Put(k, Absent) /\ Goto(c, "get")
          [] v # Absent /\ v.tag = "Complete" /\ IsFresh(v) -> Goto(c, "renew") /\ UNCHANGED map
          [] v # Absent /\ v.tag # "Complete" -> Goto(c, "waiting") /\ UNCHANGED map
  /\ found' = [found EXCEPT ![c] = map[KeyOf(c)]]
  /\ Begins(c)
  /\ UNCHANGED <<keys, job, deferred, answer, expired, abandoned, outdated>>

(* Seeded bug: the value is refreshed although it was invalidated.           *)
AnyCurrent(c) == TRUE

(* "Only trigger the lookup if we're still the current value".               *)
IsCurrent(c) == map[KeyOf(c)] = found[c]

Renew(c) ==
  /\ At(c, "renew")
  /\ IF IsCurrent(c)
       THEN map' = Put(KeyOf(c), Refreshing(found[c], c)) /\ Goto(c, "lookup")
       ELSE Goto(c, "ended") /\ UNCHANGED map
  /\ UNCHANGED <<keys, job, found, deferred, answer, expired, history>>

-----------------------------------------------------------------------------
Set(c) ==
  /\ At(c, "set")
  /\ map' = Put(KeyOf(c), Complete(KeyOf(c), c))
  /\ deferred' = [deferred EXCEPT ![c] = "done"]
  /\ Goto(c, "ended")
  /\ UNCHANGED <<keys, job, found, answer, expired, history>>

(* The values of key k that were put into the map.                           *)
Written(k) == {c \in Client : KeyOf(c) = k /\ (deferred[c] = "done" \/ pc[c] = "announce")}

Invalidate(c) ==
  /\ \/ At(c, "invalidate") /\ map' = Put(KeyOf(c), Absent)
                            /\ outdated' = outdated \cup Written(KeyOf(c))
     \/ At(c, "invalidateAll") /\ map' = [k \in Key |-> Absent]
                               /\ outdated' = outdated \cup UNION {Written(k) : k \in Key}
  /\ Goto(c, "ended")
  /\ UNCHANGED <<keys, job, found, deferred, answer, expired, abandoned, barred>>

(* A value's time to live is over.                                          *)
Expire(c) ==
  /\ c \in Perishable
  /\ deferred[c] = "done" /\ c \notin expired
  /\ expired' = expired \cup {c}
  /\ UNCHANGED <<state, job, pc, found, deferred, answer, history>>

-----------------------------------------------------------------------------
ClientStep(c) ==
  \/ Get(c) \/ GetOption(c) \/ Resolve(c) \/ Await(c)
  \/ Lookup(c) \/ Write(c) \/ Announce(c)
  \/ Refresh(c) \/ Renew(c) \/ Set(c) \/ Invalidate(c)

Next == \E c \in Client : ClientStep(c) \/ Interrupt(c) \/ Expire(c)

Spec == Init /\ [][Next]_vars

(* Fibers go on and lookups end.                                            *)
FairSpec == Spec /\ \A c \in Client : WF_vars(ClientStep(c))

-----------------------------------------------------------------------------
(* Who asks for a key is not given a value that the map had, or had had, when *)
(* the key was last invalidated before it asked, however gets, refreshes and *)
(* interruptions follow each other.                                         *)
NoStaleAnswer == \A c \in Client : answer[c] \notin barred[c]

(* Everybody is answered in the end, unless who was to look the value up was  *)
(* interrupted before it had begun.                                         *)
Answered ==
  \A c \in Client : pc[c] = "ended" \/ (pc[c] = "waiting" /\ found[c].of \in abandoned)
EverybodyAnswered == <>Answered
=============================================================================
