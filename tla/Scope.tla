-------------------------------- MODULE Scope --------------------------------
(***************************************************************************)
(* Scopes: the ReleaseMap of packages/effect/src/internal/core.ts, and        *)
(* releaseMapReleaseAll and scopeMake of internal/fiberRuntime.ts.            *)
(*                                                                         *)
(* Any fiber adds finalizers to a scope, forks it or closes it.  A forked     *)
(* scope is closed by a finalizer of its parent, and has one that takes this  *)
(* finalizer back out of the parent when it is closed before.                *)
(***************************************************************************)
EXTENDS Integers, Sequences, FiniteSets, SequencesExt, Filter

CONSTANTS
  Parent,       \* of each forked scope: "root" or another forked scope
  Width,        \* of each scope: 1 (sequential), n (parallelN), or no bound
  Finalizers    \* how many finalizers users add

VARIABLES
  state,        \* of each scope: "none", "open" (Running) or "exited" (Exited)
  fork,         \* step of the fiber that forks each scope
  finalizers,   \* of each scope, in the order of their keys
  pending,      \* those that releaseMapReleaseAll took and has not begun
  active,       \* those it has begun
  closer,       \* who closed the scope: "caller" or "parent"
  caller,       \* step of that caller
  home,         \* of each user's finalizer, its scope
  life          \* "new", "added", "runs", "ran"; "late" (run by who added it), "ranLate";
                \* "lost" to an interruption

release == <<pending, active, closer>>
users == <<home, life>>
vars == <<state, fork, finalizers, release, caller, users>>

Child == DOMAIN Parent
Scope == {"root"} \cup Child
User == 1..Finalizers

(* A user's finalizer; (exit) => scopeClose(child, exit), in the parent; fin,   *)
(* which releases the latter, in the child.                                 *)
Uses(u) == <<"user", u>>
Closes(c) == <<"close", c>>
Forgets(c) == <<"forget", c>>
Entry == {Uses(u) : u \in User} \cup {Closes(c) : c \in Child} \cup {Forgets(c) : c \in Child}

TypeOK ==
  /\ state \in [Scope -> {"none", "open", "exited"}]
  /\ fork \in [Child -> {"none", "linked", "forked"}]
  /\ finalizers \in [Scope -> Seq(Entry)] /\ pending \in [Scope -> Seq(Entry)]
  /\ active \in [Scope -> SUBSET Entry]
  /\ closer \in [Scope -> {"nobody", "caller", "parent"}]
  /\ caller \in [Scope -> {"none", "closes", "returned", "cut"}]
  /\ home \in [User -> Scope \cup {"none"}]
  /\ life \in [User -> {"new", "added", "runs", "ran", "late", "ranLate", "lost"}]

Init ==
  /\ state = [s \in Scope |-> IF s = "root" THEN "open" ELSE "none"]
  /\ fork = [c \in Child |-> "none"]
  /\ finalizers = [s \in Scope |-> <<>>] /\ pending = [s \in Scope |-> <<>>]
  /\ active = [s \in Scope |-> {}]
  /\ closer = [s \in Scope |-> "nobody"] /\ caller = [s \in Scope |-> "none"]
  /\ home = [u \in User |-> "none"] /\ life = [u \in User |-> "new"]

(* Who knows a scope: everybody, once the fork is over.                      *)
Known(s) == s \in Child => fork[s] = "forked"

-----------------------------------------------------------------------------
(* fork: releaseMapAdd on the parent, which closes the child at once if the    *)
(* parent is closed, then addFinalizer on the child.                         *)

Link(c) ==
  /\ fork[c] = "none" /\ Known(Parent[c])
  /\ fork' = [fork EXCEPT ![c] = "linked"]
  /\ IF state[Parent[c]] = "open"
       THEN /\ state' = [state EXCEPT ![c] = "open"]
            /\ finalizers' = [finalizers EXCEPT ![Parent[c]] = Append(@, Closes(c))]
       ELSE state' = [state EXCEPT ![c] = "exited"] /\ UNCHANGED finalizers
  /\ UNCHANGED <<release, caller, users>>

Register(c) ==
  /\ fork[c] = "linked"
  /\ fork' = [fork EXCEPT ![c] = "forked"]
  /\ finalizers' = IF state[c] = "open" THEN [finalizers EXCEPT ![c] = Append(@, Forgets(c))]
                                        ELSE finalizers
  /\ UNCHANGED <<state, release, caller, users>>

(* addFinalizer: a scope that is closed runs it at once.                     *)
Add(s, u) ==
  /\ Known(s)
  /\ life[u] = "new" /\ \A v \in 1..(u - 1) : life[v] # "new"
  /\ home' = [home EXCEPT ![u] = s]
  /\ IF state[s] = "open"
       THEN /\ finalizers' = [finalizers EXCEPT ![s] = Append(@, Uses(u))]
            /\ life' = [life EXCEPT ![u] = "added"]
       ELSE life' = [life EXCEPT ![u] = "late"] /\ UNCHANGED finalizers
  /\ UNCHANGED <<state, fork, release, caller>>

EndLate(u) ==
  /\ life[u] = "late"
  /\ life' = [life EXCEPT ![u] = "ranLate"]
  /\ UNCHANGED <<state, fork, finalizers, release, caller, home>>

-----------------------------------------------------------------------------
(* releaseMapReleaseAll: the map is exited at once, then its finalizers run,   *)
(* the last one first.                                                      *)

(* Seeded bug: in the order in which they were added.                        *)
InOrder(s) == finalizers[s]

LastFirst(s) == Reverse(finalizers[s])

Exited(s, by, rest) ==
  /\ state' = [state EXCEPT ![s] = "exited"]
  /\ closer' = [closer EXCEPT ![s] = by]
  /\ pending' = [rest EXCEPT ![s] = LastFirst(s)]
  /\ finalizers' = [finalizers EXCEPT ![s] = <<>>]

Close(s) ==
  /\ Known(s) /\ state[s] = "open"
  /\ Exited(s, "caller", pending)
  /\ caller' = [caller EXCEPT ![s] = "closes"]
  /\ UNCHANGED <<fork, active, users>>

Next1(s) == pending[s] # <<>> /\ Cardinality(active[s]) < Width[s]
Others(s) == [pending EXCEPT ![s] = Tail(@)]

BeginUser(s, u) ==
  /\ Next1(s) /\ Head(pending[s]) = Uses(u)
  /\ pending' = Others(s)
  /\ active' = [active EXCEPT ![s] = @ \cup {Uses(u)}]
  /\ life' = [life EXCEPT ![u] = "runs"]
  /\ UNCHANGED <<state, fork, finalizers, closer, caller, home>>

(* A child that is being closed by somebody else is not waited for.           *)
BeginClose(s, c) ==
  /\ Next1(s) /\ Head(pending[s]) = Closes(c)
  /\ IF state[c] = "open"
       THEN Exited(c, "parent", Others(s)) /\ active' = [active EXCEPT ![s] = @ \cup {Closes(c)}]
       ELSE pending' = Others(s) /\ UNCHANGED <<state, finalizers, closer, active>>
  /\ UNCHANGED <<fork, caller, users>>

(* releaseMapRelease deletes what closes this scope from its parent and runs   *)
(* it, in vain.                                                             *)
BeginForget(c) ==
  /\ Next1(c) /\ Head(pending[c]) = Forgets(c)
  /\ pending' = Others(c)
  /\ finalizers' = [finalizers EXCEPT ![Parent[c]] = Keep(@, Entry \ {Closes(c)})]
  /\ UNCHANGED <<state, fork, active, closer, caller, users>>

Over(s) == pending[s] = <<>> /\ active[s] = {}

EndUser(s, u) ==
  /\ Uses(u) \in active[s]
  /\ active' = [active EXCEPT ![s] = @ \ {Uses(u)}]
  /\ life' = [life EXCEPT ![u] = "ran"]
  /\ UNCHANGED <<state, fork, finalizers, pending, closer, caller, home>>

EndClose(s, c) ==
  /\ Closes(c) \in active[s] /\ Over(c)
  /\ active' = [active EXCEPT ![s] = @ \ {Closes(c)}]
  /\ UNCHANGED <<state, fork, finalizers, pending, closer, caller, users>>

Return(s) ==
  /\ caller[s] = "closes" /\ Over(s)
  /\ caller' = [caller EXCEPT ![s] = "returned"]
  /\ UNCHANGED <<state, fork, finalizers, release, users>>

(* If the caller of close may be interrupted, and is, everything it does ends   *)
(* where it is: what it has not begun is lost.                               *)
WithThoseTheyClose(T) == \A c \in Child : closer[c] = "parent" /\ Parent[c] \in T => c \in T
Under(s) == {t \in Scope : \A T \in SUBSET Scope : s \in T /\ WithThoseTheyClose(T) => t \in T}

Interrupt(s) ==
  /\ caller[s] = "closes"
  /\ caller' = [caller EXCEPT ![s] = "cut"]
  /\ pending' = [t \in Scope |-> IF t \in Under(s) THEN <<>> ELSE pending[t]]
  /\ active' = [t \in Scope |-> IF t \in Under(s) THEN {} ELSE active[t]]
  /\ life' = [u \in User |->
                IF \E t \in Under(s) : Uses(u) \in ToSet(pending[t]) \cup active[t]
                  THEN "lost" ELSE life[u]]
  /\ UNCHANGED <<state, fork, finalizers, closer, home>>

-----------------------------------------------------------------------------
ReleaseStep(s) ==
  \/ \E u \in User : BeginUser(s, u) \/ EndUser(s, u)
  \/ \E c \in Child : BeginClose(s, c) \/ EndClose(s, c)
  \/ s \in Child /\ BeginForget(s)
  \/ Return(s)
UserStep(u) == EndLate(u) \/ \E s \in Scope : Add(s, u)

Next ==
  \/ \E c \in Child : Link(c) \/ Register(c)
  \/ \E u \in User : UserStep(u)
  \/ \E s \in Scope : Close(s) \/ ReleaseStep(s) \/ Interrupt(s)

Spec == Init /\ [][Next]_vars

(* Fibers go on: a fork that was begun is ended, finalizers end.              *)
Goes ==
  \/ \E c \in Child : Register(c)
  \/ \E s \in Scope : ReleaseStep(s)
  \/ \E u \in User : EndLate(u)
FairSpec == Spec /\ WF_vars(Goes)

-----------------------------------------------------------------------------
Added(s, u) == home[u] = s /\ life[u] \notin {"late", "ranLate"}
CutShort(s) == \E t \in Scope : caller[t] = "cut" /\ s \in Under(t)

(* A finalizer that was added and has not begun is in its scope, or, once this *)
(* is closed, before whoever closes it.                                     *)
NoneForgotten ==
  \A u \in User : life[u] = "added" =>
    Uses(u) \in ToSet(IF state[home[u]] = "open" THEN finalizers[home[u]] ELSE pending[home[u]])

(* In a sequential scope the finalizers run one after the other, the last one  *)
(* that was added first.                                                    *)
LastAddedFirst ==
  \A s \in Scope, u, v \in User :
    Width[s] = 1 /\ u < v /\ Added(s, u) /\ Added(s, v) /\ life[u] \in {"runs", "ran"}
      => life[v] \in {"ran", "lost"}

(* When close returns, the finalizers of the scope and of all the scopes that  *)
(* it closed have run.                                                      *)
ClosedIsOver ==
  \A s \in Scope : caller[s] = "returned" =>
    \A t \in Under(s), u \in User : Added(t, u) => life[u] = "ran"

(* A scope that was forked from a closed one is closed, however the fork and   *)
(* the close interleaved, and one that is closed leaves nothing in its parent; *)
(* but for a close that was interrupted.                                    *)
ForksFollow ==
  \A c \in Child :
    /\ state[Parent[c]] = "exited" /\ Over(Parent[c]) /\ ~CutShort(Parent[c])
         => state[c] # "open"
    /\ state[c] = "exited" /\ fork[c] = "forked" /\ Over(c) /\ ~CutShort(c)
         => Closes(c) \notin ToSet(finalizers[Parent[c]])

FinalizersRun == NoneForgotten /\ LastAddedFirst /\ ClosedIsOver /\ ForksFollow

(* Every finalizer of a closed scope runs, or is lost to an interruption of    *)
(* close.                                                                   *)
Settled ==
  \A u \in User : home[u] # "none" /\ state[home[u]] = "exited" =>
    life[u] \in {"ran", "ranLate", "lost"}
ScopesEmpty == []<>Settled
=============================================================================
