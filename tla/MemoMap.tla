------------------------------ MODULE MemoMap ------------------------------
(***************************************************************************)
(* The MemoMap of packages/effect/src/internal/layer.ts and the scopes below *)
(* it (the ReleaseMap of internal/core.ts): a layer is built by the first     *)
(* who asks for it, shared with those who ask later, and released when the   *)
(* scope of the last of them is closed.                                     *)
(*                                                                         *)
(* One layer.  A user is a fiber that asks for it once, in a scope of its     *)
(* own, which its owner closes whenever it likes; who built it stands for     *)
(* the entry of the map, its Deferred, its observers and its inner scope.     *)
(***************************************************************************)
EXTENDS Integers, Sequences, FiniteSets

CONSTANTS User, Nobody

VARIABLES
  entry,        \* map.get(layer): who built it
  pc,           \* step of each user
  of,           \* whose layer a user shares
  deferred,     \* of each builder
  observers,    \* of each builder
  inner,        \* innerScope of each builder
  scope,        \* of each user: [exited, finalizers]
  duties,       \* finalizers a fiber has yet to run: the user's and the closer's
  cutAt,        \* history: the step at which a user was interrupted
  tooLate       \* history: the users counted when the layer was being released

memo == <<entry, deferred, observers, inner>>
history == <<cutAt, tooLate>>
vars == <<memo, pc, of, scope, duties, history>>

(* Of the builder, of those who share, and what the last of them has yet to do. *)
Finalizer == {"forget", "release", "close"} \X User
Runner == {"user", "closer"} \X User
Label == {"ask", "start", "building", "count", "register", "announce",
          "await", "enlist", "using", "ended"}

TypeOK ==
  /\ entry \in User \cup {Nobody}
  /\ pc \in [User -> Label]
  /\ of \in [User -> User \cup {Nobody}]
  /\ deferred \in [User -> {"pending", "done", "failed"}]
  /\ observers \in [User -> Int]
  /\ inner \in [User -> {"none", "open", "closed"}]
  /\ scope \in [User -> [exited : BOOLEAN, finalizers : Seq(Finalizer)]]
  /\ duties \in [Runner -> Seq(Finalizer)]
  /\ cutAt \in [User -> Label \cup {"nowhere"}]
  /\ tooLate \subseteq User

Init ==
  /\ entry = Nobody
  /\ pc = [u \in User |-> "ask"]
  /\ of = [u \in User |-> Nobody]
  /\ deferred = [u \in User |-> "pending"]
  /\ observers = [u \in User |-> 0]
  /\ inner = [u \in User |-> "none"]
  /\ scope = [u \in User |-> [exited |-> FALSE, finalizers |-> <<>>]]
  /\ duties = [r \in Runner |-> <<>>]
  /\ cutAt = [u \in User |-> "nowhere"]
  /\ tooLate = {}

(* A user runs what it was given before it goes on.                          *)
At(u, label) == pc[u] = label /\ duties[<<"user", u>>] = <<>>
Goto(u, label) == pc' = [pc EXCEPT ![u] = label]

(* scopeAddFinalizerExit: that of a closed scope runs at once.               *)
AddFinalizer(u, finalizer) ==
  IF scope[u].exited
    THEN duties' = [duties EXCEPT ![<<"user", u>>] = <<finalizer>>] /\ UNCHANGED scope
    ELSE scope' = [scope EXCEPT ![u].finalizers = Append(@, finalizer)] /\ UNCHANGED duties

-----------------------------------------------------------------------------
(* getOrElseMemoize, under the lock of the SynchronizedRef.                  *)

Ask(u) ==
  /\ At(u, "ask")
  /\ IF entry = Nobody
       THEN entry' = u /\ of' = [of EXCEPT ![u] = u] /\ Goto(u, "start")
       ELSE of' = [of EXCEPT ![u] = entry] /\ Goto(u, "await") /\ UNCHANGED entry
  /\ UNCHANGED <<deferred, observers, inner, scope, duties, history>>

(* `resource`, of which only the build is interruptible.                     *)
Start(u) ==
  /\ At(u, "start")
  /\ inner' = [inner EXCEPT ![u] = "open"]
  /\ Goto(u, "building")
  /\ UNCHANGED <<entry, deferred, observers, of, scope, duties, history>>

Fail(u) ==
  /\ At(u, "building")
  /\ deferred' = [deferred EXCEPT ![u] = "failed"]
  /\ inner' = [inner EXCEPT ![u] = "closed"]
  /\ Goto(u, "ended")
  /\ UNCHANGED <<entry, observers, of, scope, duties, history>>

Built(u) ==
  /\ At(u, "building")
  /\ Goto(u, "count")
  /\ UNCHANGED <<memo, of, scope, duties, history>>

Count(u) ==
  /\ At(u, "count")
  /\ observers' = [observers EXCEPT ![u] = @ + 1]
  /\ Goto(u, "register")
  /\ UNCHANGED <<entry, deferred, inner, of, scope, duties, history>>

Register(u) ==
  /\ At(u, "register")
  /\ AddFinalizer(u, <<"forget", u>>)
  /\ Goto(u, "announce")
  /\ UNCHANGED <<memo, of, history>>

Announce(u) ==
  /\ At(u, "announce")
  /\ deferred' = [deferred EXCEPT ![u] = "done"]
  /\ Goto(u, "using")
  /\ UNCHANGED <<entry, observers, inner, of, scope, duties, history>>

(* The count has come down to nothing, and the inner scope is closed or the    *)
(* last who shared it is about to close it.                                  *)
Releasing(b) ==
  inner[b] = "closed" \/ \E r \in Runner : duties[r] # <<>> /\ Head(duties[r]) = <<"close", b>>

(* `cached`: who awaited the Deferred is counted, then its scope told.        *)

Joined(u) ==
  /\ At(u, "await")
  /\ \/ /\ deferred[of[u]] = "done"
        /\ observers' = [observers EXCEPT ![of[u]] = @ + 1]
        /\ tooLate' = IF Releasing(of[u]) THEN tooLate \cup {u} ELSE tooLate
        /\ Goto(u, "enlist")
     \/ /\ deferred[of[u]] = "failed"
        /\ Goto(u, "ended")
        /\ UNCHANGED <<observers, tooLate>>
  /\ UNCHANGED <<entry, deferred, inner, of, scope, duties, cutAt>>

Enlist(u) ==
  /\ At(u, "enlist")
  /\ AddFinalizer(u, <<"release", of[u]>>)
  /\ Goto(u, "using")
  /\ UNCHANGED <<memo, of, history>>

(* The fiber of a user is interrupted.  A build that is interrupted fails.   *)
Interrupt(u) ==
  /\ pc[u] \in {"ask", "start", "await", "enlist"}
  /\ cutAt' = [cutAt EXCEPT ![u] = pc[u]]
  /\ Goto(u, "ended")
  /\ UNCHANGED <<memo, of, scope, duties, tooLate>>

-----------------------------------------------------------------------------
(* releaseMapReleaseAll: from now on the scope is exited.                    *)
Close(u) ==
  /\ ~scope[u].exited
  /\ scope' = [scope EXCEPT ![u] = [exited |-> TRUE, finalizers |-> <<>>]]
  /\ duties' = [duties EXCEPT ![<<"closer", u>>] = scope[u].finalizers]
  /\ UNCHANGED <<memo, pc, of, history>>

(* The builder's finalizer first forgets the layer, whoever has built it.     *)
Forget(r) ==
  /\ duties[r] # <<>> /\ Head(duties[r])[1] = "forget"
  /\ entry' = Nobody
  /\ duties' = [duties EXCEPT ![r] = <<<<"release", Head(@)[2]>>>> \o Tail(@)]
  /\ UNCHANGED <<deferred, observers, inner, pc, of, scope, history>>

(* Seeded bugs: the first who leaves releases the layer; the count is off by   *)
(* one.                                                                     *)
IsAny(b) == TRUE
IsNone(b) == observers[b] = 0

(* The last observer.                                                       *)
IsLast(b) == observers[b] = 1

(* The finalizer of who built it and of who shares it: the observers are       *)
(* counted down, and only then, in an operation of its own, the last closes    *)
(* the inner scope; in between somebody may be counted again.                 *)
Release(r) ==
  /\ duties[r] # <<>> /\ Head(duties[r])[1] = "release"
  /\ LET builder == Head(duties[r])[2]
     IN /\ observers' = [observers EXCEPT ![builder] = @ - 1]
        /\ duties' = [duties EXCEPT ![r] = IF IsLast(builder) THEN <<<<"close", builder>>>> \o Tail(@) ELSE Tail(@)]
  /\ UNCHANGED <<entry, deferred, inner, pc, of, scope, history>>

CloseInner(r) ==
  /\ duties[r] # <<>> /\ Head(duties[r])[1] = "close"
  /\ inner' = [inner EXCEPT ![Head(duties[r])[2]] = "closed"]
  /\ duties' = [duties EXCEPT ![r] = Tail(@)]
  /\ UNCHANGED <<entry, deferred, observers, pc, of, scope, history>>

-----------------------------------------------------------------------------
UserStep(u) ==
  \/ Ask(u) \/ Start(u) \/ Fail(u) \/ Built(u) \/ Count(u) \/ Register(u) \/ Announce(u)
  \/ Joined(u) \/ Enlist(u)

Finalize(r) == Forget(r) \/ Release(r) \/ CloseInner(r)

Next ==
  \/ \E u \in User : UserStep(u) \/ Interrupt(u) \/ Close(u)
  \/ \E r \in Runner : Finalize(r)

Spec == Init /\ [][Next]_vars

(* Fibers go on, builds end, finalizers are run; nobody has to close a scope. *)
Fairness == (\A u \in User : WF_vars(UserStep(u))) /\ (\A r \in Runner : WF_vars(Finalize(r)))
FairSpec == Spec /\ Fairness

-----------------------------------------------------------------------------
Uses(u) == pc[u] = "using" /\ ~scope[u].exited

(* Who uses the layer has it until its scope is closed, even if the scope of  *)
(* who built it was closed long ago.                                        *)
UsedIsOpen == \A u \in User : Uses(u) => inner[of[u]] = "open"

(* So it is unless the user was counted when the count had already come down   *)
(* to nothing: whoever is counted with another keeps the layer open, in         *)
(* whatever order the two, and those before and after them, leave.             *)
UsedIsOpenIfCounted == \A u \in User \ tooLate : Uses(u) => inner[of[u]] = "open"

(* When every scope is closed the layer is released, and nobody waits for it, *)
(* unless a user was interrupted where it had been counted or memoised and    *)
(* not yet registered.                                                      *)
Spared == \A u \in User : cutAt[u] \notin {"start", "enlist"}
Released ==
  (\A u \in User : scope[u].exited) /\ Spared =>
    \A u \in User : inner[u] # "open" /\ pc[u] \in {"using", "ended"}
ReleasedInTheEnd == []<>Released
=============================================================================
