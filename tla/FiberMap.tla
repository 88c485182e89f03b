------------------------------ MODULE FiberMap ------------------------------
(***************************************************************************)
(* packages/effect/src/FiberMap.ts: fibers by key, forgotten when they end,   *)
(* interrupted when they are replaced, removed or cleared out.               *)
(***************************************************************************)
EXTENDS FiniteSets

CONSTANTS Fiber, Key, NoFiber

VARIABLES
  backing,      \* the fiber of each key
  life,         \* of each fiber
  observed,     \* the pairs <<fiber, key>> with an observer
  told,         \* the fibers that were sent an interruption
  condemned,    \* removed, and about to be interrupted by who removed them
  clearing,     \* what clear has yet to interrupt
  awaited,      \* the fiber whose end clear waits for
  sweeping,     \* clear is under way
  latest,       \* history: the fiber put under each key, unless removed or cleared
  escaped       \* history: dropped from the map and not interrupted

clear == <<clearing, awaited, sweeping>>
vars == <<backing, life, observed, told, condemned, clear, latest, escaped>>

TypeOK ==
  /\ backing \in [Key -> Fiber \cup {NoFiber}]
  /\ life \in [Fiber -> {"unborn", "alive", "ended"}]
  /\ observed \subseteq Fiber \X Key
  /\ told \subseteq Fiber /\ condemned \subseteq Fiber /\ clearing \subseteq Fiber
  /\ awaited \in Fiber \cup {NoFiber}
  /\ sweeping \in BOOLEAN
  /\ latest \in [Key -> Fiber \cup {NoFiber}]
  /\ escaped \subseteq Fiber

Init ==
  /\ backing = [k \in Key |-> NoFiber]
  /\ life = [f \in Fiber |-> "unborn"]
  /\ observed = {} /\ told = {} /\ condemned = {}
  /\ clearing = {} /\ awaited = NoFiber /\ sweeping = FALSE
  /\ latest = [k \in Key |-> NoFiber]
  /\ escaped = {}

Held == {backing[k] : k \in Key} \ {NoFiber}

-----------------------------------------------------------------------------
(* forkDaemon, in run and runtime.                                          *)
Fork(f) ==
  /\ life[f] = "unborn"
  /\ life' = [life EXCEPT ![f] = "alive"]
  /\ UNCHANGED <<backing, observed, told, condemned, clear, latest, escaped>>

(* Seeded bug: a fiber that ends takes whoever has its key with it.           *)
Anybody(f, k) == backing[k] # NoFiber

StillMine(f, k) == backing[k] = f

(* The observers of a fiber, when it ends.                                  *)
End(f) ==
  /\ life[f] = "alive"
  /\ life' = [life EXCEPT ![f] = "ended"]
  /\ backing' = [k \in Key |-> IF <<f, k>> \in observed /\ StillMine(f, k) THEN NoFiber
                               ELSE backing[k]]
  /\ UNCHANGED <<observed, told, condemned, clear, latest, escaped>>

(* unsafeSet.  The observer of a fiber that has ended is called at once.      *)
Set(k, f) ==
  /\ life[f] # "unborn" /\ backing[k] # f
  /\ told' = (told \cup {backing[k]}) \ {NoFiber}
  /\ observed' = observed \cup {<<f, k>>}
  /\ backing' = [backing EXCEPT ![k] = IF life[f] = "ended" THEN NoFiber ELSE f]
  /\ latest' = [latest EXCEPT ![k] = f]
  /\ UNCHANGED <<life, condemned, clear, escaped>>

(* remove: the fiber is interrupted an operation later, unless who removes it *)
(* is interrupted itself.                                                   *)
Remove(k) ==
  /\ backing[k] # NoFiber
  /\ condemned' = condemned \cup {backing[k]}
  /\ backing' = [backing EXCEPT ![k] = NoFiber]
  /\ latest' = [latest EXCEPT ![k] = NoFiber]
  /\ UNCHANGED <<life, observed, told, clear, escaped>>

Removed(f) ==
  /\ f \in condemned
  /\ condemned' = condemned \ {f}
  /\ \/ told' = told \cup {f} /\ UNCHANGED escaped
     \/ escaped' = escaped \cup {f} /\ UNCHANGED told
  /\ UNCHANGED <<backing, life, observed, clear, latest>>

-----------------------------------------------------------------------------
(* clear, the finalizer of the map: the fibers there are when it begins are   *)
(* interrupted and awaited one after the other, then the map is emptied.     *)
Clear ==
  /\ ~sweeping
  /\ sweeping' = TRUE
  /\ clearing' = Held
  /\ UNCHANGED <<backing, life, observed, told, condemned, awaited, latest, escaped>>

ClearOne(f) ==
  /\ sweeping /\ f \in clearing /\ awaited = NoFiber
  /\ told' = told \cup {f}
  /\ awaited' = f
  /\ clearing' = clearing \ {f}
  /\ UNCHANGED <<backing, life, observed, condemned, sweeping, latest, escaped>>

Awaited ==
  /\ awaited # NoFiber /\ life[awaited] = "ended"
  /\ awaited' = NoFiber
  /\ UNCHANGED <<backing, life, observed, told, condemned, clearing, sweeping, latest, escaped>>

Cleared ==
  /\ sweeping /\ clearing = {} /\ awaited = NoFiber
  /\ sweeping' = FALSE
  /\ backing' = [k \in Key |-> NoFiber]
  /\ latest' = [k \in Key |-> NoFiber]
  /\ escaped' = escaped \cup (Held \ told)
  /\ UNCHANGED <<life, observed, told, condemned, clearing, awaited>>

-----------------------------------------------------------------------------
Next ==
  \/ \E f \in Fiber : Fork(f) \/ End(f) \/ Removed(f) \/ ClearOne(f)
  \/ \E k \in Key : Remove(k) \/ (\E f \in Fiber : Set(k, f))
  \/ Clear \/ Awaited \/ Cleared

Spec == Init /\ [][Next]_vars

-----------------------------------------------------------------------------
(* The map has, under each key, the fiber put there last as long as it lives, *)
(* whatever has become of those before it and of their observers.            *)
HoldsTheLatest ==
  \A k \in Key :
    backing[k] = IF latest[k] # NoFiber /\ life[latest[k]] = "alive" THEN latest[k] ELSE NoFiber

(* No fiber that lives is let go without an interruption, but for those that   *)
(* were put into the map while it was cleared, or whose remover was           *)
(* interrupted.                                                             *)
NobodyLetGo ==
  \A f \in Fiber :
    life[f] = "alive" /\ (\E k \in Key : <<f, k>> \in observed)
      => f \in Held \cup told \cup condemned \cup escaped

FibersAreTracked == HoldsTheLatest /\ NobodyLetGo
=============================================================================
