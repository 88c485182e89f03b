------------------------------ MODULE RaceAll ------------------------------
(***************************************************************************)
(* raceAll of packages/effect/src/internal/fiberRuntime.ts: one fiber per     *)
(* effect, and for each an arbiter that awaits it.  The first arbiter with a  *)
(* success completes a Deferred and interrupts the other racers one after the *)
(* other; the last of all failures fails it.                                *)
(***************************************************************************)
EXTENDS Integers, Sequences, Filter

CONSTANT Racers         \* how many effects there are

VARIABLES
  masked,       \* the caller of raceAll is in an uninterruptible region
  racer, exit,  \* of each effect's fiber
  told,         \* the racers that were sent an interruption
  arbiter,      \* step of each arbiter
  done,         \* the Deferred: "pending", "failure", or the racer that won
  fails,
  caller,       \* step of the caller
  victims,      \* whom an arbiter, or the caller as 0, has yet to interrupt
  signalled     \* the caller has been interrupted

fibers == <<racer, exit>>
verdict == <<done, fails>>
vars == <<masked, fibers, told, arbiter, verdict, caller, victims, signalled>>

Racer == 1..Racers

TypeOK ==
  /\ masked \in BOOLEAN /\ signalled \in BOOLEAN
  /\ racer \in [Racer -> {"none", "forked", "running", "ended"}]
  /\ exit \in [Racer -> {"none", "success", "failure"}]
  /\ told \subseteq Racer
  /\ arbiter \in [Racer -> {"none", "waits", "sweeps", "ended"}]
  /\ done \in {<<"pending">>, <<"failure">>} \cup {<<"success", i>> : i \in Racer}
  /\ fails \in -1..Racers
  /\ caller \in {"forks", "waits", "sweeps", "returned", "failed"}
  /\ victims \in [0..Racers -> Seq(Racer)]

(* Ref.make(effects.length), `effects` being all but the first.               *)
MayFail == Racers - 1

Init ==
  /\ masked \in BOOLEAN /\ signalled = FALSE
  /\ racer = [i \in Racer |-> "none"] /\ exit = [i \in Racer |-> "none"]
  /\ told = {}
  /\ arbiter = [i \in Racer |-> "none"]
  /\ done = <<"pending">> /\ fails = MayFail
  /\ caller = "forks"
  /\ victims = [by \in 0..Racers |-> <<>>]

Alive == {i \in Racer : racer[i] \in {"forked", "running"}}

-----------------------------------------------------------------------------
(* The racers, which are interruptible whatever the region of the caller.     *)

Start(i) ==
  /\ racer[i] = "forked" /\ i \notin told
  /\ racer' = [racer EXCEPT ![i] = "running"]
  /\ UNCHANGED <<masked, exit, told, arbiter, verdict, caller, victims, signalled>>

End(i, how) ==
  /\ \/ racer[i] = "running"
     \/ racer[i] = "forked" /\ i \in told /\ how = "failure"
  /\ racer' = [racer EXCEPT ![i] = "ended"]
  /\ exit' = [exit EXCEPT ![i] = how]
  /\ UNCHANGED <<masked, told, arbiter, verdict, caller, victims, signalled>>

-----------------------------------------------------------------------------
(* Interrupting racers one after the other, each awaited before the next.     *)

Tell(by) ==
  /\ victims[by] # <<>> /\ Head(victims[by]) \notin told
  /\ told' = told \cup {Head(victims[by])}
  /\ UNCHANGED <<masked, fibers, arbiter, verdict, caller, victims, signalled>>

Await(by) ==
  /\ victims[by] # <<>> /\ Head(victims[by]) \in told
  /\ racer[Head(victims[by])] = "ended"
  /\ victims' = [victims EXCEPT ![by] = Tail(@)]
  /\ UNCHANGED <<masked, fibers, told, arbiter, verdict, caller, signalled>>

(* raceAllArbiter, in fibers that cannot be interrupted.                     *)

Others(i) == Keep([k \in Racer |-> k], Racer \ {i})

Succeed(i) ==
  /\ arbiter[i] = "waits" /\ exit[i] = "success"
  /\ IF done = <<"pending">>
       THEN /\ done' = <<"success", i>>
            /\ victims' = [victims EXCEPT ![i] = Others(i)]
            /\ arbiter' = [arbiter EXCEPT ![i] = "sweeps"]
       ELSE arbiter' = [arbiter EXCEPT ![i] = "ended"] /\ UNCHANGED <<done, victims>>
  /\ UNCHANGED <<masked, fibers, told, fails, caller, signalled>>

(* Seeded bug: one failure too few.                                          *)
NextToLast == fails <= 1

LastFailure == fails = 0

Fail(i) ==
  /\ arbiter[i] = "waits" /\ exit[i] = "failure"
  /\ done' = IF LastFailure /\ done = <<"pending">> THEN <<"failure">> ELSE done
  /\ fails' = fails - 1
  /\ arbiter' = [arbiter EXCEPT ![i] = "ended"]
  /\ UNCHANGED <<masked, fibers, told, caller, victims, signalled>>

Swept(i) ==
  /\ arbiter[i] = "sweeps" /\ victims[i] = <<>>
  /\ arbiter' = [arbiter EXCEPT ![i] = "ended"]
  /\ UNCHANGED <<masked, fibers, told, verdict, caller, victims, signalled>>

-----------------------------------------------------------------------------
(* The caller forks the racers in order, then the arbiters, uninterruptibly.  *)

IsNext(i, life) == life[i] = "none" /\ \A k \in 1..(i - 1) : life[k] # "none"

Fork(i) ==
  /\ caller = "forks" /\ IsNext(i, racer)
  /\ racer' = [racer EXCEPT ![i] = "forked"]
  /\ UNCHANGED <<masked, exit, told, arbiter, verdict, caller, victims, signalled>>

ForkArbiter(i) ==
  /\ caller = "forks" /\ IsNext(i, arbiter)
  /\ \A k \in Racer : racer[k] # "none"
  /\ arbiter' = [arbiter EXCEPT ![i] = "waits"]
  /\ caller' = IF i = Racers THEN "waits" ELSE "forks"
  /\ UNCHANGED <<masked, fibers, told, verdict, victims, signalled>>

Free == masked \/ ~signalled

(* Deferred.await(done).  The finalizer has nobody to interrupt after a        *)
(* failure, even if that was an interruption of every racer.                 *)
Answer ==
  /\ caller = "waits" /\ Free
  /\ done # <<"pending">>
  /\ caller' = IF done = <<"failure">> THEN "failed" ELSE "returned"
  /\ UNCHANGED <<masked, fibers, told, arbiter, verdict, victims, signalled>>

(* The children of the caller that are there are told at once.                *)
Interrupt ==
  /\ caller \in {"forks", "waits"} /\ ~signalled
  /\ signalled' = TRUE
  /\ told' = told \cup Alive
  /\ UNCHANGED <<masked, fibers, arbiter, verdict, caller, victims>>

GiveUp ==
  /\ caller = "waits" /\ ~Free
  /\ caller' = "sweeps"
  /\ victims' = [victims EXCEPT ![0] = [k \in Racer |-> k]]
  /\ UNCHANGED <<masked, fibers, told, arbiter, verdict, signalled>>

GivenUp ==
  /\ caller = "sweeps" /\ victims[0] = <<>>
  /\ caller' = "failed"
  /\ UNCHANGED <<masked, fibers, told, arbiter, verdict, victims, signalled>>

-----------------------------------------------------------------------------
CallerGoesOn ==
  \/ \E i \in Racer : Fork(i) \/ ForkArbiter(i)
  \/ Answer \/ GiveUp \/ GivenUp \/ Tell(0) \/ Await(0)
ArbiterGoesOn(i) == Succeed(i) \/ Fail(i) \/ Swept(i) \/ Tell(i) \/ Await(i)
RacerGoesOn(i) == Start(i) \/ (i \in told /\ End(i, "failure"))

Next ==
  \/ CallerGoesOn \/ Interrupt
  \/ \E i \in Racer :
       ArbiterGoesOn(i) \/ Start(i) \/ (\E how \in {"success", "failure"} : End(i, how))

Spec == Init /\ [][Next]_vars

(* Fibers go on; a racer ends when it is interrupted, if not before.           *)
FairSpec ==
  /\ Spec /\ WF_vars(CallerGoesOn)
  /\ \A i \in Racer : WF_vars(ArbiterGoesOn(i)) /\ WF_vars(RacerGoesOn(i))

-----------------------------------------------------------------------------
Winner == done[2]
ToldOrNext(i) == i \in told \/ \E k \in DOMAIN victims[Winner] : victims[Winner][k] = i

(* Who returns has the value of a racer that succeeded, and every other racer  *)
(* that lives is interrupted or on the list of the arbiter that is at it;     *)
(* who fails without an interruption has seen them all fail, and leaves none. *)
RaceAllIsWon ==
  /\ caller = "returned" =>
       exit[Winner] = "success" /\ \A i \in Alive : ToldOrNext(i)
  /\ caller = "failed" =>
       Alive = {} /\ (signalled \/ \A i \in Racer : exit[i] = "failure")

(* Once a racer has succeeded, all have ended or the caller is interrupted     *)
(* (in an interruptible region), raceAll ends and all its racers with it.     *)
RaceAllEnds ==
  \/ \E i \in Racer : exit[i] = "success"
  \/ \A i \in Racer : racer[i] = "ended"
  \/ signalled /\ ~masked
  ~> caller \in {"returned", "failed"} /\ Alive = {}
=============================================================================
