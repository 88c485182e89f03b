-------------------------------- MODULE Race --------------------------------
(***************************************************************************)
(* raceFibersWith of packages/effect/src/internal/fiberRuntime.ts and what is *)
(* made of it: race (and raceFirst, whose racers only fail when they are      *)
(* interrupted) and timeoutTo, whose right racer sleeps.                     *)
(*                                                                         *)
(* The parent makes a fiber for each side and waits, without a canceler, for *)
(* the observer of the one that ends first.  What a racer does is any        *)
(* effect, which may never end unless it is interrupted.                     *)
(***************************************************************************)
EXTENDS Integers, Sequences

VARIABLES
  kind,         \* "race" or "timeout"
  masked,       \* the parent is in an uninterruptible region
  racer, exit,  \* of each side
  told,         \* the racers that were sent an interruption
  winner,       \* whose observer set raceIndicator to false
  parent,       \* step of the parent
  outcome,      \* whose value the race returned, or "failure"
  signalled,    \* the parent has been interrupted
  tooSoon,      \* history: it was, when its racers were made and not started
  finished      \* history: the sides in the order in which they ended

racers == <<racer, exit, told, winner, finished>>
vars == <<kind, masked, racers, parent, outcome, signalled, tooSoon>>

Side == {"left", "right"}
Other(s) == IF s = "left" THEN "right" ELSE "left"

TypeOK ==
  /\ kind \in {"race", "timeout"} /\ masked \in BOOLEAN
  /\ racer \in [Side -> {"none", "made", "forked", "running", "ended"}]
  /\ exit \in [Side -> {"none", "success", "failure"}]
  /\ told \subseteq Side
  /\ winner \in Side \cup {"nobody"}
  /\ parent \in {"begins", "made", "races", "interrupts", "joins", "returned", "failed",
                 "winds", "ended"}
  /\ outcome \in Side \cup {"none", "failure"}
  /\ signalled \in BOOLEAN /\ tooSoon \in BOOLEAN
  /\ finished \in Seq(Side)

Init ==
  /\ kind \in {"race", "timeout"} /\ masked \in BOOLEAN
  /\ racer = [s \in Side |-> "none"] /\ exit = [s \in Side |-> "none"]
  /\ told = {} /\ winner = "nobody" /\ finished = <<>>
  /\ parent = "begins" /\ outcome = "none"
  /\ signalled = FALSE /\ tooSoon = FALSE

Alive == {s \in Side : racer[s] \notin {"none", "ended"}}

(* The sleep of a timeout is a fiber of the global scope, and interruptible;  *)
(* a racer inherits the flags of the parent.                                *)
Sleeps(s) == kind = "timeout" /\ s = "right"
Children == {s \in Alive : ~Sleeps(s)}
Yields(s) == s \in told /\ (~masked \/ Sleeps(s))

-----------------------------------------------------------------------------
(* The racers.                                                              *)

Start(s) ==
  /\ racer[s] = "forked" /\ ~Yields(s)
  /\ racer' = [racer EXCEPT ![s] = "running"]
  /\ UNCHANGED <<kind, masked, exit, told, winner, finished, parent, outcome, signalled, tooSoon>>

(* The end of a fiber, and completeRace.  A sleep fails only by interruption. *)
End(s, how) ==
  /\ \/ racer[s] = "running" /\ (how = "failure" /\ Sleeps(s) => s \in told)
     \/ racer[s] = "forked" /\ Yields(s) /\ how = "failure"
  /\ racer' = [racer EXCEPT ![s] = "ended"]
  /\ exit' = [exit EXCEPT ![s] = how]
  /\ winner' = IF winner = "nobody" THEN s ELSE winner
  /\ finished' = Append(finished, s)
  /\ UNCHANGED <<kind, masked, told, parent, outcome, signalled, tooSoon>>

-----------------------------------------------------------------------------
(* The parent.                                                              *)

Free == masked \/ ~signalled

(* The parent makes its racers, and may yield before it starts them.          *)
Begin ==
  /\ parent = "begins" /\ Free
  /\ \E life \in {"made", "forked"} :
       /\ racer' = [s \in Side |-> life]
       /\ parent' = IF life = "made" THEN "made" ELSE "races"
  /\ UNCHANGED <<kind, masked, exit, told, winner, finished, outcome, signalled, tooSoon>>

StartFork ==
  /\ parent = "made" /\ Free
  /\ racer' = [s \in Side |-> "forked"]
  /\ parent' = "races"
  /\ UNCHANGED <<kind, masked, exit, told, winner, finished, outcome, signalled, tooSoon>>

(* Seeded bug: the loser is left alone.                                      *)
TellNobody(s) == told

(* onSelfWin, onOtherWin: race waits for the other when the first has failed.  *)
AfterWin(s) == IF kind = "race" /\ exit[s] = "failure" THEN "joins" ELSE "interrupts"
TellLoser(s) == told \cup ({Other(s)} \cap Alive)

Won ==
  /\ parent = "races" /\ Free
  /\ winner # "nobody"
  /\ parent' = AfterWin(winner)
  /\ told' = IF AfterWin(winner) = "joins" THEN told ELSE TellLoser(winner)
  /\ UNCHANGED <<kind, masked, racer, exit, winner, finished, outcome, signalled, tooSoon>>

(* interruptAsFiber and join both await the loser.                           *)
Settle ==
  /\ parent \in {"interrupts", "joins"} /\ Free
  /\ racer[Other(winner)] = "ended"
  /\ LET whose == IF parent = "interrupts" THEN winner ELSE Other(winner)
     IN /\ outcome' = IF exit[whose] = "success" THEN whose ELSE "failure"
        /\ parent' = IF exit[whose] = "success" THEN "returned" ELSE "failed"
  /\ UNCHANGED <<kind, masked, racers, signalled, tooSoon>>

(* An interruption reaches the parent: its children are told at once, also    *)
(* those that are not started, in which it starts nothing.                   *)
Interrupt ==
  /\ parent \in {"begins", "made", "races", "interrupts", "joins"} /\ ~signalled
  /\ signalled' = TRUE
  /\ told' = told \cup Children
  /\ UNCHANGED <<kind, masked, racer, exit, winner, finished, parent, outcome, tooSoon>>

GiveUp ==
  /\ parent \in {"begins", "made", "races", "interrupts", "joins"} /\ ~Free
  /\ parent' = "failed" /\ outcome' = "failure"
  /\ tooSoon' = (parent = "made")
  /\ UNCHANGED <<kind, masked, racers, signalled>>

(* The parent goes on to its own end, for which its children have to end.     *)
WindDown ==
  /\ parent \in {"returned", "failed"}
  /\ parent' = "winds"
  /\ told' = told \cup Children
  /\ UNCHANGED <<kind, masked, racer, exit, winner, finished, outcome, signalled, tooSoon>>

Exit ==
  /\ parent = "winds" /\ Children = {}
  /\ parent' = "ended"
  /\ UNCHANGED <<kind, masked, racers, outcome, signalled, tooSoon>>

-----------------------------------------------------------------------------
ParentGoesOn == Begin \/ StartFork \/ Won \/ Settle \/ GiveUp \/ WindDown \/ Exit
RacerGoesOn(s) ==
  \/ Start(s)
  \/ Yields(s) /\ End(s, "failure")
  \/ Sleeps(s) /\ End(s, "success")

Next ==
  \/ ParentGoesOn \/ Interrupt
  \/ \E s \in Side : Start(s) \/ (\E how \in {"success", "failure"} : End(s, how))

Spec == Init /\ [][Next]_vars

(* Fibers go on, programs end; a racer ends when it is interrupted, or when    *)
(* it has slept.                                                            *)
FairSpec == Spec /\ WF_vars(ParentGoesOn) /\ (\A s \in Side : WF_vars(RacerGoesOn(s)))

-----------------------------------------------------------------------------
Over == outcome # "none"

(* "Returning the first successful A from the faster side": a value is that    *)
(* of the first who succeeded, for a timeout of the first who ended; a race   *)
(* fails only if both did.  And when it is over there is no loser left,       *)
(* unless the parent was interrupted: then all its children know.             *)
RaceIsWon ==
  /\ outcome \in Side =>
       \E n \in DOMAIN finished :
         /\ finished[n] = outcome /\ exit[outcome] = "success"
         /\ \A k \in 1..(n - 1) : kind = "race" /\ exit[finished[k]] = "failure"
  /\ outcome = "failure" /\ Free =>
       IF kind = "race" THEN \A s \in Side : exit[s] = "failure"
                        ELSE finished[1] = "left" /\ exit["left"] = "failure"
  /\ Over => Children \subseteq told /\ (Free => Alive = {})

(* A race in an interruptible region ends, and its fibers with it, when one    *)
(* has succeeded, both have failed or the parent is interrupted; a timeout    *)
(* ends in any case.  Except when the parent is interrupted between the two    *)
(* operations that make the racers and start them.                           *)
Decided ==
  \/ kind = "timeout" \/ signalled
  \/ \E s \in Side : exit[s] = "success"
  \/ \A s \in Side : exit[s] = "failure"
RaceEnds == ~masked /\ Decided ~> tooSoon \/ (parent = "ended" /\ Alive = {})
=============================================================================
