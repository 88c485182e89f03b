------------------------------ MODULE TestClock ------------------------------
(***************************************************************************)
(* The clock that tests move by hand: packages/effect/src/TestClock.ts.       *)
(*                                                                         *)
(* Fibers sleep; who adjusts the clock wakes those whose time has come one     *)
(* after the other, and before each waits until all fibers are suspended, so   *)
(* that what they do takes no time.                                          *)
(***************************************************************************)
EXTENDS Integers, Sequences, FiniteSets, SequencesExt

CONSTANTS
  Sleeper, Naps,    \* the functions that give a sleeper its naps, one after the other
  Adjuster, Jumps   \* those that give an adjuster its jumps, <<"adjust" or "setTime", n>>

VARIABLES
  instant, sleeps,    \* of the Data: the time, and <<end, sleeper>>, the latest first
  naps, pc, due,      \* what a sleeper has yet to sleep, its step, the end of its last nap
  jumps, step,        \* what an adjuster has yet to do, its step
  goal,               \* of a run that has begun: the time it goes to
  wakes,              \* whom it is about to wake
  crossed             \* history: two of them ran at once

sleepers == <<naps, pc, due>>
adjusters == <<jumps, step, goal, wakes>>
vars == <<instant, sleeps, sleepers, adjusters, crossed>>

Unknown == 0 - 1

TypeOK ==
  /\ instant \in Nat /\ sleeps \in Seq(Nat \X Sleeper)
  /\ naps \in [Sleeper -> Seq(Nat)] /\ jumps \in [Adjuster -> Seq({"adjust", "setTime"} \X Nat)]
  /\ pc \in [Sleeper -> {"runs", "waits", "woken", "ended"}]
  /\ due \in [Sleeper -> Nat]
  /\ step \in [Adjuster -> {"idle", "awaits", "modifies", "wakes"}]
  /\ goal \in [Adjuster -> Nat \cup {Unknown}]
  /\ wakes \in [Adjuster -> Sleeper]
  /\ crossed \in BOOLEAN

Init ==
  /\ instant = 0 /\ sleeps = <<>>
  /\ naps \in Naps /\ jumps \in Jumps
  /\ pc = [s \in Sleeper |-> "runs"] /\ due = [s \in Sleeper |-> 0]
  /\ step = [x \in Adjuster |-> "idle"] /\ goal = [x \in Adjuster |-> Unknown]
  /\ wakes \in [Adjuster -> {CHOOSE s \in Sleeper : TRUE}]
  /\ crossed = FALSE

-----------------------------------------------------------------------------
(* sleep; a nap of no time is over at once.                                  *)
Sleep(s) ==
  /\ pc[s] = "runs" /\ naps[s] # <<>>
  /\ naps' = [naps EXCEPT ![s] = Tail(@)]
  /\ due' = [due EXCEPT ![s] = instant + Head(naps[s])]
  /\ IF Head(naps[s]) > 0
       THEN /\ sleeps' = <<<<instant + Head(naps[s]), s>>>> \o sleeps
            /\ pc' = [pc EXCEPT ![s] = "waits"]
       ELSE UNCHANGED <<sleeps, pc>>
  /\ UNCHANGED <<instant, adjusters, crossed>>

Resume(s) ==
  /\ \/ pc[s] = "woken" /\ pc' = [pc EXCEPT ![s] = "runs"]
     \/ /\ pc[s] = "runs" /\ naps[s] = <<>>
        /\ pc' = [pc EXCEPT ![s] = "ended"]
  /\ UNCHANGED <<instant, sleeps, naps, due, adjusters, crossed>>

-----------------------------------------------------------------------------
(* adjust or setTime, and run.                                              *)

Adjust(x) ==
  /\ step[x] = "idle" /\ jumps[x] # <<>>
  /\ step' = [step EXCEPT ![x] = "awaits"]
  /\ crossed' = (crossed \/ \E y \in Adjuster : step[y] # "idle")
  /\ UNCHANGED <<instant, sleeps, sleepers, jumps, goal, wakes>>

(* Seeded bug: the fibers just woken are not waited for.                      *)
AtOnce == TRUE

(* awaitSuspended, which asks for the status of all fibers until it does not   *)
(* change.                                                                  *)
AllSuspended == \A s \in Sleeper : pc[s] \in {"waits", "ended"}

AwaitSuspended(x) ==
  /\ step[x] = "awaits" /\ AllSuspended
  /\ step' = [step EXCEPT ![x] = "modifies"]
  /\ UNCHANGED <<instant, sleeps, sleepers, jumps, goal, wakes, crossed>>

(* Of those that end first, the one that began to sleep last.                 *)
NextSleep ==
  CHOOSE i \in DOMAIN sleeps :
    /\ \A j \in DOMAIN sleeps : sleeps[i][1] <= sleeps[j][1]
    /\ \A j \in 1..(i - 1) : sleeps[i][1] < sleeps[j][1]

(* Where it goes, once it looks; from then on it stays with that.              *)
Target(x) ==
  LET jump == Head(jumps[x])
  IN IF goal[x] # Unknown THEN goal[x]
     ELSE IF jump[1] = "adjust" THEN instant + jump[2] ELSE jump[2]

Modify(x) ==
  /\ step[x] = "modifies"
  /\ LET end == Target(x) IN
       IF sleeps # <<>> /\ sleeps[NextSleep][1] <= end
         THEN /\ instant' = sleeps[NextSleep][1]
              /\ wakes' = [wakes EXCEPT ![x] = sleeps[NextSleep][2]]
              /\ sleeps' = RemoveAt(sleeps, NextSleep)
              /\ goal' = [goal EXCEPT ![x] = end]
              /\ step' = [step EXCEPT ![x] = "wakes"]
              /\ UNCHANGED jumps
         ELSE /\ instant' = end
              /\ jumps' = [jumps EXCEPT ![x] = Tail(@)]
              /\ goal' = [goal EXCEPT ![x] = Unknown]
              /\ step' = [step EXCEPT ![x] = "idle"]
              /\ UNCHANGED <<sleeps, wakes>>
  /\ UNCHANGED <<sleepers, crossed>>

(* deferredSucceed, then run again.                                          *)
Wake(x) ==
  /\ step[x] = "wakes"
  /\ pc' = [pc EXCEPT ![wakes[x]] = "woken"]
  /\ step' = [step EXCEPT ![x] = "awaits"]
  /\ UNCHANGED <<instant, sleeps, naps, due, jumps, goal, wakes, crossed>>

-----------------------------------------------------------------------------
SleeperStep(s) == Sleep(s) \/ Resume(s)
AdjusterStep(x) == Adjust(x) \/ AwaitSuspended(x) \/ Modify(x) \/ Wake(x)
Next ==
  \/ \E s \in Sleeper : SleeperStep(s)
  \/ \E x \in Adjuster : AdjusterStep(x)

Spec == Init /\ [][Next]_vars

-----------------------------------------------------------------------------
(* Who was woken goes on at the time it asked for, and no time passes until it *)
(* sleeps again or ends, unless two fibers move the clock at once.            *)
OnTime ==
  ~crossed => \A s \in Sleeper : pc[s] = "woken" => instant = due[s]
NoTimePasses ==
  ~crossed => \A s \in Sleeper : pc[s] = "runs" /\ naps[s] # <<>> => instant = due[s]

(* Who sleeps has time left, except while somebody is at work on that.         *)
NobodyOversleeps ==
  (\A x \in Adjuster : step[x] = "idle") =>
    \A i \in DOMAIN sleeps : sleeps[i][1] > instant

TimeIsKept == OnTime /\ NoTimePasses /\ NobodyOversleeps

(* In the end the clock was moved, and whoever still sleeps sleeps longer.     *)
Woken ==
  /\ \A x \in Adjuster : step[x] = "idle" /\ jumps[x] = <<>>
  /\ \A s \in Sleeper : pc[s] # "ended" => pc[s] = "waits" /\ due[s] > instant
=============================================================================
