----------------------------- MODULE FiberTasks -----------------------------
(***************************************************************************)
(* Who runs the fibers, who forks many of them, races them and keeps track of *)
(* them: Scheduler, ForEach, Race, RaceAll and FiberMap.  They share no       *)
(* state, so in a behaviour one of them runs and the others are at rest.     *)
(***************************************************************************)
EXTENDS Scheduler

CONSTANTS Items, Limits,        \* of ForEach
          Racers,               \* of RaceAll
          Fiber, Key, NoFiber   \* of FiberMap

(* "if (target === 0) return core.unit": an empty collection forks nothing;  *)
(* "raceAll" of nothing is a defect.                                        *)
ASSUME ItemsAssumption == Items \in Nat \ {0} /\ Limits \subseteq Nat \ {0}
ASSUME RacersAssumption == Racers \in Nat \ {0}
ASSUME FiberAssumption == NoFiber \notin Fiber

VARIABLES
  n, todos, target, interrupted, results, worker, item, ok, told, processing, resumed,
  parent, signalled, tooSoon,
  kind, masked, racer, exit, stopped, winner, racing, outcome, cut, early, finished,
  shielded, runner, ending, caught, arbiter, done, fails, caller, victims, halted,
  backing, life, observed, warned, condemned, clearing, awaited, sweeping, latest, escaped

forEach == <<n, todos, target, interrupted, results, worker, item, ok, told, processing, resumed,
             parent, signalled, tooSoon>>
race == <<kind, masked, racer, exit, stopped, winner, racing, outcome, cut, early, finished>>
raceAll == <<shielded, runner, ending, caught, arbiter, done, fails, caller, victims, halted>>
fiberMap == <<backing, life, observed, warned, condemned, clearing, awaited, sweeping, latest,
              escaped>>
all == <<vars, forEach, race, raceAll, fiberMap>>

-----------------------------------------------------------------------------
SchedulerRests ==
  /\ buckets = <<>> /\ running = FALSE /\ callbacks = <<>> /\ batch = <<>> /\ depth = 0
  /\ current = NoTask /\ starving = FALSE /\ wedged = FALSE
  /\ priority = [t \in Task |-> 0] /\ age = [t \in Task |-> 1] /\ clock = 1 /\ ran = Task

E == INSTANCE ForEach

ForEachRests ==
  /\ n = 0 /\ todos = 0 /\ target = 0 /\ interrupted = TRUE /\ results = <<>>
  /\ worker = [w \in E!Worker |-> "none"] /\ item = [w \in E!Worker |-> 0]
  /\ ok = [w \in E!Worker |-> TRUE]
  /\ told = {} /\ processing = "ended" /\ resumed = "success"
  /\ parent = "failed" /\ signalled = TRUE /\ tooSoon = FALSE

R == INSTANCE Race WITH told <- stopped, parent <- racing, signalled <- cut, tooSoon <- early

RaceRests ==
  /\ kind = "race" /\ masked = TRUE /\ stopped = {} /\ winner = "left"
  /\ racer = [s \in R!Side |-> "ended"] /\ exit = [s \in R!Side |-> "failure"]
  /\ racing = "ended" /\ outcome = "failure" /\ cut = FALSE /\ early = FALSE
  /\ finished = <<"left", "right">>

A == INSTANCE RaceAll WITH masked <- shielded, racer <- runner, exit <- ending,
                           told <- caught, signalled <- halted

RaceAllRests ==
  /\ shielded = TRUE /\ halted = FALSE /\ caught = {} /\ caller = "failed"
  /\ runner = [i \in A!Racer |-> "ended"] /\ ending = [i \in A!Racer |-> "failure"]
  /\ arbiter = [i \in A!Racer |-> "ended"] /\ done = <<"failure">> /\ fails = -1
  /\ victims = [by \in 0..Racers |-> <<>>]

(* It is at rest as long as nobody uses it.                                  *)
M == INSTANCE FiberMap WITH told <- warned

-----------------------------------------------------------------------------
OthersRest == SchedulerRests /\ ForEachRests /\ RaceRests /\ RaceAllRests

AllInit ==
  /\ M!Init
  /\ \/ OthersRest
     \/ Init /\ ForEachRests /\ RaceRests /\ RaceAllRests
     \/ SchedulerRests /\ E!Init /\ RaceRests /\ RaceAllRests
     \/ SchedulerRests /\ ForEachRests /\ R!Init /\ RaceAllRests
     \/ SchedulerRests /\ ForEachRests /\ RaceRests /\ A!Init

AllNext ==
  \/ Next /\ UNCHANGED <<forEach, race, raceAll, fiberMap>>
  \/ E!Next /\ UNCHANGED <<vars, race, raceAll, fiberMap>>
  \/ R!Next /\ UNCHANGED <<vars, forEach, raceAll, fiberMap>>
  \/ A!Next /\ UNCHANGED <<vars, forEach, race, fiberMap>>
  \/ OthersRest /\ M!Next /\ UNCHANGED <<vars, forEach, race, raceAll>>

AllSpec == AllInit /\ [][AllNext]_all

(* The fairness of each of them: a caller, and a fiber among others, of        *)
(* whichever runs.                                                          *)
CallerGoesOn ==
  \/ E!CallerGoesOn /\ UNCHANGED <<vars, race, raceAll, fiberMap>>
  \/ R!ParentGoesOn /\ UNCHANGED <<vars, forEach, raceAll, fiberMap>>
  \/ A!CallerGoesOn /\ UNCHANGED <<vars, forEach, race, fiberMap>>
  \/ Starving /\ UNCHANGED <<forEach, race, raceAll, fiberMap>>
FiberGoesOn(i) ==
  \/ i \in E!Worker /\ E!WorkerGoesOn(i) /\ UNCHANGED <<vars, race, raceAll, fiberMap>>
  \/ i \in A!Racer /\ A!RacerGoesOn(i) /\ UNCHANGED <<vars, forEach, race, fiberMap>>
  \/ i \in {1, 2} /\ R!RacerGoesOn(IF i = 1 THEN "left" ELSE "right")
                  /\ UNCHANGED <<vars, forEach, raceAll, fiberMap>>
ArbiterGoesOn(i) ==
  \/ i \in A!Racer /\ A!ArbiterGoesOn(i) /\ UNCHANGED <<vars, forEach, race, fiberMap>>
  \/ i = 1 /\ E!ProcessingGoesOn /\ UNCHANGED <<vars, race, raceAll, fiberMap>>

AllFairSpec ==
  /\ AllSpec
  /\ WF_all(CallerGoesOn)
  /\ \A i \in E!Worker \cup A!Racer \cup {1, 2} : WF_all(FiberGoesOn(i)) /\ WF_all(ArbiterGoesOn(i))

-----------------------------------------------------------------------------
(* A loop, race or raceAll returns what its fibers did, and leaves none of     *)
(* them behind.                                                             *)
ResultIsTrue == E!ResultIsTrue /\ E!NobodyLeft /\ R!RaceIsWon /\ A!RaceAllIsWon

(* Once decided, it ends.                                                    *)
DecidedEnds == E!FailureEnds /\ R!RaceEnds /\ A!RaceAllEnds

(* The map knows the fibers it was given.                                     *)
FibersAreTracked == M!FibersAreTracked
=============================================================================
