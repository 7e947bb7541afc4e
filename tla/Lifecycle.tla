----------------------------- MODULE Lifecycle -----------------------------
(***************************************************************************)
(* How the two kinds of processes come up, wait and go: the API servers    *)
(* (server.js, lib/app.js), which create the buckets in Moray before they  *)
(* serve, and the transitioner (transitioner.js), which is started beside  *)
(* them, polls with a timer and prunes with another one, and is sent       *)
(* signals by SMF (smf/manifests).                                         *)
(*                                                                         *)
(* What a run of the transitioner does to a transition is the subject of   *)
(* Transitioner: here it ends well, fails, or takes the process with it.   *)
(***************************************************************************)
EXTENDS Naturals, FiniteSets

CONSTANTS
  Servers,    \* processes of the API server
  Buckets,    \* buckets of the models
  Runs,       \* pipelines that the transitioner could have in flight
  MaxOpen,    \* bound: open transitions
  MaxFaults,  \* bound: calls that fail
  MaxStarts   \* bound: processes ever started

ASSUME LifecycleAssumption ==
  /\ Runs # {}
  /\ MaxOpen \in Nat /\ MaxFaults \in Nat /\ MaxStarts \in Nat

VARIABLES
  buckets,  \* the buckets that Moray has
  server,   \* what each server does
  made,     \* how far each server is with each bucket
  open,     \* open transitions
  proc,     \* what the transitioner does
  run,      \* its pipelines
  timer,    \* self.runTimeout is set
  currTr,   \* self.currTr: none, one that is open, or one that is settled
  prune,    \* its other loop
  faults, starts

serverVars == <<server, made>>
transitionerVars == <<proc, run, timer, currTr, prune>>
vars == <<buckets, serverVars, open, transitionerVars, faults, starts>>

Fails == faults < MaxFaults /\ faults' = faults + 1

Works == UNCHANGED faults

-----------------------------------------------------------------------------
(* The API servers *)

Enter(k, state) == server' = [server EXCEPT ![k] = state]

Progress(k, b, state) == made' = [made EXCEPT ![k][b] = state]

ServerStarts(k) ==
  /\ server[k] = "down" /\ starts < MaxStarts
  /\ starts' = starts + 1
  /\ Enter(k, "connecting")
  /\ UNCHANGED <<buckets, made, open, transitionerVars, faults>>

(* initMoray.  start hands an error to its callback, which ignores it: the  *)
(* process goes on and answers that it is still initializing.               *)
ServerConnects(k) ==
  /\ server[k] = "connecting"
  /\ \/ Works /\ Enter(k, "backoff")
     \/ Fails /\ Enter(k, "unconnected")
  /\ UNCHANGED <<buckets, made, open, transitionerVars, starts>>

(* initBuckets: after the delay models.init looks at all the buckets.       *)
InitModels(k) ==
  /\ server[k] = "backoff"
  /\ Enter(k, "init")
  /\ made' = [made EXCEPT ![k] = [b \in Buckets |-> "get"]]
  /\ UNCHANGED <<buckets, open, transitionerVars, faults, starts>>

(* initBucket creates the bucket when it is not there.                      *)
GetBucket(k, b) ==
  /\ server[k] = "init" /\ made[k][b] = "get"
  /\ \/ Works /\ Progress(k, b, IF b \in buckets THEN "ok" ELSE "create")
     \/ Fails /\ Progress(k, b, "failed")
  /\ UNCHANGED <<buckets, server, open, transitionerVars, starts>>

(* Another server may have created it meanwhile, then Moray accepts or      *)
(* refuses; a call that fails may have created it.                          *)
CreateBucket(k, b) ==
  /\ server[k] = "init" /\ made[k][b] = "create"
  /\ \/ /\ Works
        /\ \/ Progress(k, b, "ok")
           \/ b \in buckets /\ Progress(k, b, "failed")
        /\ buckets' = buckets \cup {b}
     \/ /\ Fails /\ Progress(k, b, "failed")
        /\ buckets' \in {buckets, buckets \cup {b}}
  /\ UNCHANGED <<server, open, transitionerVars, starts>>

AllAnswered(k) == \A b \in Buckets : made[k][b] \in {"ok", "failed"}

SomeMade(k) == \E b \in Buckets : made[k][b] = "ok"  \* mutant of AllMade

AllMade(k) == \A b \in Buckets : made[k][b] = "ok"

NoRetry == "unconnected"  \* mutant of Retry

(* Where the server goes when a bucket failed: to the backoff.              *)
Retry == "backoff"

InitDone(k) ==
  /\ server[k] = "init" /\ AllAnswered(k)
  /\ Enter(k, IF AllMade(k) THEN "running" ELSE Retry)
  /\ UNCHANGED <<buckets, made, open, transitionerVars, faults, starts>>

(* A server that is running accepts a transition; checkServices refuses     *)
(* every request of another one.                                            *)
Request(k) ==
  /\ server[k] = "running" /\ open < MaxOpen
  /\ open' = open + 1
  /\ UNCHANGED <<buckets, serverVars, transitionerVars, faults, starts>>

(* SMF kills the server, or it dies.                                        *)
ServerDies(k) ==
  /\ server[k] # "down"
  /\ Enter(k, "down")
  /\ UNCHANGED <<buckets, made, open, transitionerVars, faults, starts>>

-----------------------------------------------------------------------------
(* The transitioner *)

Busy(r) == run[r] # "free"

NoRuns == [r \in Runs |-> "free"]

To(r, state) == run' = [run EXCEPT ![r] = state]

(* runTransition, in a pipeline of its own.                                 *)
Launch == \E r \in Runs : ~Busy(r) /\ To(r, "listing")

Gone ==
  /\ proc' = "down" /\ run' = NoRuns /\ timer' = FALSE
  /\ currTr' = "none" /\ prune' = "off"

(* Its service depends on that of the API server, which is online as soon   *)
(* as a process has been started, whatever that one does.                   *)
TransitionerStarts ==
  /\ proc = "down" /\ starts < MaxStarts
  /\ starts' = starts + 1
  /\ proc' = "connecting"
  /\ UNCHANGED <<buckets, serverVars, open, run, timer, currTr, prune, faults>>

(* start: when it has connected, prune and run begin; when it cannot, it    *)
(* stops and throws.                                                        *)
TransitionerConnects ==
  /\ proc = "connecting"
  /\ \/ /\ Works /\ Launch
        /\ proc' = "up" /\ prune' = "history"
        /\ UNCHANGED <<timer, currTr>>
     \/ Fails /\ Gone
  /\ UNCHANGED <<buckets, serverVars, open, starts>>

ForgetTimer == UNCHANGED timer  \* mutant of SetTimer

SetTimer == timer' = TRUE

(* run: an error without a current transition is only logged.               *)
ListTransitions(r) ==
  /\ run[r] = "listing"
  /\ \/ /\ Works /\ buckets = Buckets
        /\ IF open = 0
           THEN To(r, "free") /\ SetTimer /\ UNCHANGED currTr
           ELSE To(r, "working") /\ currTr' = "open" /\ UNCHANGED timer
     \/ /\ Fails \/ (Works /\ buckets # Buckets)
        /\ To(r, IF currTr = "none" THEN "free" ELSE "aborting")
        /\ UNCHANGED <<timer, currTr>>
  /\ UNCHANGED <<buckets, serverVars, open, proc, prune, starts>>

(* The pipeline ends: well, or with the transition canceled, and then the   *)
(* next one is looked for at once; by a call that failed; or it throws.     *)
Work(r) ==
  /\ run[r] = "working"
  /\ \/ /\ Works /\ To(r, "listing")
        /\ open' = open - 1 /\ currTr' = "settled"
        /\ UNCHANGED <<proc, timer, prune>>
     \/ /\ Fails /\ To(r, "aborting")
        /\ UNCHANGED <<open, proc, timer, currTr, prune>>
     \/ Fails /\ Gone /\ UNCHANGED open
  /\ UNCHANGED <<buckets, serverVars, starts>>

KeepCurrent == UNCHANGED currTr  \* mutant of ForgetCurrent

ForgetCurrent == currTr' = "none"

(* The current transition, maybe one that was settled long ago, is aborted. *)
Abort(r) ==
  /\ run[r] = "aborting"
  /\ \/ Works /\ open' = IF currTr = "open" THEN open - 1 ELSE open
     \/ Fails /\ UNCHANGED open
  /\ To(r, "free") /\ SetTimer /\ ForgetCurrent
  /\ UNCHANGED <<buckets, serverVars, proc, prune, starts>>

KeepTimer == UNCHANGED timer  \* mutant of ClearTimer

(* runTransition clears the timer, whoever called it.                       *)
ClearTimer == timer' = FALSE

(* pollInterval elapses, or SMF sends a hangup to restart the service: both *)
(* begin a run, the latter only when the timer is set.                      *)
Poll ==
  /\ timer
  /\ ClearTimer /\ Launch
  /\ UNCHANGED <<buckets, serverVars, open, proc, currTr, prune, faults, starts>>

StopPruning == "off"  \* mutant of NextPrune

(* What follows a prune, whether its calls went well or not.                *)
NextPrune == "wait"

Prune ==
  /\ \/ prune = "history" /\ (Works \/ Fails) /\ prune' = "tokens"
     \/ prune = "tokens" /\ (Works \/ Fails) /\ prune' = NextPrune
     \/ prune = "wait" /\ Works /\ prune' = "history"
  /\ UNCHANGED <<buckets, serverVars, open, proc, run, timer, currTr, starts>>

(* SIGINT stops whatever is in flight at once, as a death does.             *)
TransitionerDies ==
  /\ proc # "down"
  /\ Gone
  /\ UNCHANGED <<buckets, serverVars, open, faults, starts>>

-----------------------------------------------------------------------------
Init ==
  /\ buckets = {}
  /\ server = [k \in Servers |-> "down"]
  /\ made = [k \in Servers |-> [b \in Buckets |-> "get"]]
  /\ open = 0
  /\ proc = "down" /\ run = NoRuns /\ timer = FALSE
  /\ currTr = "none" /\ prune = "off"
  /\ faults = 0 /\ starts = 0

Initialize(k) ==
  \/ ServerConnects(k) \/ InitModels(k) \/ InitDone(k)
  \/ \E b \in Buckets : GetBucket(k, b) \/ CreateBucket(k, b)

RunStep(r) == ListTransitions(r) \/ Work(r) \/ Abort(r)

Next ==
  \/ \E k \in Servers :
       ServerStarts(k) \/ Initialize(k) \/ Request(k) \/ ServerDies(k)
  \/ TransitionerStarts \/ TransitionerConnects \/ TransitionerDies
  \/ \E r \in Runs : RunStep(r)
  \/ Poll \/ Prune

Spec == Init /\ [][Next]_vars

(* Every call is answered and every timer elapses.                          *)
Fairness ==
  /\ \A k \in Servers : WF_vars(Initialize(k))
  /\ \A r \in Runs : WF_vars(RunStep(r))
  /\ WF_vars(TransitionerConnects) /\ WF_vars(Poll) /\ WF_vars(Prune)

FairSpec == Spec /\ Fairness

-----------------------------------------------------------------------------
(* Types; in particular a run that works on a transition has noted which,   *)
(* and what is noted as open is (transitioner.js 329-335, 270-287).         *)
TypeOK ==
  /\ buckets \subseteq Buckets
  /\ server \in [Servers -> {"down", "connecting", "unconnected", "backoff",
                             "init", "running"}]
  /\ made \in [Servers -> [Buckets -> {"get", "create", "ok", "failed"}]]
  /\ open \in Nat
  /\ proc \in {"down", "connecting", "up"}
  /\ run \in [Runs -> {"free", "listing", "working", "aborting"}]
  /\ timer \in BOOLEAN
  /\ currTr \in {"none", "open", "settled"}
  /\ prune \in {"off", "history", "tokens", "wait"}
  /\ faults \in Nat /\ starts \in Nat
  /\ \A r \in Runs : run[r] = "working" => currTr = "open"
  /\ currTr = "open" => open > 0

(* A server that serves has all its buckets, however the attempts to create *)
(* them failed and whoever created them, and so has the service when it     *)
(* works on a transition (app.js 85-93, 180-208; moray.js 136-195).         *)
ServesFromBuckets ==
  /\ \A k \in Servers : server[k] = "running" => buckets = Buckets
  /\ open > 0 => buckets = Buckets

(* The service has one run in flight at most, and none while its timer is   *)
(* set: hangups, timers and errors that meet start no second one, although  *)
(* nothing but the timer is looked at (transitioner.js 258-300, 910-917).   *)
OneRun ==
  /\ \A r, q \in Runs : Busy(r) /\ Busy(q) => r = q
  /\ timer => \A r \in Runs : ~Busy(r)

(* "If there's no timeout set, it's already running transitions"            *)
(* (transitioner.js 912-913): a hangup that is ignored was not needed.      *)
NoTimerMeansRunning == proc = "up" /\ ~timer => \E r \in Runs : Busy(r)

(* A server that has connected runs in the end, whatever calls fail before  *)
(* (app.js 180-208).                                                        *)
ServerComesUp ==
  \A k \in Servers : server[k] \in {"backoff", "init"} ~> server[k] \in {"running", "down"}

(* A run that took up a transition leads back to polling: the service only  *)
(* stops polling when the list itself fails and no transition is current    *)
(* (transitioner.js 262-298).                                               *)
RunsComeBack ==
  \A r \in Runs :
    run[r] \in {"working", "aborting"} ~> timer \/ run[r] = "listing" \/ proc = "down"

(* Old records are pruned for ever, whatever calls fail, also when the      *)
(* service has stopped to poll (transitioner.js 213-256).                   *)
PrunesForEver == proc = "up" ~> prune = "wait" \/ proc = "down"
=============================================================================
