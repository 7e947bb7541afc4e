---------------------------- MODULE Transitioner ----------------------------
(***************************************************************************)
(* The transitioner service (transitioner.js): it polls Moray for pending  *)
(* recovery configuration transitions and runs the oldest one, in batches  *)
(* of compute nodes, through tasks that CNAPI hands to the cn-agents.      *)
(*                                                                         *)
(* Operators create and cancel transitions meanwhile, the service may die  *)
(* between any two calls and be restarted by SMF, and a call to Moray may  *)
(* fail.  An update of a transition is a get and a put under the etag of   *)
(* what was got (recovery-configuration-transition.js 214-280): the put    *)
(* fails when somebody else wrote in between.                              *)
(***************************************************************************)
EXTENDS Naturals, FiniteSets

CONSTANTS
  Services,        \* instances of the transitioner service
  Nodes,           \* compute nodes that have a PIV token
  Configs,         \* recovery configurations
  Names,           \* the kinds of transitions operators ask for
  Droppable,       \* nodes whose agents may answer with a task that failed
  Concurrency,     \* nodes of a batch
  MaxTransitions,  \* bound: transitions ever created
  MaxCrashes,      \* bound: deaths of a service
  MaxFaults,       \* bound: failed calls to Moray
  Nil              \* no transition, no context

Transitions == 1 .. MaxTransitions  \* in the order of their creation

(* A row of the transitions bucket; errs are the nodes whose errors show.   *)
Row == [config : Configs, name : Names, targets : SUBSET Nodes,
        standalone : BOOLEAN, started : BOOLEAN, finished : BOOLEAN,
        aborted : BOOLEAN, completed : SUBSET Nodes, errs : SUBSET Nodes,
        lockedBy : Services \cup {Nil}]

ASSUME NamesAssumption == Names \subseteq {"stage", "unstage", "activate", "deactivate"}
ASSUME NodesAssumption == IsFiniteSet(Nodes) /\ Nodes # {} /\ Droppable \subseteq Nodes
ASSUME BoundsAssumption ==
  /\ Concurrency \in Nat \ {0}
  /\ MaxTransitions \in Nat /\ MaxCrashes \in Nat /\ MaxFaults \in Nat
ASSUME NilAssumption == Nil \notin Transitions /\ Nil \notin Row

VARIABLES
  trs,         \* the transitions bucket: the row of each transition or Nil
  etag,        \* writes made so far to each row
  config,      \* which of staged and activated each configuration has
  agent,       \* per transition and node: has the agent got, done its task?
  cancelling,  \* transitions a cancel request has found and not yet aborted
  pc,          \* what each service does next
  curr,        \* self.currTr of each service
  ctx,         \* the context of each service's pipeline
  crashes, faults,
  late         \* batches begun after a transition was cancelled

vars == <<trs, etag, config, agent, cancelling, pc, curr, ctx, crashes, faults, late>>

-----------------------------------------------------------------------------
(* Transitions and configurations *)

(* What getPendingTransitions lists: aborted ones are not listed, whether   *)
(* or not they have finished.                                               *)
Open(i) == trs[i] # Nil /\ ~trs[i].finished /\ ~trs[i].aborted

State(c) ==
  IF "staged" \notin config[c] THEN "created"
  ELSE IF "activated" \notin config[c] THEN "staged"
  ELSE "active"

(* RECOVERY_CONFIGURATION_STATIC_STATES *)
ValidTransitions(state) ==
  CASE state = "created" -> {"stage"}
    [] state = "staged"  -> {"stage", "unstage", "activate"}
    [] state = "active"  -> {"activate", "deactivate"}

EffectSwapped(name, marks) ==  \* mutant of Effect
  IF name = "stage" THEN marks \cup {"staged"} ELSE marks \ {"activated"}

(* changeRecoveryConfigurationState: the fields it sets or removes.         *)
Effect(name, marks) ==
  CASE name = "stage"      -> marks \cup {"staged"}
    [] name = "activate"   -> marks \cup {"activated"}
    [] name = "deactivate" -> marks \ {"activated"}
    [] OTHER               -> marks \ {"staged"}

(* A put under an etag, the one that is there or not.                       *)
Put(i, tag, row) ==
  /\ etag[i] = tag
  /\ trs' = [trs EXCEPT ![i] = row]
  /\ etag' = [etag EXCEPT ![i] = @ + 1]

Unchanged(i, tag) == etag[i] = tag

-----------------------------------------------------------------------------
(* Operators, through lib/models/fsm-transition.js *)

(* A transition of every node, or a standalone one of a single node, which  *)
(* is only for activations (or when there is no other node).                *)
Create(i, c, name) ==
  /\ trs[i] = Nil /\ \A j \in Transitions : j < i => trs[j] # Nil
  /\ name \in ValidTransitions(State(c))
  /\ \A j \in Transitions :
       Open(j) => ~(trs[j].config = c /\ trs[j].name = name)
  /\ \E targets \in {Nodes} \cup {{n} : n \in Nodes}, standalone \in BOOLEAN :
       /\ standalone => Cardinality(targets) = 1
       /\ targets # Nodes => standalone /\ name = "activate"
       /\ trs' = [trs EXCEPT ![i] =
                   [config |-> c, name |-> name, targets |-> targets,
                    standalone |-> standalone, started |-> FALSE,
                    finished |-> FALSE, aborted |-> FALSE,
                    completed |-> {}, errs |-> {}, lockedBy |-> Nil]]
  /\ UNCHANGED <<etag, config, agent, cancelling, pc, curr, ctx, crashes, faults, late>>

(* A cancel lists the open transitions of a configuration, takes the first  *)
CancelList(i) ==
  /\ Open(i)
  /\ \A j \in Transitions : Open(j) /\ trs[j].config = trs[i].config => i <= j
  /\ cancelling' = cancelling \cup {i}
  /\ UNCHANGED <<trs, etag, config, agent, pc, curr, ctx, crashes, faults, late>>

(* ... and marks it aborted, even when it has finished in the meantime.     *)
CancelPut(i) ==
  /\ i \in cancelling
  /\ Put(i, etag[i], [trs[i] EXCEPT !.aborted = TRUE])
  /\ cancelling' = cancelling \ {i}
  /\ UNCHANGED <<config, agent, pc, curr, ctx, crashes, faults, late>>

(* The agent of a node carries out the task it was given, maybe so late     *)
(* that nobody waits for it any more.                                       *)
AgentDoes(i, n) ==
  /\ agent[i][n] = "given"
  /\ agent' = [agent EXCEPT ![i][n] = "done"]
  /\ UNCHANGED <<trs, etag, config, cancelling, pc, curr, ctx, crashes, faults, late>>

-----------------------------------------------------------------------------
(* The service *)

Goto(s, label) == pc' = [pc EXCEPT ![s] = label]

NewCtx(s, c) == ctx' = [ctx EXCEPT ![s] = c]

StartOverHalf(s) ==  \* mutant of StartOver
  /\ UNCHANGED pc
  /\ curr' = [curr EXCEPT ![s] = Nil]
  /\ NewCtx(s, Nil)

StartOver(s) ==
  /\ Goto(s, "idle")
  /\ curr' = [curr EXCEPT ![s] = Nil]
  /\ NewCtx(s, Nil)

AllTargets(row) == row.targets  \* mutant of PendingTargets

DoneTargets(row) == row.targets \cap row.completed  \* mutant of PendingTargets

(* The targets that are not recorded as completed (alreadyDone).            *)
PendingTargets(row) == row.targets \ row.completed

(* getPendingTransitions picks the oldest; the steps up to lockBeforeRun    *)
(* only read, and skipAlreadyTransitionedTokens never skips any.  With no   *)
(* pending target createRecoveryTokens throws, and the process dies.        *)
List(s) ==
  /\ pc[s] = "idle"
  /\ \E i \in Transitions :
       /\ Open(i) /\ \A j \in Transitions : Open(j) => i <= j
       /\ IF PendingTargets(trs[i]) = {}
          THEN StartOver(s)
          ELSE /\ curr' = [curr EXCEPT ![s] = i]
               /\ NewCtx(s, [tr |-> i, etag |-> etag[i], batch |-> {},
                             pending |-> PendingTargets(trs[i]),
                             completed |-> {}, errs |-> {}])
               /\ Goto(s, "lock")
  /\ UNCHANGED <<trs, etag, config, agent, cancelling, crashes, faults, late>>

NoErrors(row) == {}  \* mutant of KnownErrors

(* What the batches start from: the errors of the row that was locked.      *)
KnownErrors(row) == row.errs

LockBlind(s) ==  \* mutant of Lock
  LET i == ctx[s].tr
  IN /\ pc[s] = "lock"
     /\ Put(i, etag[i], [trs[i] EXCEPT !.lockedBy = s, !.started = TRUE])
     /\ NewCtx(s, [ctx[s] EXCEPT !.completed = trs[i].completed,
                                 !.errs = KnownErrors(trs[i])])
     /\ Goto(s, "batch")
     /\ UNCHANGED <<config, agent, cancelling, curr, crashes, faults, late>>

(* lockBeforeRun puts under the etag of the row that was listed.            *)
Lock(s) ==
  LET i == ctx[s].tr
  IN /\ pc[s] = "lock"
     /\ \/ /\ Put(i, ctx[s].etag, [trs[i] EXCEPT !.lockedBy = s, !.started = TRUE])
           /\ NewCtx(s, [ctx[s] EXCEPT !.completed = trs[i].completed,
                                       !.errs = KnownErrors(trs[i])])
           /\ Goto(s, "batch")
        \/ /\ ~Unchanged(i, ctx[s].etag)
           /\ Goto(s, "abort")
           /\ UNCHANGED <<trs, etag, ctx>>
     /\ UNCHANGED <<config, agent, cancelling, curr, crashes, faults, late>>

(* doBatch posts a task for each of the next nodes; CNAPI may refuse some.  *)
StartBatch(s) ==
  LET i == ctx[s].tr
  IN /\ pc[s] = "batch"
     /\ \E batch \in SUBSET ctx[s].pending :
          /\ \/ Cardinality(batch) = Concurrency
             \/ batch = ctx[s].pending /\ Cardinality(batch) < Concurrency
          /\ \E given \in SUBSET batch :
               agent' = [agent EXCEPT ![i] =
                          [n \in Nodes |-> IF n \in given /\ @[n] = "none"
                                           THEN "given" ELSE @[n]]]
          /\ NewCtx(s, [ctx[s] EXCEPT !.batch = batch, !.pending = @ \ batch])
     /\ late' = [late EXCEPT ![i] = IF trs[i].aborted THEN @ + 1 ELSE @]
     /\ Goto(s, "tasks")
     /\ UNCHANGED <<trs, etag, config, cancelling, curr, crashes, faults>>

(* The errors a stored transition still shows.  An Error of the service     *)
(* itself ("Unexpected task status") has no enumerable property: it is      *)
(* stored as {}, and later dropped as empty.  Those of CNAPI's client stay. *)
Shown(failed, dropped) == failed \ dropped

(* Every task of the batch has completed, failed, or been waited for long   *)
(* enough (CNAPI_WAIT_TASK_TIMEOUT); then the update gets the row.          *)
BatchEnds(s) ==
  LET i == ctx[s].tr
  IN /\ pc[s] = "tasks"
     /\ \E failed \in SUBSET ctx[s].batch :
        \E dropped \in SUBSET {n \in failed \cap Droppable : agent[i][n] = "given"} :
          /\ \A n \in ctx[s].batch \ failed : agent[i][n] = "done"
          /\ NewCtx(s, [ctx[s] EXCEPT !.errs = @ \cup Shown(failed, dropped),
                                      !.etag = etag[i]])
     /\ Goto(s, "record")
     /\ UNCHANGED <<trs, etag, config, agent, cancelling, curr, crashes, faults, late>>

OnlyBatch(c) == c.batch  \* mutant of Recorded

Recorded(c) == c.completed \cup c.batch

NeverStops(row) == FALSE  \* mutant of Stops

Stops(row) == row.aborted

(* batchCb records the batch, and stops when the row says aborted.          *)
RecordBatch(s) ==
  LET i    == ctx[s].tr
      done == Recorded(ctx[s])
  IN /\ pc[s] = "record"
     /\ \/ /\ Put(i, ctx[s].etag, [trs[i] EXCEPT !.completed = done,
                                                 !.errs = ctx[s].errs])
           /\ IF Stops(trs[i])
              THEN Goto(s, "idle") /\ NewCtx(s, Nil)
              ELSE /\ NewCtx(s, [ctx[s] EXCEPT !.completed = done])
                   /\ Goto(s, IF ctx[s].pending = {} THEN "complete" ELSE "batch")
        \/ /\ ~Unchanged(i, ctx[s].etag)
           /\ Goto(s, "abort")
           /\ UNCHANGED <<trs, etag, ctx>>
     /\ UNCHANGED <<config, agent, cancelling, curr, crashes, faults, late>>

(* completeTransition: a get and a put.                                     *)
CompleteGet(s) ==
  /\ pc[s] = "complete"
  /\ NewCtx(s, [ctx[s] EXCEPT !.etag = etag[ctx[s].tr]])
  /\ Goto(s, "finish")
  /\ UNCHANGED <<trs, etag, config, agent, cancelling, curr, crashes, faults, late>>

CompletePut(s) ==
  LET i == ctx[s].tr
  IN /\ pc[s] = "finish"
     /\ \/ /\ Put(i, ctx[s].etag, [trs[i] EXCEPT !.finished = TRUE])
           /\ NewCtx(s, [ctx[s] EXCEPT !.errs = trs[i].errs])
           /\ Goto(s, "config")
        \/ /\ ~Unchanged(i, ctx[s].etag)
           /\ Goto(s, "abort")
           /\ UNCHANGED <<trs, etag, ctx>>
     /\ UNCHANGED <<config, agent, cancelling, curr, crashes, faults, late>>

DespiteErrors(row, errs) == ~row.standalone  \* mutant of MayChange

(* When the configuration changes: not for a standalone transition, nor     *)
(* when errors are left.                                                    *)
MayChange(row, errs) == ~row.standalone /\ errs = {}

ChangeConfig(s) ==
  LET row == trs[ctx[s].tr]
  IN /\ pc[s] = "config"
     /\ config' = IF MayChange(row, ctx[s].errs)
                  THEN [config EXCEPT ![row.config] = Effect(row.name, @)]
                  ELSE config
     /\ Goto(s, "expire")
     /\ UNCHANGED <<trs, etag, agent, cancelling, curr, ctx, crashes, faults, late>>

(* expireUnusedRecoveryConfigs, then the next transition right away.        *)
ExpireUnused(s) ==
  /\ pc[s] = "expire"
  /\ Goto(s, "idle") /\ NewCtx(s, Nil)
  /\ UNCHANGED <<trs, etag, config, agent, cancelling, curr, crashes, faults, late>>

(* run, after an error: it aborts self.currTr, which is not reset by a      *)
(* transition that went well, and without one does not poll any more.       *)
AbortGet(s) ==
  /\ pc[s] = "abort"
  /\ IF curr[s] = Nil
     THEN Goto(s, "stuck") /\ NewCtx(s, Nil)
     ELSE /\ Goto(s, "aborting")
          /\ NewCtx(s, [tr |-> curr[s], etag |-> etag[curr[s]], batch |-> {},
                        pending |-> {}, completed |-> {}, errs |-> {}])
  /\ UNCHANGED <<trs, etag, config, agent, cancelling, curr, crashes, faults, late>>

AbortPut(s) ==
  LET i == ctx[s].tr
  IN /\ pc[s] = "aborting"
     /\ \/ Put(i, ctx[s].etag, [trs[i] EXCEPT !.aborted = TRUE, !.finished = TRUE])
        \/ ~Unchanged(i, ctx[s].etag) /\ UNCHANGED <<trs, etag>>
     /\ StartOver(s)
     /\ UNCHANGED <<config, agent, cancelling, crashes, faults, late>>

Step(s) ==
  \/ List(s) \/ Lock(s) \/ StartBatch(s) \/ BatchEnds(s) \/ RecordBatch(s)
  \/ CompleteGet(s) \/ CompletePut(s) \/ ChangeConfig(s) \/ ExpireUnused(s)
  \/ AbortGet(s) \/ AbortPut(s)

(* A call to Moray fails.  The get and the put that abort a transition only *)
(* log their error.                                                         *)
Fault(s) ==
  /\ pc[s] \notin {"tasks", "stuck"} /\ faults < MaxFaults
  /\ pc[s] = "abort" => curr[s] # Nil
  /\ faults' = faults + 1
  /\ IF pc[s] \in {"abort", "aborting"} THEN StartOver(s)
     ELSE Goto(s, "abort") /\ UNCHANGED <<curr, ctx>>
  /\ UNCHANGED <<trs, etag, config, agent, cancelling, crashes, late>>

(* The process dies, and SMF starts it again.                               *)
Crash(s) ==
  /\ crashes < MaxCrashes
  /\ crashes' = crashes + 1
  /\ StartOver(s)
  /\ UNCHANGED <<trs, etag, config, agent, cancelling, faults, late>>

-----------------------------------------------------------------------------
Init ==
  /\ trs = [i \in Transitions |-> Nil]
  /\ etag = [i \in Transitions |-> 0]
  /\ config = [c \in Configs |-> {}]
  /\ agent = [i \in Transitions |-> [n \in Nodes |-> "none"]]
  /\ cancelling = {}
  /\ pc = [s \in Services |-> "idle"]
  /\ curr = [s \in Services |-> Nil]
  /\ ctx = [s \in Services |-> Nil]
  /\ crashes = 0 /\ faults = 0
  /\ late = [i \in Transitions |-> 0]

Next ==
  \/ \E i \in Transitions, c \in Configs, name \in Names : Create(i, c, name)
  \/ \E i \in Transitions : CancelList(i) \/ CancelPut(i)
  \/ \E i \in Transitions, n \in Nodes : AgentDoes(i, n)
  \/ \E s \in Services : Step(s) \/ Fault(s) \/ Crash(s)

Spec == Init /\ [][Next]_vars

(* The service goes on as long as it can: every call it makes is answered,  *)
(* waitTask times out, and pollInterval elapses.  Nothing is asked of the   *)
(* operators or of the agents.                                              *)
FairSpec == Spec /\ \A s \in Services : WF_vars(Step(s))

-----------------------------------------------------------------------------
Context == [tr : Transitions, etag : Nat, batch : SUBSET Nodes,
            pending : SUBSET Nodes, completed : SUBSET Nodes, errs : SUBSET Nodes]

Labels == {"idle", "lock", "batch", "tasks", "record", "complete", "finish",
           "config", "expire", "abort", "aborting", "stuck"}

(* Steps of the pipeline that act on the transition of the context.         *)
Running(s) == pc[s] \in Labels \ {"idle", "abort", "stuck"}

(* Types; in particular a service that acts on a transition has one, and    *)
(* that transition exists (transitioner.js 316-333).                        *)
TypeOK ==
  /\ trs \in [Transitions -> Row \cup {Nil}]
  /\ etag \in [Transitions -> Nat]
  /\ config \in [Configs -> SUBSET {"staged", "activated"}]
  /\ agent \in [Transitions -> [Nodes -> {"none", "given", "done"}]]
  /\ cancelling \subseteq {i \in Transitions : trs[i] # Nil}
  /\ pc \in [Services -> Labels]
  /\ curr \in [Services -> Transitions \cup {Nil}]
  /\ DOMAIN ctx = Services
  /\ \A s \in Services :
       /\ curr[s] # Nil => trs[curr[s]] # Nil
       /\ Running(s) => ctx[s] \in Context /\ trs[ctx[s].tr] # Nil
  /\ crashes \in Nat /\ faults \in Nat
  /\ late \in [Transitions -> Nat]

(* A configuration only changes state when the agent of every node that the *)
(* transition targets has done its task (transitioner.js 811-826), whatever *)
(* crashes, failed calls, timeouts and cancellations came before.           *)
StateFollowsNodes ==
  [][\A c \in Configs : config'[c] # config[c] =>
       \E s \in Services :
         LET i == ctx[s].tr
         IN /\ pc[s] = "config" /\ trs[i].config = c
            /\ \A n \in trs[i].targets : agent[i][n] = "done"]_vars

(* What a batch recorded stays recorded: a service that starts over does    *)
(* not forget the nodes that are done, nor their errors (transitioner.js    *)
(* 385-389, 630-637, 733-745).                                              *)
ProgressIsKept ==
  [][\A i \in Transitions : trs[i] # Nil =>
       /\ trs[i].completed \subseteq trs'[i].completed
       /\ trs[i].errs \subseteq trs'[i].errs]_vars

(* A node that is recorded as completed gets no task for that transition    *)
(* again (transitioner.js 383-388).                                         *)
NoRepeatedTask ==
  [][\A s \in Services :
       pc[s] = "batch" /\ pc'[s] = "tasks" =>
         ctx'[s].batch \cap trs[ctx[s].tr].completed = {}]_vars

(* Whoever locks a transition finds it as it was listed, however many calls *)
(* and services came between (transitioner.js 308-333, 376-391, 576-624):   *)
(* still open, with the same targets left; and of all services that listed  *)
(* it so, nobody else will get the lock ("so no other locker attempts to    *)
(* run it", 580-581).                                                       *)
LocksWhatWasListed ==
  [][\A s \in Services : pc[s] = "lock" /\ pc'[s] = "batch" =>
       LET i == ctx[s].tr
       IN /\ Open(i) /\ ctx[s].pending = PendingTargets(trs[i])
          /\ \A t \in Services \ {s} :
               pc[t] = "lock" /\ ctx[t].tr = i => ctx'[t].etag < etag'[i]]_vars

(* Canceling may cause an early finish (fsm-transition.js 88-91): the       *)
(* service begins at most one more batch of a canceled transition, since it *)
(* looks at aborted after each batch and locks only what it has listed.     *)
CancelStops == \A i \in Transitions : late[i] <= 1

(* Every transition is finished or aborted in the end: the oldest first,    *)
(* and none waits for ever behind another.                                  *)
Settles ==
  \A i \in Transitions :
    trs[i] # Nil ~> trs[i] # Nil /\ (trs[i].finished \/ trs[i].aborted)

(* A transition that finished shows in its configuration: STAGED means that *)
(* the transition has finished and that staged is set, and so for ACTIVE    *)
(* (fsm-transition.js 46-48, 57-59).                                        *)
Succeeded(i, name, c) ==
  /\ trs[i] # Nil
  /\ trs[i].name = name /\ trs[i].config = c /\ ~trs[i].standalone
  /\ trs[i].finished /\ ~trs[i].aborted /\ trs[i].errs = {}

TakesEffect ==
  \A i \in Transitions, c \in Configs :
    /\ Succeeded(i, "stage", c) ~> "staged" \in config[c]
    /\ Succeeded(i, "activate", c) ~> "activated" \in config[c]

(* The transitions as Rollout sees them.                                    *)
Phase(i) ==
  IF trs[i] = Nil THEN "none"
  ELSE IF trs[i].aborted THEN "aborted"
  ELSE IF trs[i].finished THEN "finished"
  ELSE "open"

Rollouts == INSTANCE Rollout WITH
  phase   <- [i \in Transitions |-> Phase(i)],
  targets <- [i \in Transitions |-> IF trs[i] = Nil THEN {} ELSE trs[i].targets],
  done    <- [i \in Transitions |-> IF trs[i] = Nil THEN {} ELSE trs[i].completed]

(* A single service, with its crashes, its failed calls and the operators'  *)
(* cancellations, does to a transition only what Rollout allows: in         *)
(* particular it finishes none that misses a target (transitioner.js        *)
(* 629-804).                                                                *)
ImplementsRollout == Rollouts!Spec
=============================================================================
