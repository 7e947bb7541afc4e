------------------------------- MODULE Fleet -------------------------------
(***************************************************************************)
(* The rollout of one recovery configuration over the fleet: the request   *)
(* that chooses the targets of a transition (lib/models/fsm-transition.js  *)
(* 240-521), the PIV tokens and recovery tokens that the service fetches   *)
(* and creates for them (transitioner.js 376-517), and the agents that     *)
(* mark the recovery tokens, while PIV tokens come and go.                 *)
(*                                                                         *)
(* The module composes these with the service of Transitioner, whose steps *)
(* it takes as they are.  Requests that race on one configuration are the  *)
(* subject of Configurations; cancellations, calls to Moray that fail and  *)
(* deaths that are not of the service's own making that of Transitioner;   *)
(* recovery tokens of several configurations that of RecoveryTokens.       *)
(***************************************************************************)
EXTENDS Transitioner, Sequences

CONSTANTS
  PivTokens,  \* PIV tokens, by guid
  Cn,         \* the compute node of each PIV token, its cn_uuid
  MaxTokens,  \* bound: recovery tokens a PIV token ever has
  Limit       \* DEFAULT_LIMIT: the rows a list returns at most

ASSUME FleetAssumption ==
  /\ IsFiniteSet(PivTokens) /\ Cn \in [PivTokens -> Nodes]
  /\ MaxTokens \in Nat \ {0} /\ Limit \in Nat \ {0}
  /\ Nil \notin Nodes

VARIABLES
  life,    \* a PIV token is new, here, or gone
  toks,    \* its recovery tokens for the configuration, oldest first: marks
  req,     \* the request in flight, between its checks and its writes
  asked,   \* the PIV tokens whose nodes are the targets of a transition
  view,    \* what the pipeline of each service has fetched
  task,    \* the PIV token and recovery token named by each node's task
  steady   \* history: per transition, the PIV tokens it was requested for
           \* (Concerned), that nobody has touched but the service, and
           \* none of whose recovery tokens a list has left out

fleetVars == <<life, toks, req, asked, view, task, steady>>

-----------------------------------------------------------------------------
(* PIV tokens and their recovery tokens *)

Here == {g \in PivTokens : life[g] = "here"}

Marked(g, mark) ==
  \E k \in DOMAIN toks[g] : mark \in toks[g][k] /\ "expired" \notin toks[g][k]

(* createRecoveryToken: the tokens that are neither staged nor activated    *)
(* expire, the new one has the marks of the configuration.                  *)
WithNew(seq, marks) ==
  Append([k \in DOMAIN seq |-> IF seq[k] = {} THEN {"expired"} ELSE seq[k]], marks)

Without(G) == [i \in Transitions |-> steady[i] \ G]

(* A node registers a PIV token, with a first recovery token for this       *)
(* configuration or for another one.  Nothing keeps a node to one of them.  *)
PivAppears(g, c) ==
  /\ life[g] = "new"
  /\ life' = [life EXCEPT ![g] = "here"]
  /\ \E first \in {<<>>, <<config[c]>>} : toks' = [toks EXCEPT ![g] = first]
  /\ steady' = Without({h \in PivTokens : Cn[h] = Cn[g]})
  /\ UNCHANGED <<vars, req, asked, view, task>>

(* A PIV token is deleted or replaced, its recovery tokens go with it.      *)
PivLeaves(g) ==
  /\ life[g] = "here"
  /\ life' = [life EXCEPT ![g] = "gone"]
  /\ toks' = [toks EXCEPT ![g] = <<>>]
  /\ steady' = Without({g})
  /\ UNCHANGED <<vars, req, asked, view, task>>

(* Somebody asks for another recovery token; the last one is left for the   *)
(* service.                                                                 *)
TokenAdded(g, c) ==
  /\ life[g] = "here" /\ Len(toks[g]) < MaxTokens - 1
  /\ toks' = [toks EXCEPT ![g] = WithNew(@, config[c])]
  /\ steady' = Without({g})
  /\ UNCHANGED <<vars, life, req, asked, view, task>>

-----------------------------------------------------------------------------
(* A request for a transition *)

StagedTokens ==
  {x \in PivTokens \X (1 .. MaxTokens) :
     x[2] \in DOMAIN toks[x[1]] /\ "staged" \in toks[x[1]][x[2]]}

(* countPIVTokens, countStagedRecoveryTokens, checkValidTransition and      *)
(* getTransitions.  With a node the transition is a standalone one.         *)
Ask(c, name, node, forced) ==
  /\ req = Nil
  /\ node # Nil /\ Cardinality(Here) # 1 => name = "activate" /\ forced
  /\ name = "activate" /\ Cardinality(StagedTokens) < Cardinality(Here) => forced
  /\ name \in ValidTransitions(State(c))
  /\ \A i \in Transitions : Open(i) => trs[i].name # name
  /\ req' = [config |-> c, name |-> name, node |-> node, forced |-> forced,
             update |-> FALSE]
  /\ UNCHANGED <<vars, life, toks, asked, view, task, steady>>

(* The rows that a list without a limit of its own returns.                 *)
Listed(S) ==
  IF Cardinality(S) <= Limit THEN {S} ELSE {some \in SUBSET S : Cardinality(some) = Limit}

(* The newest recovery token, which a task will name, has expired.          *)
Spent(g) == toks[g] # <<>> /\ "expired" \in toks[g][Len(toks[g])]

(* The PIV tokens a new transition is about: those of its targets, unless   *)
(* the node has another PIV token or an older task to do, or would be asked *)
(* to stage an expired token.                                               *)
Concerned(name, targets) ==
  {g \in Here : /\ Cn[g] \in targets /\ \A h \in Here : Cn[h] = Cn[g] => h = g
                /\ \A j \in Transitions : agent[j][Cn[g]] # "given"
                /\ name = "stage" => ~Spent(g)}

(* getAllTargets and createTransition: the targets are the nodes of the PIV *)
(* tokens that are listed, one for each PIV token.  Without targets it has  *)
(* finished.                                                                *)
CreateTransition(i) ==
  /\ req # Nil /\ ~req.update
  /\ trs[i] = Nil /\ \A j \in Transitions : j < i => trs[j] # Nil
  /\ \E some \in IF req.node = Nil THEN Listed(Here) ELSE {{}} :
       LET targets == IF req.node = Nil THEN {Cn[g] : g \in some} ELSE {req.node}
           none    == targets = {}
       IN /\ trs' = [trs EXCEPT ![i] =
                      [config |-> req.config, name |-> req.name, targets |-> targets,
                       standalone |-> req.node # Nil, started |-> none,
                       finished |-> none, aborted |-> FALSE,
                       completed |-> {}, errs |-> {}, lockedBy |-> Nil]]
          /\ req' = IF none THEN [req EXCEPT !.update = TRUE] ELSE Nil
          /\ asked' = [asked EXCEPT ![i] = some]
          /\ steady' = [steady EXCEPT ![i] = Concerned(req.name, targets)]
  /\ UNCHANGED <<etag, config, agent, cancelling, pc, curr, ctx, crashes, faults, late>>
  /\ UNCHANGED <<life, toks, view, task>>

InstantNameAsMark(name, marks) == marks \cup {name}  \* mutant of InstantEffect

(* updateCfgWhenThereAreNoTargets: every name but stage means activate.     *)
InstantEffect(name, marks) ==
  marks \cup (IF name = "stage" THEN {"staged"} ELSE {"activated"})

UpdateWithoutTargets ==
  /\ req # Nil /\ req.update
  /\ config' = [config EXCEPT ![req.config] = InstantEffect(req.name, @)]
  /\ req' = Nil
  /\ UNCHANGED <<trs, etag, agent, cancelling, pc, curr, ctx, crashes, faults, late>>
  /\ UNCHANGED <<life, toks, asked, view, task, steady>>

-----------------------------------------------------------------------------
(* The service: what it fetches between listing a transition and locking it *)

NoView == [at |-> "none", listed |-> {}, piv |-> <<>>, tok |-> <<>>]

View(s, v) == view' = [view EXCEPT ![s] = v]

FleetList(s) ==
  /\ List(s)
  /\ View(s, [NoView EXCEPT !.at = "pivtokens"])
  /\ UNCHANGED <<life, toks, req, asked, task, steady>>

PivsAt(nodes) == {g \in Here : Cn[g] \in nodes}

(* pivtokensByCnUuid keeps one PIV token of each node, the last one listed. *)
ByCn(some) ==
  {piv \in [{Cn[g] : g \in some} -> some] : \A n \in DOMAIN piv : Cn[piv[n]] = n}

(* lsByCn: the PIV tokens of the pending targets.                           *)
FetchPivTokens(s) ==
  /\ pc[s] = "lock" /\ view[s].at = "pivtokens"
  /\ \E some \in Listed(PivsAt(ctx[s].pending)) : \E piv \in ByCn(some) :
       View(s, [at |-> "tokens", listed |-> some, piv |-> piv, tok |-> <<>>])
  /\ UNCHANGED <<vars, life, toks, req, asked, task, steady>>

Rows(S) == {x \in S \X (1 .. MaxTokens) : x[2] \in DOMAIN toks[x[1]]}

Oldest(shown) == {x \in (DOMAIN shown) \X (1 .. MaxTokens) : x[2] <= shown[x[1]]}

(* How many recovery tokens of each PIV token in S a list of them returns.  *)
(* It is sorted by creation, and has lost the newest ones when it is cut.   *)
ListedTokens(S) ==
  {shown \in [S -> 0 .. MaxTokens] :
     /\ \A g \in S : shown[g] <= Len(toks[g])
     /\ Oldest(shown) \in Listed(Rows(S))}

(* pendingTargets.length: a node counts once for each of its PIV tokens.    *)
CountOf(i, pending) ==
  IF trs[i].standalone THEN Cardinality(pending)
  ELSE Cardinality({g \in asked[i] : Cn[g] \in pending})

(* recTokensByGuid keeps the last one listed of each PIV token.  Recovery   *)
(* tokens are created only when there are not as many as there are pending  *)
(* targets.  A filter without PIV tokens may be refused.                    *)
FetchTokens(s) ==
  LET pivs == view[s].listed
  IN /\ pc[s] = "lock" /\ view[s].at = "tokens"
     /\ \/ /\ \E shown \in ListedTokens(pivs) :
                /\ View(s, [view[s] EXCEPT
                     !.at  = IF Cardinality(Oldest(shown)) = CountOf(ctx[s].tr, ctx[s].pending)
                             THEN "ready" ELSE "create",
                     !.tok = [g \in {h \in pivs : shown[h] > 0} |-> shown[g]]])
                /\ steady' = Without({g \in pivs : shown[g] < Len(toks[g])})
           /\ UNCHANGED pc
        \/ /\ pivs = {}
           /\ View(s, NoView) /\ Goto(s, "abort")
           /\ UNCHANGED steady
     /\ UNCHANGED <<trs, etag, config, agent, cancelling, curr, ctx, crashes, faults, late>>
     /\ UNCHANGED <<life, toks, req, asked, task>>

MissingInverted(v) == v.listed \cap DOMAIN v.tok  \* mutant of Missing

Missing(v) == v.listed \ DOMAIN v.tok

(* createRecoveryTokens: also for a PIV token that has gone meanwhile.      *)
CreateTokens(s) ==
  LET missing == Missing(view[s])
      marks   == config[trs[ctx[s].tr].config]
  IN /\ pc[s] = "lock" /\ view[s].at = "create"
     /\ \A g \in missing : Len(toks[g]) < MaxTokens
     /\ toks' = [g \in PivTokens |-> IF g \in missing THEN WithNew(toks[g], marks)
                                     ELSE toks[g]]
     /\ View(s, [view[s] EXCEPT
                  !.at  = "ready",
                  !.tok = [g \in missing \cup DOMAIN @ |->
                             IF g \in missing THEN Len(toks[g]) + 1 ELSE @[g]]])
     /\ UNCHANGED <<vars, life, req, asked, task, steady>>

FleetLock(s) ==
  /\ view[s].at = "ready"
  /\ Lock(s)
  /\ UNCHANGED fleetVars

(* createTask finds the PIV token of the node and the token to stage.       *)
Prepared(s, n) ==
  n \in DOMAIN view[s].piv /\ view[s].piv[n] \in DOMAIN view[s].tok

(* A task that is posted again takes the place of the one the node has.     *)
FleetBatch(s) ==
  LET i == ctx[s].tr
  IN /\ StartBatch(s)
     /\ \A n \in ctx'[s].batch : Prepared(s, n)
     /\ \E again \in SUBSET {n \in ctx'[s].batch : agent[i][n] = "given"} :
          task' = [task EXCEPT ![i] = [n \in Nodes |->
                     IF n \in again \/ agent[i][n] # agent'[i][n]
                     THEN [piv |-> view[s].piv[n], tok |-> view[s].tok[view[s].piv[n]]]
                     ELSE @[n]]]
     /\ UNCHANGED <<life, toks, req, asked, view, steady>>

(* ... otherwise it throws, before any task of the batch has been sent, and *)
(* SMF starts the process anew.                                             *)
Throw(s) ==
  /\ pc[s] = "batch"
  /\ \E n \in ctx[s].pending : ~Prepared(s, n)
  /\ Crash(s)
  /\ UNCHANGED fleetVars

FleetStep(s) ==
  \/ FleetList(s) \/ FetchPivTokens(s) \/ FetchTokens(s) \/ CreateTokens(s)
  \/ FleetLock(s) \/ FleetBatch(s) \/ Throw(s)
  \/ /\ \/ BatchEnds(s) \/ RecordBatch(s) \/ CompleteGet(s) \/ CompletePut(s)
        \/ ChangeConfig(s) \/ ExpireUnused(s) \/ AbortGet(s) \/ AbortPut(s)
     /\ UNCHANGED fleetVars

-----------------------------------------------------------------------------
(* The agents, which report to PUT /pivtokens/:guid/recovery-tokens         *)

(* setStagedRecoveryToken: it does not matter whether a token was staged.   *)
SetStaged(seq, k) ==
  [j \in DOMAIN seq |->
     IF j # k /\ "staged" \in seq[j] /\ "activated" \notin seq[j]
     THEN seq[j] \cup {"expired"}
     ELSE IF j = k /\ "expired" \notin seq[j] THEN seq[j] \cup {"staged"}
     ELSE seq[j]]

Candidates(seq) == {k \in DOMAIN seq : seq[k] = {"staged"}}

(* setActiveRecoveryToken, with the one token that is staged.               *)
SetActive(seq) ==
  [j \in DOMAIN seq |->
     IF j \in Candidates(seq) THEN seq[j] \cup {"activated"}
     ELSE IF {"staged", "activated"} \subseteq seq[j] THEN seq[j] \cup {"expired"}
     ELSE seq[j]]

(* The agent reports the token of its task, and is done when the report is  *)
(* accepted.  It reports nothing for other transitions.                     *)
AgentReports(i, n) ==
  LET g    == task[i][n].piv
      name == trs[i].name
  IN /\ task[i][n] # Nil /\ life[g] = "here"
     /\ name = "activate" => Cardinality(Candidates(toks[g])) = 1
     /\ AgentDoes(i, n)
     /\ toks' = [toks EXCEPT ![g] =
                   CASE name = "stage"    -> SetStaged(@, task[i][n].tok)
                     [] name = "activate" -> SetActive(@)
                     [] OTHER             -> @]
     /\ UNCHANGED <<life, req, asked, view, task, steady>>

-----------------------------------------------------------------------------
FleetInit ==
  /\ Init
  /\ life = [g \in PivTokens |-> "new"]
  /\ toks = [g \in PivTokens |-> <<>>]
  /\ req = Nil
  /\ asked = [i \in Transitions |-> {}]
  /\ view = [s \in Services |-> NoView]
  /\ task = [i \in Transitions |-> [n \in Nodes |-> Nil]]
  /\ steady = [i \in Transitions |-> {}]

FleetNext ==
  \/ \E g \in PivTokens, c \in Configs : PivAppears(g, c) \/ TokenAdded(g, c)
  \/ \E g \in PivTokens : PivLeaves(g)
  \/ \E c \in Configs, name \in Names, node \in Nodes \cup {Nil}, forced \in BOOLEAN :
       Ask(c, name, node, forced)
  \/ \E i \in Transitions : CreateTransition(i)
  \/ UpdateWithoutTargets
  \/ \E i \in Transitions, n \in Nodes : AgentReports(i, n)
  \/ \E s \in Services : FleetStep(s)

FleetSpec == FleetInit /\ [][FleetNext]_<<vars, fleetVars>>

FairFleet == FleetSpec /\ \A s \in Services : WF_<<vars, fleetVars>>(FleetStep(s))

-----------------------------------------------------------------------------
Requests == [config : Configs, name : Names, node : Nodes \cup {Nil},
             forced : BOOLEAN, update : BOOLEAN]

ViewStates == {"none", "pivtokens", "tokens", "create", "ready"}

(* Types; in particular what a service has fetched are PIV tokens of the    *)
(* nodes it was asked about, each with a recovery token that it once had,   *)
(* and an update is made for the rows without targets only                  *)
(* (transitioner.js 376-505, fsm-transition.js 492-521).                    *)
FleetTypeOK ==
  /\ TypeOK
  /\ life \in [PivTokens -> {"new", "here", "gone"}]
  /\ toks \in [PivTokens -> Seq(SUBSET {"staged", "activated", "expired"})]
  /\ \A g \in PivTokens : Len(toks[g]) <= MaxTokens
  /\ req \in Requests \cup {Nil}
  /\ asked \in [Transitions -> SUBSET PivTokens]
  /\ view \in [Services -> [at : ViewStates, listed : SUBSET PivTokens,
                             piv : UNION {[N -> PivTokens] : N \in SUBSET Nodes},
                             tok : UNION {[G -> 1 .. MaxTokens] : G \in SUBSET PivTokens}]]
  /\ \A s \in Services : \A n \in DOMAIN view[s].piv : Cn[view[s].piv[n]] = n
  /\ task \in [Transitions -> [Nodes ->
             [piv : PivTokens, tok : 1 .. MaxTokens] \cup {Nil}]]
  /\ \A i \in Transitions, n \in Nodes : task[i][n] # Nil => Cn[task[i][n].piv] = n
  /\ steady \in [Transitions -> SUBSET PivTokens]

(* A configuration is staged, or activated, when that has reached the nodes *)
(* that were there when it was asked for (docs/README.md, recovery          *)
(* configurations lifecycle; fsm-transition.js 289-294): each of them has a *)
(* recovery token that says so, unless its tokens were touched meanwhile,   *)
(* or its node had an older task to do, or its newest token had expired     *)
(* when it was to be staged (transitioner.js 417-451).                      *)
ConfigFollowsTokens ==
  [][\A s \in Services :
       LET row == trs[ctx[s].tr]
       IN pc[s] = "config" /\ config' # config =>
            \A g \in steady[ctx[s].tr] :
              /\ row.name = "stage"    => Marked(g, "staged")
              /\ row.name = "activate" => Marked(g, "activated")]_<<vars, fleetVars>>

(* "We cannot transition a recovery configuration unless it has reached the *)
(* required state across the whole set of CN's using EDAR"                  *)
(* (fsm-transition.js 289-290): an activation of the fleet is only accepted *)
(* when every PIV token has a staged token, unless it is forced.            *)
StagedBeforeActive ==
  [][req = Nil /\ req' # Nil =>
       (req'.name = "activate" /\ req'.node = Nil /\ ~req'.forced =>
          \A g \in Here : Marked(g, "staged"))]_<<vars, fleetVars>>

HasSettled(i) == trs[i] # Nil /\ (trs[i].finished \/ trs[i].aborted)

(* The pending targets have a PIV token each, their lists are not cut, and   *)
(* there are not as many recovery tokens as pending targets although a PIV  *)
(* token has none.                                                          *)
Intact(i) ==
  LET pending == PendingTargets(trs[i])
      pivs    == PivsAt(pending)
  IN /\ \A n \in pending : \E g \in pivs : Cn[g] = n
     /\ Cardinality(pivs) <= Limit /\ Cardinality(Rows(pivs)) <= Limit
     /\ Cardinality(Rows(pivs)) = CountOf(i, pending) => \A g \in pivs : toks[g] # <<>>

(* Each transition settles when those that are carried out until then stay  *)
(* intact: whichever recovery tokens exist, however many PIV tokens a node  *)
(* has, come or go, and whatever the agents do, the service prepares a task *)
(* for every target (transitioner.js 376-505, 655-680).                     *)
SettlesIntact ==
  \A i \in Transitions :
    [](\A j \in 1 .. i : Open(j) => Intact(j)) => (trs[i] # Nil ~> HasSettled(i))
=============================================================================
