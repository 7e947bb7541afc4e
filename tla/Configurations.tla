--------------------------- MODULE Configurations ---------------------------
(***************************************************************************)
(* The life of recovery configurations: the requests that create, delete,  *)
(* expire, reactivate and transition them (lib/endpoints/                  *)
(* recovery-configurations.js, lib/models/fsm-transition.js), the service  *)
(* that carries out their transitions (transitioner.js) and the sweep that *)
(* both run over them (lib/models/index.js).                               *)
(*                                                                         *)
(* A request reads first and writes later, and only some of the writes go  *)
(* under the etag of what was read.  How a transition proceeds from node   *)
(* to node is in Transitioner: here the service carries it out in one      *)
(* step, well or not.  What tokens do is in RecoveryTokens.                *)
(*                                                                         *)
(* An update that gets a row and puts it under the etag it has just got is *)
(* one step: in between nothing may happen to that row, or it fails.       *)
(***************************************************************************)
EXTENDS Naturals

CONSTANTS
  Configs,         \* recovery configurations, by template
  Clients,         \* requests that can be in flight at once
  Service,         \* the service that carries out transitions
  Asked,           \* the actions that clients ask for
  MaxTransitions,  \* bound: transitions ever created
  Nil

(* The timestamps of a configuration.  One that is not there has none.      *)
Marks == {"created", "staged", "activated", "expired"}
Names == {"stage", "unstage", "activate", "deactivate"}
Actions == Names \cup {"expire", "reactivate", "cancel"}
Transitions == 1..MaxTransitions

(* A row of the transitions bucket.  Who created it is not in the bucket:   *)
(* the properties use it.                                                   *)
Transition == [config : Configs, name : Names,
               finished : BOOLEAN, aborted : BOOLEAN, by : Clients]

Processes == Clients \cup {Service}

ASSUME NilAssumption == Nil \notin Transition
ASSUME ServiceAssumption == Service \notin Clients
ASSUME AskedAssumption == Asked \subseteq Actions
ASSUME MaxTransitionsAssumption == MaxTransitions \in Nat

VARIABLES
  row,      \* the recovery configurations bucket: the marks of each
  trs,      \* the transitions bucket
  made,     \* transitions created so far
  pc, ctx,  \* what each request and the service do next, and have read
  fresh     \* the configurations whose etag a reactivation has and still matches

vars == <<row, trs, made, pc, ctx, fresh>>

-----------------------------------------------------------------------------
(* getRecCfgState *)
State(marks) ==
  IF "staged" \notin marks THEN "created"
  ELSE IF "activated" \notin marks THEN "staged"
  ELSE IF "expired" \notin marks THEN "active"
  ELSE "expired"

(* RECOVERY_CONFIGURATION_STATIC_STATES, and cancel is always valid.        *)
ValidActions(marks) ==
  {"cancel"} \cup
  CASE State(marks) = "created" -> {"stage"}
    [] State(marks) = "staged"  -> {"stage", "unstage", "activate"}
    [] State(marks) = "active"  -> {"activate", "deactivate", "expire"}
    [] State(marks) = "expired" -> {"reactivate"}

(* changeRecoveryConfigurationState: the marks it sets or removes.          *)
Effect(name, marks) ==
  CASE name = "stage"      -> marks \cup {"staged"}
    [] name = "activate"   -> marks \cup {"activated"}
    [] name = "deactivate" -> marks \ {"activated"}
    [] name = "unstage"    -> marks \ {"staged"}

(* updateCfgWhenThereAreNoTargets, which only knows two names.              *)
InstantEffect(name, marks) ==
  marks \cup (IF name = "stage" THEN {"staged"} ELSE {"activated"})

Exists(c) == "created" \in row[c]

Anything(c) == TRUE  \* mutant of Found

(* An update fails when the row that it gets is not there.                  *)
Found(c) == Exists(c)

Open(i) == trs[i] # Nil /\ ~trs[i].finished /\ ~trs[i].aborted

NamelessPending(c, action) ==  \* mutant of Pending
  {i \in Transitions : Open(i) /\ trs[i].config = c /\ action = "cancel"}

(* What getTransitions lists.                                               *)
Pending(c, action) ==
  {i \in Transitions : /\ Open(i) /\ trs[i].config = c
                       /\ action \in {trs[i].name, "cancel"}}

(* A put or a delete: etags read before do not match any more.              *)
Write(S, rows) ==
  /\ row' = [c \in Configs |-> IF c \in S THEN rows[c] ELSE row[c]]
  /\ fresh' = [k \in Clients |-> fresh[k] \ S]

Await(k, label, c) ==
  /\ pc' = [pc EXCEPT ![k] = label]
  /\ ctx' = [ctx EXCEPT ![k] = c]

Finish(k) == Await(k, "idle", Nil)

-----------------------------------------------------------------------------
(* createRecoveryConfiguration counts the configurations and, when there is *)
(* none, the PIV tokens ...                                                 *)
CountConfigs(k, c) ==
  /\ pc[k] = "idle"
  /\ \E first \in BOOLEAN :
       /\ first => \A d \in Configs : ~Exists(d)
       /\ Await(k, "put", [config |-> c, first |-> first])
  /\ UNCHANGED <<row, trs, made, fresh>>

(* ... and puts one that is active at once when both counts are zero.  A    *)
(* template that is there already is left as it is.                         *)
PutConfig(k) ==
  LET c == ctx[k].config
  IN /\ pc[k] = "put"
     /\ IF Exists(c)
        THEN UNCHANGED <<row, fresh>>
        ELSE Write({c}, [d \in {c} |->
                          {"created"} \cup IF ctx[k].first
                                          THEN {"staged", "activated"} ELSE {}])
     /\ Finish(k)
     /\ UNCHANGED <<trs, made>>

(* deleteRecoveryConfiguration checks the row it gets ...                   *)
MayRemove(marks) ==
  "staged" \in marks \/ "activated" \in marks => "expired" \in marks

CheckDelete(k, c) ==
  /\ pc[k] = "idle"
  /\ Exists(c) /\ MayRemove(row[c])
  /\ Await(k, "remove", [config |-> c])
  /\ UNCHANGED <<row, trs, made, fresh>>

(* ... and deletes whatever there is then, but not its transitions.         *)
Remove(k) ==
  LET c == ctx[k].config
  IN /\ pc[k] = "remove"
     /\ Write({c}, [d \in {c} |-> {}])
     /\ Finish(k)
     /\ UNCHANGED <<trs, made>>

-----------------------------------------------------------------------------
(* transition gets the configuration and checks that its state allows the   *)
(* action ...                                                               *)
GetConfig(k, c, action) ==
  /\ pc[k] = "idle"
  /\ Exists(c) /\ action \in ValidActions(row[c])
  /\ Await(k, "list", [config |-> c, action |-> action])
  /\ fresh' = IF action = "reactivate" THEN [fresh EXCEPT ![k] = {c}] ELSE fresh
  /\ UNCHANGED <<row, trs, made>>

(* ... lists the pending transitions: one of the same name is in the way,   *)
(* and one of any name is what a cancel needs ...                           *)
ListTransitions(k) ==
  LET action  == ctx[k].action
      pending == Pending(ctx[k].config, action)
  IN /\ pc[k] = "list"
     /\ \/ action = "cancel" /\ pending = {} /\ Finish(k)
        \/ /\ action = "cancel"
           /\ \E i \in pending :
                /\ \A j \in pending : i <= j
                /\ Await(k, "cancel", [config |-> ctx[k].config, tr |-> i])
        \/ action \in Names /\ pending # {} /\ Finish(k)
        \/ action \in Names /\ pending = {} /\ Await(k, "create", ctx[k])
        \/ action \in {"expire", "reactivate"} /\ Await(k, action, ctx[k])
     /\ UNCHANGED <<row, trs, made, fresh>>

(* ... and creates the transition, finished already if there is no target.  *)
CreateTransition(k) ==
  /\ pc[k] = "create" /\ made < MaxTransitions
  /\ made' = made + 1
  /\ \E noTargets \in BOOLEAN :
       /\ trs' = [trs EXCEPT ![made + 1] =
                   [config |-> ctx[k].config, name |-> ctx[k].action,
                    finished |-> noTargets, aborted |-> FALSE, by |-> k]]
       /\ IF noTargets THEN Await(k, "effect", ctx[k]) ELSE Finish(k)
  /\ UNCHANGED <<row, fresh>>

(* Without targets the request itself changes the configuration.            *)
InstantUpdate(k) ==
  LET c == ctx[k].config
  IN /\ pc[k] = "effect"
     /\ IF Found(c)
        THEN Write({c}, [d \in {c} |-> InstantEffect(ctx[k].action, row[c])])
        ELSE UNCHANGED <<row, fresh>>
     /\ Finish(k)
     /\ UNCHANGED <<trs, made>>

AnyRow(k) == TRUE  \* mutant of StillThere

StillThere(k) == ctx[k].config \in fresh[k]

(* The batch of a reactivation: the row loses its marks, provided it is the *)
(* one that was read, and all transitions of the configuration go.          *)
Reactivate(k) ==
  LET c == ctx[k].config
  IN /\ pc[k] = "reactivate"
     /\ IF StillThere(k)
        THEN /\ Write({c}, [d \in {c} |-> {"created"}])
             /\ trs' = [i \in Transitions |->
                          IF trs[i] # Nil /\ trs[i].config = c THEN Nil ELSE trs[i]]
        ELSE UNCHANGED <<row, trs, fresh>>
     /\ Finish(k)
     /\ UNCHANGED made

(* The batch of an expiry puts back the active row that was read, expired,  *)
(* whatever is there now.                                                   *)
Expire(k) ==
  LET c == ctx[k].config
  IN /\ pc[k] = "expire"
     /\ Write({c}, [d \in {c} |-> Marks])
     /\ Finish(k)
     /\ UNCHANGED <<trs, made>>

CancelTransition(k) ==
  LET i == ctx[k].tr
  IN /\ pc[k] = "cancel"
     /\ trs' = IF trs[i] # Nil THEN [trs EXCEPT ![i].aborted = TRUE] ELSE trs
     /\ Finish(k)
     /\ UNCHANGED <<row, made, fresh>>

-----------------------------------------------------------------------------
(* expireUnusedRecoveryConfigs lists every configuration, although it means *)
(* to list the active ones: its filter is not where listModel looks.        *)
SweepList(p) ==
  /\ pc[p] = IF p = Service THEN "unused" ELSE "idle"
  /\ Await(p, "sweep", [ctx |-> ctx[p], rows |-> row])
  /\ UNCHANGED <<row, trs, made, fresh>>

(* Those whose tokens have all expired are put, marked, as they were read.  *)
SweepPut(p) ==
  LET rows == ctx[p].rows
  IN /\ pc[p] = "sweep"
     /\ \E S \in SUBSET {c \in Configs : "created" \in rows[c]} :
          Write(S, [c \in S |-> rows[c] \cup {"expired"}])
     /\ Finish(p)
     /\ UNCHANGED <<trs, made>>

-----------------------------------------------------------------------------
(* The service takes the oldest open transition, and gets its configuration.*)
TakeTransition ==
  /\ pc[Service] = "idle"
  /\ \E i \in Transitions :
       /\ Open(i) /\ \A j \in Transitions : Open(j) => i <= j
       /\ Await(Service, "run", [tr |-> i, config |-> trs[i].config, name |-> trs[i].name])
  /\ UNCHANGED <<row, trs, made, fresh>>

(* It stops after a batch when the transition has been canceled ...         *)
Stop ==
  /\ pc[Service] = "run"
  /\ trs[ctx[Service].tr] # Nil /\ trs[ctx[Service].tr].aborted
  /\ Finish(Service)
  /\ UNCHANGED <<row, trs, made, fresh>>

(* ... or else finishes it.  With errors, or for a single node, that does   *)
(* not change the configuration.                                            *)
FinishTransition ==
  /\ pc[Service] = "run"
  /\ trs[ctx[Service].tr] # Nil
  /\ trs' = [trs EXCEPT ![ctx[Service].tr].finished = TRUE]
  /\ \E label \in {"config", "unused"} : Await(Service, label, ctx[Service])
  /\ UNCHANGED <<row, made, fresh>>

ChangeConfig ==
  LET c == ctx[Service].config
  IN /\ pc[Service] = "config"
     /\ Found(c)
     /\ Write({c}, [d \in {c} |-> Effect(ctx[Service].name, row[c])])
     /\ Await(Service, "unused", ctx[Service])
     /\ UNCHANGED <<trs, made>>

(* A call fails, because of an etag, a row that is gone or Moray: the       *)
(* service aborts the transition it was at, if it is still there.           *)
Fail ==
  LET i == IF pc[Service] = "sweep" THEN ctx[Service].ctx.tr ELSE ctx[Service].tr
  IN /\ pc[Service] # "idle"
     /\ trs' = IF trs[i] # Nil
               THEN [trs EXCEPT ![i].aborted = TRUE, ![i].finished = TRUE]
               ELSE trs
     /\ Finish(Service)
     /\ UNCHANGED <<row, made, fresh>>

(* A server dies, or a request fails: what it has not written is lost.      *)
Crash(p) ==
  /\ pc[p] # "idle"
  /\ Finish(p)
  /\ UNCHANGED <<row, trs, made, fresh>>

-----------------------------------------------------------------------------
Init ==
  /\ row = [c \in Configs |-> {}]
  /\ trs = [i \in Transitions |-> Nil]
  /\ made = 0
  /\ pc = [p \in Processes |-> "idle"]
  /\ ctx = [p \in Processes |-> Nil]
  /\ fresh = [k \in Clients |-> {}]

Request(k) ==
  \/ \E c \in Configs : CountConfigs(k, c) \/ CheckDelete(k, c)
  \/ \E c \in Configs, action \in Asked : GetConfig(k, c, action)
  \/ PutConfig(k) \/ Remove(k)
  \/ ListTransitions(k) \/ CreateTransition(k) \/ InstantUpdate(k)
  \/ Reactivate(k) \/ Expire(k) \/ CancelTransition(k)

Next ==
  \/ \E k \in Clients : Request(k)
  \/ \E p \in Processes : SweepList(p) \/ SweepPut(p) \/ Crash(p)
  \/ TakeTransition \/ Stop \/ FinishTransition \/ ChangeConfig \/ Fail

Spec == Init /\ [][Next]_vars

-----------------------------------------------------------------------------
Rows == {marks \in SUBSET Marks : marks # {} => "created" \in marks}
Transiting == [config : Configs, action : Actions]
Running == [tr : Transitions, config : Configs, name : Names]

Labels == {"idle", "put", "remove", "list", "create", "effect", "expire",
           "reactivate", "cancel", "sweep", "run", "config", "unused"}

ContextOK(p) ==
  /\ pc[p] \in Labels
  /\ pc[p] = "put" => ctx[p] \in [config : Configs, first : BOOLEAN]
  /\ pc[p] = "remove" => ctx[p] \in [config : Configs]
  /\ pc[p] = "cancel" => ctx[p] \in [config : Configs, tr : Transitions]
  /\ pc[p] \in {"list", "expire", "reactivate"} => ctx[p] \in Transiting
  /\ pc[p] \in {"create", "effect"} => ctx[p] \in Transiting /\ ctx[p].action \in Names
  /\ pc[p] = "sweep" => ctx[p].rows \in [Configs -> Rows]
  /\ pc[p] \in {"run", "config", "unused"} => ctx[p] \in Running

(* Types; in particular a transition that is to be created has one of the   *)
(* names that are stored (fsm-transition.js 454-466).                       *)
TypeOK ==
  /\ row \in [Configs -> Rows]
  /\ trs \in [Transitions -> Transition \cup {Nil}]
  /\ made \in 0..MaxTransitions
  /\ \A i \in Transitions : trs[i] # Nil => i <= made
  /\ DOMAIN pc = Processes /\ DOMAIN ctx = Processes
  /\ \A p \in Processes : ContextOK(p)
  /\ fresh \in [Clients -> SUBSET Configs]

(* There is never more than one unfinished transition of a name for a       *)
(* configuration (fsm-transition.js 380-388), as far as it is up to one     *)
(* client: with requests that come after one another there is no second.    *)
OnePerClient ==
  \A i, j \in Transitions :
    /\ Open(i) /\ Open(j)
    /\ trs[i].config = trs[j].config /\ trs[i].name = trs[j].name
    /\ trs[i].by = trs[j].by
    => i = j

(* What the source says, which needs that only one request is in flight.    *)
NoTwins ==
  \A i, j \in Transitions :
    /\ Open(i) /\ Open(j)
    /\ trs[i].config = trs[j].config /\ trs[i].name = trs[j].name
    => i = j

(* A configuration that has expired stays so, unless it is reactivated: its *)
(* state is expired, no mark it got meanwhile is lost with it, and neither  *)
(* marks nor transitions of its earlier life are left (fsm-transition.js    *)
(* 69-78, 526-593).  Sweeps, transitions and stale expiries race with it.   *)
ExpiredStays ==
  [][\A c \in Configs :
       /\ Exists(c) /\ Exists(c)'
       /\ "expired" \in row[c] /\ "expired" \notin row'[c]
       => /\ State(row[c]) = "expired" /\ row'[c] = {"created"}
          /\ \A i \in Transitions : trs'[i] # Nil => trs'[i].config # c]_vars
=============================================================================
