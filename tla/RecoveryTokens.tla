--------------------------- MODULE RecoveryTokens ---------------------------
(***************************************************************************)
(* The recovery tokens of the PIV tokens (lib/models/recovery-token.js),   *)
(* as the handlers of lib/endpoints/pivtokens.js, the transitions of       *)
(* lib/models/fsm-transition.js and the transitioner change them.          *)
(*                                                                         *)
(* A recovery token is a row of a Moray bucket.  Handlers run concurrently *)
(* and each one is a read of Moray followed by one atomic batch, so what a *)
(* handler read may be stale when its batch runs; only a put that carries  *)
(* an etag notices.  The timestamps staged, activated and expired of a row *)
(* are abstracted to the set of those that are present, its marks.         *)
(***************************************************************************)
EXTENDS Naturals, FiniteSets

CONSTANTS
  PivTokens,      \* PIV tokens, by guid
  Configs,        \* recovery configurations, by uuid
  Tokens,         \* recovery tokens, by uuid
  Handlers,       \* request handlers that can be in flight at once
  Reactivatable,  \* the configurations operators may reactivate
  Updates,        \* the marks a PUT of a token may ask for at once
  MaxEtag,        \* bound: writes to one token
  MaxConfigEtag,  \* bound: writes to each configuration
  Nil             \* no row, no context

Marks == {"staged", "activated", "expired"}

(* A row of the recovery tokens bucket. *)
Row == [pivtoken : PivTokens, config : Configs, marks : SUBSET Marks]

ASSUME NilAssumption == Nil \notin Row /\ Nil \notin Tokens
ASSUME ReactivatableAssumption == Reactivatable \subseteq Configs
ASSUME UpdatesAssumption == Updates \subseteq SUBSET Marks
ASSUME BoundsAssumption == MaxEtag \in Nat /\ MaxConfigEtag \in [Configs -> Nat]

VARIABLES
  tokens,   \* the recovery tokens bucket: the row of each uuid, Nil if none
  etag,     \* writes made so far to each row, which is what an etag tells
  config,   \* the marks of each configuration and the etag of its row
  piv,      \* is the row of each PIV token yet to come, here, or gone?
  first,    \* history: the token that each PIV token here was created with
  pc,       \* what each handler does next
  ctx       \* what each handler has read and carries to its batch

vars == <<tokens, etag, config, piv, first, pc, ctx>>

-----------------------------------------------------------------------------
(* Rows *)

Live(t) == tokens[t] # Nil

Of(t, p) == Live(t) /\ tokens[t].pivtoken = p

Has(t, m) == Live(t) /\ m \in tokens[t].marks

(* Neither staged, activated nor expired: a token that was just created. *)
Pristine(t) == Live(t) /\ tokens[t].marks = {}

Staged(t) == Has(t, "staged") /\ ~Has(t, "activated") /\ ~Has(t, "expired")

Active(t) == Has(t, "activated") /\ ~Has(t, "expired")

Marked(row, ms) == [row EXCEPT !.marks = @ \cup ms]

(* An atomic Moray batch: an update by filter that sets expired on the rows *)
(* of expire, and puts of whole rows.  Every row it touches gets a new etag *)
TouchedByPuts(expire, puts) == DOMAIN puts  \* mutant of Touched

Touched(expire, puts) == expire \cup DOMAIN puts

Batch(expire, puts) ==
  LET touched == Touched(expire, puts)
  IN /\ \A t \in touched : etag[t] < MaxEtag
     /\ tokens' = [t \in Tokens |->
                     IF t \in DOMAIN puts THEN puts[t]
                     ELSE IF t \in expire THEN Marked(tokens[t], {"expired"})
                     ELSE tokens[t]]
     /\ etag' = [t \in Tokens |->
                   IF t \in touched THEN etag[t] + 1 ELSE etag[t]]

(* Rows deleted by key or by filter. *)
Remove(S) ==
  /\ tokens' = [t \in Tokens |-> IF t \in S THEN Nil ELSE tokens[t]]
  /\ UNCHANGED etag

-----------------------------------------------------------------------------
(* Handlers *)

Await(h, label, c) ==
  /\ pc[h] = "idle"
  /\ pc' = [pc EXCEPT ![h] = label]
  /\ ctx' = [ctx EXCEPT ![h] = c]

Finish(h) ==
  /\ pc' = [pc EXCEPT ![h] = "idle"]
  /\ ctx' = [ctx EXCEPT ![h] = Nil]

(* getRecCfgState: what the marks of a configuration mean to transitions.   *)
ConfigState(marks) ==
  IF "staged" \notin marks THEN "created"
  ELSE IF "activated" \notin marks THEN "staged"
  ELSE IF "expired" \notin marks THEN "active"
  ELSE "expired"

(* The marks a token is born with: those of its configuration. *)
BirthMarks(marks) == marks \cap {"staged", "activated"}

Newborn(p, c) ==
  [pivtoken |-> p, config |-> c, marks |-> BirthMarks(config[c].marks)]

(* createRecoveryToken reads the configuration, and refuses an expired one. *)
(* The PIV token was there when the request, or the stage transition,       *)
(* loaded it: it may be gone by now, and nothing looks again.               *)
CreateFetchConfig(h, p, c, t) ==
  /\ piv[p] # "new"
  /\ "expired" \notin config[c].marks
  /\ Await(h, "create", [token |-> t, row |-> Newborn(p, c)])
  /\ UNCHANGED <<tokens, etag, config, piv, first>>

StagedOf(p) == {u \in Tokens : Of(u, p) /\ Staged(u)}  \* mutant of PristineOf

PristineOf(p) == {u \in Tokens : Of(u, p) /\ Pristine(u)}

(* ... then expires the pristine tokens of the PIV token and puts the new   *)
(* one, whose uuid must not exist: otherwise the whole batch is refused.    *)
CreateBatch(h) ==
  LET t == ctx[h].token
      p == ctx[h].row.pivtoken
  IN /\ pc[h] = "create"
     /\ IF Live(t)
        THEN UNCHANGED <<tokens, etag>>
        ELSE Batch(PristineOf(p), [u \in {t} |-> ctx[h].row])
     /\ Finish(h)
     /\ UNCHANGED <<config, piv, first>>

(* createPIVToken reads the configuration that the request names, whatever  *)
(* its state, or an active one ...                                          *)
CreatePivGetConfig(h, p, c, t) ==
  /\ Await(h, "provision", [token |-> t, row |-> Newborn(p, c)])
  /\ UNCHANGED <<tokens, etag, config, piv, first>>

(* ... then puts the PIV token with its first recovery token, neither of    *)
(* which must exist.  Unlike CreateBatch it expires nothing.                *)
CreatePivBatch(h) ==
  LET t == ctx[h].token
      p == ctx[h].row.pivtoken
  IN /\ pc[h] = "provision"
     /\ IF piv[p] = "here" \/ Live(t)
        THEN UNCHANGED <<tokens, etag, piv, first>>
        ELSE /\ Batch({}, [u \in {t} |-> ctx[h].row])
             /\ piv' = [piv EXCEPT ![p] = "here"]
             /\ first' = [first EXCEPT ![p] = t]
     /\ Finish(h)
     /\ UNCHANGED config

StagedSameConfig(p, t) ==  \* mutant of OtherStaged
  {u \in StagedOf(p) : u # t /\ tokens[u].config = tokens[t].config}

OtherStaged(p, t) == {u \in Tokens : Of(u, p) /\ Staged(u) /\ u # t}

(* setStagedRecoveryToken: one batch expires the other staged tokens of the *)
(* PIV token and stages the token the agent names.                          *)
SetStaged(p, c, t) ==
  /\ Batch(OtherStaged(p, t),
           [u \in {v \in {t} : /\ Live(v)
                               /\ tokens[v].config = c
                               /\ ~Has(v, "staged")
                               /\ ~Has(v, "expired")}
              |-> Marked(tokens[u], {"staged"})])
  /\ UNCHANGED <<config, piv, first, pc, ctx>>

UnexpiredFor(p, c) ==  \* mutant of StagedFor
  {t \in Tokens : /\ Of(t, p)
                  /\ tokens[t].config = c
                  /\ ~Has(t, "activated") /\ ~Has(t, "expired")}

(* setActiveRecoveryToken lists the staged tokens of the PIV token and the  *)
(* active configuration, and goes on only when there is exactly one.        *)
StagedFor(p, c) == {t \in Tokens : /\ Of(t, p)
                                   /\ tokens[t].config = c
                                   /\ Staged(t)}

SetActiveList(h, p, c) ==
  /\ Cardinality(StagedFor(p, c)) = 1
  /\ \E t \in StagedFor(p, c) :
        Await(h, "activate", [token |-> t, pivtoken |-> p])
  /\ UNCHANGED <<tokens, etag, config, piv, first>>

ActiveUnstaged(p, t) ==  \* mutant of OtherActive
  {u \in Tokens : Of(u, p) /\ ~Has(u, "staged") /\ Active(u) /\ u # t}

OtherActive(p, t) ==
  {u \in Tokens : Of(u, p) /\ Has(u, "staged") /\ Active(u) /\ u # t}

(* ... then one batch expires the other active tokens of the PIV token that *)
(* were staged, and activates the token it listed, selected by uuid alone.  *)
SetActiveBatch(h) ==
  LET t == ctx[h].token
      p == ctx[h].pivtoken
  IN /\ pc[h] = "activate"
     /\ Batch(OtherActive(p, t),
              [u \in {v \in {t} : Live(v)}
                 |-> Marked(tokens[u], {"activated"})])
     /\ Finish(h)
     /\ UNCHANGED <<config, piv, first>>

UpdateGetAny(h, t, val) ==  \* mutant of UpdateGet
  /\ Await(h, "update", [token |-> t, seen |-> tokens[t],
                         etag |-> etag[t], val |-> val])
  /\ UNCHANGED <<tokens, etag, config, piv, first>>

(* updateRecoveryToken reads the token and its etag. *)
UpdateGet(h, t, val) ==
  /\ Live(t)
  /\ Await(h, "update", [token |-> t, seen |-> tokens[t],
                         etag |-> etag[t], val |-> val])
  /\ UNCHANGED <<tokens, etag, config, piv, first>>

(* The other tokens the update expires: all the unexpired ones when it      *)
(* activates, those not active when it stages, none when it expires.        *)
UpdateExpires(t, p, val) ==
  {u \in Tokens : /\ Of(u, p)
                  /\ u # t
                  /\ ~Has(u, "expired")
                  /\ "expired" \notin val
                  /\ "activated" \in val \/ ~Has(u, "activated")}

Accepts(h) == LET t == ctx[h].token IN Live(t) /\ etag[t] = ctx[h].etag

(* ... then puts what it read, merged with the new values, under that etag. *)
UpdateBatch(h) ==
  LET t == ctx[h].token
  IN /\ pc[h] = "update"
     /\ IF Accepts(h)
        THEN Batch(UpdateExpires(t, ctx[h].seen.pivtoken, ctx[h].val),
                   [u \in {t} |-> Marked(ctx[h].seen, ctx[h].val)])
        ELSE UNCHANGED <<tokens, etag>>
     /\ Finish(h)
     /\ UNCHANGED <<config, piv, first>>

(* deleteRecoveryToken: whatever state the token is in. *)
Delete(t) ==
  /\ Live(t)
  /\ Remove({t})
  /\ UNCHANGED <<config, piv, first, pc, ctx>>

(* deleteRecoveryTokens, called by the transitioner's prune for the tokens  *)
(* expired before a point in time: some of the expired ones.                *)
Prune(S) ==
  /\ S # {} /\ \A t \in S : Has(t, "expired")
  /\ Remove(S)
  /\ UNCHANGED <<config, piv, first, pc, ctx>>

(* The batch of deletePIVToken deletes the row of the PIV token, which must *)
(* be there, and every recovery token it has by then.                       *)
DeletePivToken(p) ==
  /\ piv[p] = "here"
  /\ Remove({t \in Tokens : Of(t, p)})
  /\ piv' = [piv EXCEPT ![p] = "gone"]
  /\ first' = [first EXCEPT ![p] = Nil]
  /\ UNCHANGED <<config, pc, ctx>>

-----------------------------------------------------------------------------
(* Configurations, as far as they matter to their tokens *)

ConfigTo(c, marks) ==
  /\ config[c].etag < MaxConfigEtag[c]
  /\ config' = [config EXCEPT ![c] = [marks |-> marks, etag |-> @.etag + 1]]

(* The end of a stage, activate, unstage or deactivate transition.          *)
ConfigStep(c) ==
  LET marks == config[c].marks
  IN /\ CASE ConfigState(marks) = "created" -> ConfigTo(c, marks \cup {"staged"})
          [] ConfigState(marks) = "staged"  ->
               \/ ConfigTo(c, marks \cup {"activated"})
               \/ ConfigTo(c, marks \ {"staged"})
          [] ConfigState(marks) = "active"  -> ConfigTo(c, marks \ {"activated"})
          [] OTHER                          -> FALSE
     /\ UNCHANGED <<tokens, etag, piv, first, pc, ctx>>

(* transition 'expire': a batch puts the configuration and expires its      *)
(* tokens.                                                                  *)
ExpireConfig(c) ==
  /\ ConfigState(config[c].marks) = "active"
  /\ ConfigTo(c, config[c].marks \cup {"expired"})
  /\ Batch({t \in Tokens : /\ Live(t)
                           /\ tokens[t].config = c
                           /\ ~Has(t, "expired")}, <<>>)
  /\ UNCHANGED <<piv, first, pc, ctx>>

(* expireUnusedRecoveryConfigs: a configuration that has tokens, all of     *)
(* them expired, is expired too.  The filter that should keep it to active  *)
(* ones is not where listModel looks for it: every configuration is listed. *)
ExpireUnusedConfig(c) ==
  LET ofConfig == {t \in Tokens : Live(t) /\ tokens[t].config = c}
  IN /\ ofConfig # {} /\ \A t \in ofConfig : Has(t, "expired")
     /\ ConfigTo(c, config[c].marks \cup {"expired"})
     /\ UNCHANGED <<tokens, etag, piv, first, pc, ctx>>

(* transition 'reactivate' lists the tokens of an expired configuration.    *)
ReactivateList(h, c) ==
  /\ c \in Reactivatable
  /\ ConfigState(config[c].marks) = "expired"
  /\ Await(h, "reactivate",
           [config |-> c, etag |-> config[c].etag,
            seen |-> [t \in {u \in Tokens : Live(u) /\ tokens[u].config = c}
                        |-> tokens[t]]])
  /\ UNCHANGED <<tokens, etag, config, piv, first>>

(* ... then puts the configuration under the etag it read and, without one, *)
(* every token it listed, stripped of its marks.                            *)
ReactivateBatch(h) ==
  LET c    == ctx[h].config
      seen == ctx[h].seen
  IN /\ pc[h] = "reactivate"
     /\ IF config[c].etag = ctx[h].etag
        THEN /\ ConfigTo(c, {})
             /\ Batch({}, [t \in DOMAIN seen |-> [seen[t] EXCEPT !.marks = {}]])
        ELSE UNCHANGED <<tokens, etag, config>>
     /\ Finish(h)
     /\ UNCHANGED <<piv, first>>

-----------------------------------------------------------------------------
(* createRecoveryConfiguration: the first ones, when there is no PIV token  *)
(* yet, are active at once.                                                 *)
Init ==
  /\ tokens = [t \in Tokens |-> Nil]
  /\ etag = [t \in Tokens |-> 0]
  /\ \E initial \in SUBSET Configs :
       config = [c \in Configs |->
                   [marks |-> IF c \in initial THEN {"staged", "activated"} ELSE {},
                    etag  |-> 0]]
  /\ piv = [p \in PivTokens |-> "new"]
  /\ first = [p \in PivTokens |-> Nil]
  /\ pc = [h \in Handlers |-> "idle"]
  /\ ctx = [h \in Handlers |-> Nil]

(* The tokens the batch of a handler is about.                              *)
InFlight(h) ==
  CASE pc[h] = "idle"       -> {}
    [] pc[h] = "reactivate" -> DOMAIN ctx[h].seen
    [] OTHER                -> {ctx[h].token}

(* A token made of random bytes has a uuid that nobody knows yet.           *)
Unknown(t) == ~Live(t) /\ \A h \in Handlers : t \notin InFlight(h)

Shared ==
  \/ \E h \in Handlers : CreateBatch(h) \/ CreatePivBatch(h) \/ SetActiveBatch(h)
  \/ \E S \in SUBSET Tokens : Prune(S)
  \/ \E p \in PivTokens : DeletePivToken(p)
  \/ \E c \in Configs : ConfigStep(c) \/ ExpireConfig(c) \/ ExpireUnusedConfig(c)

(* Everything the API accepts. *)
Next ==
  \/ Shared
  \/ \E h \in Handlers, p \in PivTokens, c \in Configs, t \in Tokens :
        \/ CreateFetchConfig(h, p, c, t)
        \/ Unknown(t) /\ CreatePivGetConfig(h, p, c, t)
  \/ \E h \in Handlers, p \in PivTokens, c \in Configs : SetActiveList(h, p, c)
  \/ \E p \in PivTokens, c \in Configs, t \in Tokens : SetStaged(p, c, t)
  \/ \E h \in Handlers, t \in Tokens, val \in Updates : UpdateGet(h, t, val)
  \/ \E h \in Handlers : UpdateBatch(h) \/ ReactivateBatch(h)
  \/ \E h \in Handlers, c \in Configs : ReactivateList(h, c)
  \/ \E t \in Tokens : Delete(t)

(* The documented life of a token.  Either it is born with its PIV token,   *)
(* under an active configuration, or it is created with a fresh uuid while  *)
(* its configuration is created, and staged and activated by the agent that *)
(* has it, and whose PIV token is there when it lists the staged ones: a    *)
(* late activation of a token left behind by a PIV token that is gone could *)
(* meet the active token of the next PIV token with its guid.               *)
Fresh(t) == etag[t] = 0 /\ Unknown(t)

Provision(h, p, c, t) ==
  /\ Fresh(t)
  /\ ConfigState(config[c].marks) = "active"
  /\ CreatePivGetConfig(h, p, c, t)

CreateFresh(h, p, c, t) ==
  /\ Fresh(t)
  /\ config[c].marks = {}
  /\ CreateFetchConfig(h, p, c, t)

AgentStage(p, c, t) ==
  /\ Of(t, p) /\ tokens[t].config = c
  /\ SetStaged(p, c, t)

AgentActivate(h, p, c) ==
  /\ piv[p] = "here"
  /\ SetActiveList(h, p, c)

AgentNext ==
  \/ Shared
  \/ \E h \in Handlers, p \in PivTokens, c \in Configs, t \in Tokens :
        Provision(h, p, c, t) \/ CreateFresh(h, p, c, t)
  \/ \E h \in Handlers, p \in PivTokens, c \in Configs : AgentActivate(h, p, c)
  \/ \E p \in PivTokens, c \in Configs, t \in Tokens : AgentStage(p, c, t)

Spec == Init /\ [][Next]_vars

AgentSpec == Init /\ [][AgentNext]_vars

-----------------------------------------------------------------------------
(* Contexts a handler carries, by what it does next. *)
CreateCtx == [token : Tokens, row : Row]
ActivateCtx == [token : Tokens, pivtoken : PivTokens]
UpdateCtx == [token : Tokens, seen : Row, etag : Nat, val : Updates]

IsReactivateCtx(c) ==
  /\ c.config \in Configs /\ c.etag \in Nat
  /\ DOMAIN c.seen \subseteq Tokens
  /\ \A t \in DOMAIN c.seen : c.seen[t] \in Row

Labels == {"idle", "create", "provision", "activate", "update", "reactivate"}

ContextOK(h) ==
  /\ pc[h] \in {"create", "provision"} => ctx[h] \in CreateCtx
  /\ pc[h] = "activate" => ctx[h] \in ActivateCtx
  /\ pc[h] = "update" => ctx[h] \in UpdateCtx
  /\ pc[h] = "reactivate" => IsReactivateCtx(ctx[h])

(* Types of the variables; in particular a handler that goes on to its *)
(* batch always has the token that batch names (recovery-token.js 424-430). *)
TypeOK ==
  /\ tokens \in [Tokens -> Row \cup {Nil}]
  /\ etag \in [Tokens -> Nat]
  /\ config \in [Configs -> [marks : SUBSET Marks, etag : Nat]]
  /\ piv \in [PivTokens -> {"new", "here", "gone"}]
  /\ first \in [PivTokens -> Tokens \cup {Nil}]
  /\ pc \in [Handlers -> Labels]
  /\ DOMAIN ctx = Handlers
  /\ \A h \in Handlers : ContextOK(h)

(* A handler that is about to put what it read under an etag that still     *)
(* matches has read what is there: no write, update by filter or other      *)
(* handler's batch goes unnoticed by updateRecoveryToken (296-306) or by    *)
(* the reactivation (fsm-transition.js 545-558).                            *)
UpdateIsFresh(h) ==
  pc[h] = "update" =>
    LET t == ctx[h].token
    IN /\ ctx[h].etag <= etag[t]
       /\ Live(t) /\ ctx[h].etag = etag[t] => tokens[t] = ctx[h].seen

ReactivationIsFresh(h) ==
  pc[h] = "reactivate" =>
    LET c == ctx[h].config
    IN /\ ctx[h].etag <= config[c].etag
       /\ ctx[h].etag = config[c].etag => ConfigState(config[c].marks) = "expired"
       /\ c \in Reactivatable
       /\ \A t \in DOMAIN ctx[h].seen : ctx[h].seen[t].config = c

EtagsTell == \A h \in Handlers : UpdateIsFresh(h) /\ ReactivationIsFresh(h)

(* A PIV token never has two tokens waiting to be staged, whatever requests *)
(* race: creating one expires the one before it (lib/endpoints/pivtokens.js *)
(* 458-460).  Tokens brought back by a reactivation are apart: the batch    *)
(* that strips their marks may bring back several.  So is the token a PIV   *)
(* token was created with: createPIVToken does not look for the one that a  *)
(* request, racing the deletion of an earlier PIV token with that guid, has *)
(* left behind.                                                             *)
MayBeTwo(t, u) ==
  \/ {tokens[t].config, tokens[u].config} \cap Reactivatable # {}
  \/ first[tokens[t].pivtoken] \in {t, u}

OnePristine ==
  \A t, u \in Tokens :
    Pristine(t) /\ Pristine(u) /\ tokens[t].pivtoken = tokens[u].pivtoken
      => t = u \/ MayBeTwo(t, u)

(* The same without the last exception, which is what lib/endpoints/        *)
(* pivtokens.js 458-460 says.  Not checked by a run: TLC refutes it         *)
(* (README, disagreements).                                                 *)
PristineIsExpired ==
  \A t, u \in Tokens :
    Pristine(t) /\ Pristine(u) /\ tokens[t].pivtoken = tokens[u].pivtoken
      => t = u \/ {tokens[t].config, tokens[u].config} \cap Reactivatable # {}

(* No request ever takes a mark off a token that exists, except the batch   *)
(* that reactivates its configuration: an update that puts back the copy it *)
(* read cannot undo a staging, an activation or an expiry it did not see.   *)
MarksAreKept ==
  [][\A t \in Tokens :
       Live(t) /\ tokens'[t] # Nil /\ ~(tokens[t].marks \subseteq tokens'[t].marks)
         => /\ ConfigState(config[tokens'[t].config].marks) = "expired"
            /\ config'[tokens'[t].config].marks = {}]_vars

(* An activation expires the token that was active before (pivtokens.js     *)
(* 463-464), so a PIV token never has two active tokens.                    *)
OneActive ==
  \A t, u \in Tokens :
    Active(t) /\ Active(u) /\ tokens[t].pivtoken = tokens[u].pivtoken => t = u

(* There is one and only one staged token to activate (recovery-token.js    *)
(* 406-408).                                                                *)
OneStaged ==
  \A t, u \in Tokens :
    Staged(t) /\ Staged(u) /\ tokens[t].pivtoken = tokens[u].pivtoken => t = u

(* A configuration only expires straight from active (fsm-transition.js     *)
(* 71-75): not while its tokens are still to be staged or activated.  Not   *)
(* checked by a run: TLC refutes it (README, disagreements).                *)
OnlyActiveExpire ==
  [][\A c \in Configs :
       "expired" \in config'[c].marks \ config[c].marks
         => ConfigState(config[c].marks) = "active"]_vars

(* The slots of TokenSlots: the token of each PIV token that is pristine,   *)
(* staged, active.                                                          *)
The(S) == IF S = {} THEN Nil ELSE CHOOSE t \in S : TRUE

CreatedSlot == [p \in PivTokens |-> The({t \in Tokens : Of(t, p) /\ Pristine(t)})]
StagedSlot == [p \in PivTokens |-> The({t \in Tokens : Of(t, p) /\ Staged(t)})]
ActiveSlot == [p \in PivTokens |-> The({t \in Tokens : Of(t, p) /\ Active(t)})]

Slots == INSTANCE TokenSlots WITH created <- CreatedSlot,
                                  staged <- StagedSlot,
                                  active <- ActiveSlot

(* On its documented path a token only moves from created to staged to      *)
(* active, and each move retires the token that held the place, although    *)
(* each handler acts on what it read before (pivtokens.js 454-465).         *)
ImplementsSlots == Slots!Spec
=============================================================================
