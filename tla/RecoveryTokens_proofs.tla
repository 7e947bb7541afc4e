----------------------- MODULE RecoveryTokens_proofs -----------------------
(* What RecoveryTokens guarantees for every set of PIV tokens, tokens and  *)
(* handlers and every bound.                                               *)
EXTENDS RecoveryTokens, TLAPS

-----------------------------------------------------------------------------
(* Moray operations and handlers *)

(* Adding marks to a row gives a row. *)
LEMMA MarkedType ==
  ASSUME NEW row \in Row, NEW ms \in SUBSET Marks
  PROVE  /\ Marked(row, ms) \in Row
         /\ Marked(row, ms).marks = row.marks \cup ms
         /\ Marked(row, ms).pivtoken = row.pivtoken
         /\ Marked(row, ms).config = row.config
BY DEF Marked, Row

RowsOK ==
  /\ tokens \in [Tokens -> Row \cup {Nil}]
  /\ etag \in [Tokens -> Nat]

(* A batch of well-typed puts leaves well-typed rows. *)
LEMMA BatchType ==
  ASSUME RowsOK,
         NEW expire, expire \subseteq {t \in Tokens : Live(t)},
         NEW puts, DOMAIN puts \subseteq Tokens,
         \A t \in DOMAIN puts : puts[t] \in Row,
         Batch(expire, puts)
  PROVE  RowsOK'
<1>1. \A t \in expire : Marked(tokens[t], {"expired"}) \in Row
  BY MarkedType DEF RowsOK, Live, Marks
<1>. QED
  BY <1>1 DEF RowsOK, Batch, Touched

(* A handler that starts awaiting, or finishes, leaves the contexts of the *)
(* others as they were.                                                    *)
LEMMA AwaitContext ==
  ASSUME TypeOK, NEW h \in Handlers, NEW label \in Labels, NEW c,
         Await(h, label, c)
  PROVE  /\ DOMAIN ctx' = Handlers
         /\ pc'[h] = label /\ ctx'[h] = c
         /\ \A g \in Handlers \ {h} : pc'[g] = pc[g] /\ ctx'[g] = ctx[g]
         /\ pc' \in [Handlers -> Labels]
BY DEF Await, TypeOK

LEMMA FinishContext ==
  ASSUME TypeOK, NEW h \in Handlers, Finish(h)
  PROVE  /\ DOMAIN ctx' = Handlers
         /\ pc'[h] = "idle" /\ ctx'[h] = Nil
         /\ \A g \in Handlers \ {h} : pc'[g] = pc[g] /\ ctx'[g] = ctx[g]
         /\ pc' \in [Handlers -> Labels]
BY DEF Finish, TypeOK, Labels

(* A finished handler carries nothing, so the contexts stay well-typed. *)
LEMMA FinishType ==
  ASSUME TypeOK, NEW h \in Handlers, Finish(h)
  PROVE  DOMAIN ctx' = Handlers /\ pc' \in [Handlers -> Labels]
           /\ \A g \in Handlers : ContextOK(g)'
BY FinishContext DEF TypeOK, ContextOK

-----------------------------------------------------------------------------
(* Type correctness *)

LEMMA TypeOKInit == Init => TypeOK
<1> SUFFICES ASSUME Init
             PROVE  TypeOK
  OBVIOUS
<1>1. PICK initial \in SUBSET Configs :
        config = [c \in Configs |->
                    [marks |-> IF c \in initial THEN {"staged", "activated"} ELSE {},
                     etag  |-> 0]]
  BY DEF Init
<1>2. config \in [Configs -> [marks : SUBSET Marks, etag : Nat]]
  BY <1>1 DEF Marks
<1> QED
  BY <1>2 DEF Init, TypeOK, ContextOK, Labels

LEMMA NewbornType ==
  ASSUME TypeOK, NEW p \in PivTokens, NEW c \in Configs
  PROVE  Newborn(p, c) \in Row
BY DEF Newborn, BirthMarks, Marks, Row, TypeOK

LEMMA TypeOKCreateFetch ==
  ASSUME TypeOK, NEW h \in Handlers, NEW p \in PivTokens, NEW c \in Configs,
         NEW t \in Tokens, CreateFetchConfig(h, p, c, t)
  PROVE  TypeOK'
<1>1. [token |-> t, row |-> Newborn(p, c)] \in CreateCtx
  BY NewbornType DEF CreateCtx
<1>2. "create" \in Labels
  BY DEF Labels
<1>. QED
  BY <1>1, <1>2, AwaitContext DEF CreateFetchConfig, TypeOK, ContextOK

LEMMA TypeOKCreatePivGetConfig ==
  ASSUME TypeOK, NEW h \in Handlers, NEW p \in PivTokens, NEW c \in Configs,
         NEW t \in Tokens, CreatePivGetConfig(h, p, c, t)
  PROVE  TypeOK'
<1>1. [token |-> t, row |-> Newborn(p, c)] \in CreateCtx
  BY NewbornType DEF CreateCtx
<1>2. "provision" \in Labels
  BY DEF Labels
<1>. QED
  BY <1>1, <1>2, AwaitContext DEF CreatePivGetConfig, TypeOK, ContextOK

LEMMA TypeOKCreatePivBatch ==
  ASSUME TypeOK, NEW h \in Handlers, CreatePivBatch(h)
  PROVE  TypeOK'
<1> DEFINE t == ctx[h].token
           p == ctx[h].row.pivtoken
           puts == [u \in {t} |-> ctx[h].row]
<1>1. ctx[h] \in CreateCtx /\ RowsOK
  BY DEF CreatePivBatch, TypeOK, ContextOK, RowsOK
<1>2. CASE piv[p] = "here" \/ Live(t)
  BY <1>1, <1>2, FinishType DEF CreatePivBatch, TypeOK, RowsOK
<1>3. CASE ~(piv[p] = "here" \/ Live(t))
  <2>1. /\ Batch({}, puts)
        /\ piv' = [piv EXCEPT ![p] = "here"]
        /\ first' = [first EXCEPT ![p] = t]
    BY <1>3 DEF CreatePivBatch
  <2>2. DOMAIN puts \subseteq Tokens /\ \A u \in DOMAIN puts : puts[u] \in Row
    BY <1>1 DEF CreateCtx
  <2>3. /\ piv' \in [PivTokens -> {"new", "here", "gone"}]
        /\ first' \in [PivTokens -> Tokens \cup {Nil}]
    BY <1>1, <2>1 DEF TypeOK, CreateCtx
  <2> HIDE DEF puts
  <2>4. RowsOK'
    BY <1>1, <2>1, <2>2, BatchType
  <2>. QED
    BY <2>3, <2>4, FinishType DEF CreatePivBatch, TypeOK, RowsOK
<1>. QED  BY <1>2, <1>3

LEMMA TypeOKCreateBatch ==
  ASSUME TypeOK, NEW h \in Handlers, CreateBatch(h)
  PROVE  TypeOK'
<1>1. ctx[h] \in CreateCtx /\ RowsOK
  BY DEF CreateBatch, TypeOK, ContextOK, RowsOK
<1>2. CASE Live(ctx[h].token)
  BY <1>1, <1>2, FinishType DEF CreateBatch, TypeOK, RowsOK
<1>3. CASE ~Live(ctx[h].token)
  <2> DEFINE expire == PristineOf(ctx[h].row.pivtoken)
             puts == [u \in {ctx[h].token} |-> ctx[h].row]
  <2>1. Batch(expire, puts)
    BY <1>3 DEF CreateBatch
  <2>2. expire \subseteq {t \in Tokens : Live(t)}
    BY DEF Of, PristineOf
  <2>3. DOMAIN puts \subseteq Tokens /\ \A t \in DOMAIN puts : puts[t] \in Row
    BY <1>1 DEF CreateCtx
  <2> HIDE DEF expire, puts
  <2>4. RowsOK'
    BY <1>1, <2>1, <2>2, <2>3, BatchType
  <2>. QED
    BY <2>4, FinishType DEF CreateBatch, TypeOK, RowsOK
<1>. QED  BY <1>2, <1>3

LEMMA TypeOKSetStaged ==
  ASSUME TypeOK, NEW p \in PivTokens, NEW c \in Configs, NEW t \in Tokens,
         SetStaged(p, c, t)
  PROVE  TypeOK'
<1> DEFINE expire == OtherStaged(p, t)
           staging == {v \in {t} : /\ Live(v)
                                   /\ tokens[v].config = c
                                   /\ ~Has(v, "staged")
                                   /\ ~Has(v, "expired")}
           puts == [u \in staging |-> Marked(tokens[u], {"staged"})]
<1>1. Batch(expire, puts)
  BY DEF SetStaged
<1>2. expire \subseteq {u \in Tokens : Live(u)}
  BY DEF Of, OtherStaged
<1>3. \A u \in staging : u \in Tokens /\ tokens[u] \in Row
  BY DEF TypeOK, Live
<1>4. \A u \in staging : Marked(tokens[u], {"staged"}) \in Row
  BY <1>3, MarkedType DEF Marks
<1>5. DOMAIN puts \subseteq Tokens /\ \A u \in DOMAIN puts : puts[u] \in Row
  BY <1>3, <1>4
<1>6. RowsOK
  BY DEF RowsOK, TypeOK
<1> HIDE DEF expire, puts
<1>7. RowsOK'
  BY <1>1, <1>2, <1>5, <1>6, BatchType
<1>. QED
  BY <1>7 DEF SetStaged, TypeOK, RowsOK, ContextOK

LEMMA TypeOKSetActiveList ==
  ASSUME TypeOK, NEW h \in Handlers, NEW p \in PivTokens, NEW c \in Configs,
         SetActiveList(h, p, c)
  PROVE  TypeOK'
<1>1. PICK t \in StagedFor(p, c) :
        Await(h, "activate", [token |-> t, pivtoken |-> p])
  BY DEF SetActiveList
<1>2. [token |-> t, pivtoken |-> p] \in ActivateCtx
  BY DEF StagedFor, ActivateCtx
<1>3. "activate" \in Labels
  BY DEF Labels
<1>. QED
  BY <1>1, <1>2, <1>3, AwaitContext DEF SetActiveList, TypeOK, ContextOK

LEMMA TypeOKSetActiveBatch ==
  ASSUME TypeOK, NEW h \in Handlers, SetActiveBatch(h)
  PROVE  TypeOK'
<1>1. ctx[h] \in ActivateCtx /\ RowsOK
  BY DEF SetActiveBatch, TypeOK, ContextOK, RowsOK
<1> DEFINE t == ctx[h].token
           expire == OtherActive(ctx[h].pivtoken, t)
           found == {v \in {t} : Live(v)}
           puts == [u \in found |-> Marked(tokens[u], {"activated"})]
<1>2. Batch(expire, puts)
  BY DEF SetActiveBatch
<1>3. expire \subseteq {u \in Tokens : Live(u)}
  BY DEF Of, OtherActive
<1>4. \A u \in found : u \in Tokens /\ tokens[u] \in Row
  BY <1>1 DEF RowsOK, Live, ActivateCtx
<1>5. \A u \in found : Marked(tokens[u], {"activated"}) \in Row
  BY <1>4, MarkedType DEF Marks
<1>6. DOMAIN puts \subseteq Tokens /\ \A u \in DOMAIN puts : puts[u] \in Row
  BY <1>4, <1>5
<1> HIDE DEF expire, puts
<1>7. RowsOK'
  BY <1>1, <1>2, <1>3, <1>6, BatchType
<1>. QED
  BY <1>7, FinishType DEF SetActiveBatch, TypeOK, RowsOK

LEMMA TypeOKUpdateGet ==
  ASSUME TypeOK, NEW h \in Handlers, NEW t \in Tokens, NEW val \in Updates,
         UpdateGet(h, t, val)
  PROVE  TypeOK'
<1>1. [token |-> t, seen |-> tokens[t], etag |-> etag[t], val |-> val] \in UpdateCtx
  BY DEF UpdateGet, UpdateCtx, TypeOK, Live
<1>2. "update" \in Labels
  BY DEF Labels
<1>. QED
  BY <1>1, <1>2, AwaitContext DEF UpdateGet, TypeOK, ContextOK

LEMMA TypeOKUpdateBatch ==
  ASSUME TypeOK, NEW h \in Handlers, UpdateBatch(h)
  PROVE  TypeOK'
<1>1. ctx[h] \in UpdateCtx /\ RowsOK
  BY DEF UpdateBatch, Accepts, TypeOK, ContextOK, RowsOK
<1> DEFINE t == ctx[h].token
<1>2. CASE Live(t) /\ etag[t] = ctx[h].etag
  <2> DEFINE expire == UpdateExpires(t, ctx[h].seen.pivtoken, ctx[h].val)
             puts == [u \in {t} |-> Marked(ctx[h].seen, ctx[h].val)]
  <2>1. Batch(expire, puts)
    BY <1>2 DEF UpdateBatch, Accepts
  <2>2. expire \subseteq {u \in Tokens : Live(u)}
    BY DEF UpdateExpires, Of
  <2>3. ctx[h].seen \in Row /\ ctx[h].val \in SUBSET Marks /\ t \in Tokens
    BY <1>1, UpdatesAssumption DEF UpdateCtx
  <2>4. Marked(ctx[h].seen, ctx[h].val) \in Row
    BY <2>3, MarkedType
  <2>5. DOMAIN puts \subseteq Tokens /\ \A u \in DOMAIN puts : puts[u] \in Row
    BY <2>3, <2>4
  <2> HIDE DEF expire, puts
  <2>6. RowsOK'
    BY <1>1, <2>1, <2>2, <2>5, BatchType
  <2>. QED
    BY <2>6, FinishType DEF UpdateBatch, Accepts, TypeOK, RowsOK
<1>3. CASE ~(Live(t) /\ etag[t] = ctx[h].etag)
  BY <1>3, FinishType DEF UpdateBatch, Accepts, TypeOK
<1>. QED  BY <1>2, <1>3

LEMMA TypeOKRemove ==
  ASSUME TypeOK, NEW S, Remove(S), UNCHANGED <<config, piv, first, pc, ctx>>
  PROVE  TypeOK'
BY DEF Remove, TypeOK, ContextOK

LEMMA TypeOKDeletePivToken ==
  ASSUME TypeOK, NEW p \in PivTokens, DeletePivToken(p)
  PROVE  TypeOK'
<1>1. /\ piv' \in [PivTokens -> {"new", "here", "gone"}]
      /\ first' \in [PivTokens -> Tokens \cup {Nil}]
  BY DEF DeletePivToken, TypeOK
<1>. QED
  BY <1>1 DEF DeletePivToken, Remove, TypeOK, ContextOK

LEMMA ConfigToType ==
  ASSUME TypeOK, NEW c \in Configs, NEW marks \in SUBSET Marks, ConfigTo(c, marks)
  PROVE  config' \in [Configs -> [marks : SUBSET Marks, etag : Nat]]
<1>1. config[c] \in [marks : SUBSET Marks, etag : Nat]
  BY DEF TypeOK
<1>2. [marks |-> marks, etag |-> config[c].etag + 1] \in [marks : SUBSET Marks, etag : Nat]
  BY <1>1
<1>. QED
  BY <1>2 DEF ConfigTo, TypeOK

LEMMA TypeOKConfigStep ==
  ASSUME TypeOK, NEW c \in Configs, ConfigStep(c)
  PROVE  TypeOK'
<1>1. config[c].marks \in SUBSET Marks
  BY DEF TypeOK
<1>2. PICK marks \in SUBSET Marks : ConfigTo(c, marks)
  BY <1>1 DEF ConfigStep, Marks
<1>. QED
  BY <1>2, ConfigToType DEF ConfigStep, TypeOK, ContextOK

LEMMA TypeOKExpireConfig ==
  ASSUME TypeOK, NEW c \in Configs, ExpireConfig(c)
  PROVE  TypeOK'
<1> DEFINE expire == {t \in Tokens : /\ Live(t)
                                     /\ tokens[t].config = c
                                     /\ ~Has(t, "expired")}
<1>1. Batch(expire, <<>>)
  BY DEF ExpireConfig
<1>2. expire \subseteq {t \in Tokens : Live(t)}
  OBVIOUS
<1>3. RowsOK
  BY DEF RowsOK, TypeOK
<1> HIDE DEF expire
<1>4. RowsOK'
  BY <1>1, <1>2, <1>3, BatchType
<1>5. config' \in [Configs -> [marks : SUBSET Marks, etag : Nat]]
  BY ConfigToType DEF ExpireConfig, TypeOK, Marks
<1>. QED
  BY <1>4, <1>5 DEF ExpireConfig, TypeOK, RowsOK, ContextOK

LEMMA TypeOKExpireUnusedConfig ==
  ASSUME TypeOK, NEW c \in Configs, ExpireUnusedConfig(c)
  PROVE  TypeOK'
<1>1. config' \in [Configs -> [marks : SUBSET Marks, etag : Nat]]
  BY ConfigToType DEF ExpireUnusedConfig, TypeOK, Marks
<1>. QED
  BY <1>1 DEF ExpireUnusedConfig, TypeOK, ContextOK

LEMMA TypeOKReactivateList ==
  ASSUME TypeOK, NEW h \in Handlers, NEW c \in Configs, ReactivateList(h, c)
  PROVE  TypeOK'
<1> DEFINE listed == {u \in Tokens : Live(u) /\ tokens[u].config = c}
           seen == [t \in listed |-> tokens[t]]
           context == [config |-> c, etag |-> config[c].etag, seen |-> seen]
<1>1. Await(h, "reactivate", context)
  BY DEF ReactivateList
<1>2. \A t \in listed : tokens[t] \in Row
  BY DEF TypeOK, Live
<1>3. IsReactivateCtx(context)
  BY <1>2 DEF IsReactivateCtx, TypeOK
<1>4. "reactivate" \in Labels
  BY DEF Labels
<1> HIDE DEF context
<1>. QED
  BY <1>1, <1>3, <1>4, AwaitContext DEF ReactivateList, TypeOK, ContextOK

LEMMA TypeOKReactivateBatch ==
  ASSUME TypeOK, NEW h \in Handlers, ReactivateBatch(h)
  PROVE  TypeOK'
<1>1. IsReactivateCtx(ctx[h]) /\ RowsOK
  BY DEF ReactivateBatch, TypeOK, ContextOK, RowsOK
<1>2. CASE config[ctx[h].config].etag = ctx[h].etag
  <2> DEFINE seen == ctx[h].seen
             puts == [t \in DOMAIN seen |-> [seen[t] EXCEPT !.marks = {}]]
  <2>1. Batch({}, puts) /\ ConfigTo(ctx[h].config, {})
    BY <1>2 DEF ReactivateBatch
  <2>2. \A row \in Row : [row EXCEPT !.marks = {}] \in Row
    BY DEF Row
  <2>3. DOMAIN puts \subseteq Tokens /\ \A t \in DOMAIN puts : puts[t] \in Row
    BY <1>1, <2>2 DEF IsReactivateCtx
  <2> HIDE DEF puts
  <2>4. RowsOK'
    BY <1>1, <2>1, <2>3, BatchType
  <2>5. config' \in [Configs -> [marks : SUBSET Marks, etag : Nat]]
    BY <1>1, <2>1, ConfigToType DEF IsReactivateCtx
  <2>. QED
    BY <2>4, <2>5, FinishType DEF ReactivateBatch, TypeOK, RowsOK
<1>3. CASE config[ctx[h].config].etag # ctx[h].etag
  BY <1>3, FinishType DEF ReactivateBatch, TypeOK
<1>. QED  BY <1>2, <1>3

LEMMA TypeOKNext == TypeOK /\ [Next]_vars => TypeOK'
<1> SUFFICES ASSUME TypeOK, [Next]_vars PROVE TypeOK'
  OBVIOUS
<1>1. ASSUME NEW h \in Handlers, NEW p \in PivTokens, NEW c \in Configs,
             NEW t \in Tokens, CreateFetchConfig(h, p, c, t)
      PROVE  TypeOK'
  BY <1>1, TypeOKCreateFetch
<1>2. ASSUME NEW h \in Handlers, CreateBatch(h) PROVE TypeOK'
  BY <1>2, TypeOKCreateBatch
<1>3. ASSUME NEW p \in PivTokens, NEW c \in Configs, NEW t \in Tokens,
             SetStaged(p, c, t)
      PROVE  TypeOK'
  BY <1>3, TypeOKSetStaged
<1>4. ASSUME NEW h \in Handlers, NEW p \in PivTokens, NEW c \in Configs,
             SetActiveList(h, p, c)
      PROVE  TypeOK'
  BY <1>4, TypeOKSetActiveList
<1>5. ASSUME NEW h \in Handlers, SetActiveBatch(h) PROVE TypeOK'
  BY <1>5, TypeOKSetActiveBatch
<1>6. ASSUME NEW h \in Handlers, NEW t \in Tokens, NEW val \in Updates,
             UpdateGet(h, t, val)
      PROVE  TypeOK'
  BY <1>6, TypeOKUpdateGet
<1>7. ASSUME NEW h \in Handlers, UpdateBatch(h) PROVE TypeOK'
  BY <1>7, TypeOKUpdateBatch
<1>8. ASSUME NEW t \in Tokens, Delete(t) PROVE TypeOK'
  BY <1>8, TypeOKRemove DEF Delete
<1>9. ASSUME NEW S \in SUBSET Tokens, Prune(S) PROVE TypeOK'
  BY <1>9, TypeOKRemove DEF Prune
<1>10. ASSUME NEW p \in PivTokens, DeletePivToken(p) PROVE TypeOK'
  BY <1>10, TypeOKDeletePivToken
<1>11. ASSUME NEW c \in Configs, ConfigStep(c) PROVE TypeOK'
  BY <1>11, TypeOKConfigStep
<1>12. ASSUME NEW c \in Configs, ExpireConfig(c) PROVE TypeOK'
  BY <1>12, TypeOKExpireConfig
<1>13. ASSUME NEW c \in Configs, ExpireUnusedConfig(c) PROVE TypeOK'
  BY <1>13, TypeOKExpireUnusedConfig
<1>14. ASSUME NEW h \in Handlers, NEW c \in Configs, ReactivateList(h, c)
       PROVE  TypeOK'
  BY <1>14, TypeOKReactivateList
<1>15. ASSUME NEW h \in Handlers, ReactivateBatch(h) PROVE TypeOK'
  BY <1>15, TypeOKReactivateBatch
<1>16. ASSUME NEW h \in Handlers, NEW p \in PivTokens, NEW c \in Configs,
              NEW t \in Tokens, CreatePivGetConfig(h, p, c, t)
       PROVE  TypeOK'
  BY <1>16, TypeOKCreatePivGetConfig
<1>17. ASSUME NEW h \in Handlers, CreatePivBatch(h) PROVE TypeOK'
  BY <1>17, TypeOKCreatePivBatch
<1>18. CASE UNCHANGED vars
  BY <1>18 DEF vars, TypeOK, ContextOK
<1>. QED
  BY <1>1, <1>2, <1>3, <1>4, <1>5, <1>6, <1>7, <1>8, <1>9, <1>10, <1>11,
     <1>12, <1>13, <1>14, <1>15, <1>16, <1>17, <1>18 DEF Next, Shared

(* The rows, etags and contexts of the handlers keep their types, whatever *)
(* requests race (recovery-token.js).                                      *)
THEOREM TypeCorrect == Spec => []TypeOK
BY TypeOKInit, TypeOKNext, PTL DEF Spec

-----------------------------------------------------------------------------
(* Etags tell stale reads *)

(* What a step does to a row: it bumps its etag, leaves it alone or deletes *)
(* it; and the same for a configuration.                                    *)
RowStep(t) ==
  /\ etag'[t] >= etag[t]
  /\ etag'[t] = etag[t] => tokens'[t] \in {tokens[t], Nil}

ConfigRowStep(c) ==
  /\ config'[c].etag >= config[c].etag
  /\ config'[c].etag = config[c].etag => config'[c] = config[c]

LEMMA BatchRowStep ==
  ASSUME RowsOK, NEW expire, NEW puts, Batch(expire, puts)
  PROVE  \A t \in Tokens : RowStep(t)
BY DEF RowsOK, Batch, Touched, RowStep

LEMMA RemoveRowStep ==
  ASSUME RowsOK, NEW S, Remove(S)
  PROVE  \A t \in Tokens : RowStep(t)
BY DEF RowsOK, Remove, RowStep

LEMMA SameRowStep ==
  ASSUME RowsOK, UNCHANGED <<tokens, etag>>
  PROVE  \A t \in Tokens : RowStep(t)
BY DEF RowsOK, RowStep

LEMMA EveryRowStep ==
  ASSUME TypeOK, [Next]_vars
  PROVE  \A t \in Tokens : RowStep(t)
<1>1. RowsOK
  BY DEF RowsOK, TypeOK
<1>2. \/ \E expire, puts : Batch(expire, puts)
      \/ \E S : Remove(S)
      \/ UNCHANGED <<tokens, etag>>
  <2>1. ASSUME NEW h \in Handlers, CreateBatch(h) PROVE <1>2
    BY <2>1 DEF CreateBatch
  <2>2. ASSUME NEW h \in Handlers, SetActiveBatch(h) PROVE <1>2
    BY <2>2 DEF SetActiveBatch
  <2>3. ASSUME NEW h \in Handlers, UpdateBatch(h) PROVE <1>2
    BY <2>3 DEF UpdateBatch, Accepts
  <2>4. ASSUME NEW h \in Handlers, ReactivateBatch(h) PROVE <1>2
    BY <2>4 DEF ReactivateBatch
  <2>5. ASSUME NEW c \in Configs,
               ConfigStep(c) \/ ExpireConfig(c) \/ ExpireUnusedConfig(c)
        PROVE  <1>2
    BY <2>5 DEF ConfigStep, ExpireConfig, ExpireUnusedConfig
  <2>6. ASSUME NEW p \in PivTokens, NEW c \in Configs, NEW t \in Tokens,
               SetStaged(p, c, t)
        PROVE  <1>2
    BY <2>6 DEF SetStaged
  <2>7. ASSUME NEW t \in Tokens, Delete(t) PROVE <1>2
    BY <2>7 DEF Delete
  <2>8. ASSUME NEW S \in SUBSET Tokens, Prune(S) PROVE <1>2
    BY <2>8 DEF Prune
  <2>9. ASSUME NEW p \in PivTokens, DeletePivToken(p) PROVE <1>2
    BY <2>9 DEF DeletePivToken
  <2>10. ASSUME NEW h \in Handlers, CreatePivBatch(h) PROVE <1>2
    BY <2>10 DEF CreatePivBatch
  <2>. QED
    BY <2>1, <2>2, <2>3, <2>4, <2>5, <2>6, <2>7, <2>8, <2>9, <2>10
    DEF Next, Shared, vars, CreateFetchConfig, CreatePivGetConfig,
        SetActiveList, UpdateGet, ReactivateList
<1>. QED
  BY <1>1, <1>2, BatchRowStep, RemoveRowStep, SameRowStep

LEMMA EveryConfigRowStep ==
  ASSUME TypeOK, [Next]_vars
  PROVE  \A c \in Configs : ConfigRowStep(c)
<1>1. \A c \in Configs : config[c].etag \in Nat
  BY DEF TypeOK
<1>2. (\E c \in Configs : \E marks : ConfigTo(c, marks)) \/ UNCHANGED config
  <2>1. ASSUME NEW h \in Handlers, ReactivateBatch(h) PROVE <1>2
    BY <2>1 DEF ReactivateBatch, TypeOK, ContextOK, IsReactivateCtx
  <2>2. ASSUME NEW c \in Configs,
               ConfigStep(c) \/ ExpireConfig(c) \/ ExpireUnusedConfig(c)
        PROVE  <1>2
    BY <2>2 DEF ConfigStep, ExpireConfig, ExpireUnusedConfig
  <2>3. ASSUME NEW h \in Handlers,
               \/ CreateBatch(h) \/ CreatePivBatch(h)
               \/ SetActiveBatch(h) \/ UpdateBatch(h)
        PROVE  UNCHANGED config
    BY <2>3 DEF CreateBatch, CreatePivBatch, SetActiveBatch, UpdateBatch
  <2>. QED
    BY <2>1, <2>2, <2>3
    DEF Next, Shared, vars, CreateFetchConfig, CreatePivGetConfig, SetStaged,
        SetActiveList, UpdateGet, Delete, Prune, DeletePivToken, ReactivateList
<1>. QED
  BY <1>1, <1>2 DEF ConfigTo, ConfigRowStep, TypeOK

(* A handler awaits its batch since it has read, or carries on as it was.  *)
LEMMA WhoAwaits ==
  ASSUME TypeOK, [Next]_vars, NEW h \in Handlers, pc'[h] # "idle"
  PROVE  \/ pc'[h] = pc[h] /\ ctx'[h] = ctx[h]
         \/ pc'[h] = "create"
         \/ pc'[h] = "provision"
         \/ pc'[h] = "activate"
         \/ pc'[h] = "update" /\ \E t \in Tokens, val \in Updates : UpdateGet(h, t, val)
         \/ pc'[h] = "reactivate" /\ \E c \in Configs : ReactivateList(h, c)
<1>1. pc \in [Handlers -> Labels] /\ DOMAIN ctx = Handlers
  BY DEF TypeOK
<1>2. ASSUME NEW g \in Handlers, NEW label, NEW c, Await(g, label, c)
      PROVE  /\ pc'[g] = label
             /\ g # h => pc'[h] = pc[h] /\ ctx'[h] = ctx[h]
  BY <1>1, <1>2 DEF Await
<1>3. ASSUME NEW g \in Handlers, Finish(g)
      PROVE  pc'[h] = pc[h] /\ ctx'[h] = ctx[h]
  BY <1>1, <1>3 DEF Finish
<1>4. ASSUME NEW g \in Handlers,
             \/ CreateBatch(g) \/ CreatePivBatch(g) \/ SetActiveBatch(g)
             \/ UpdateBatch(g) \/ ReactivateBatch(g)
      PROVE  Finish(g)
  BY <1>4 DEF CreateBatch, CreatePivBatch, SetActiveBatch, UpdateBatch,
              ReactivateBatch
<1>5. ASSUME NEW g \in Handlers, NEW p \in PivTokens, NEW c \in Configs,
             NEW t \in Tokens,
             CreateFetchConfig(g, p, c, t) \/ CreatePivGetConfig(g, p, c, t)
      PROVE  \/ pc'[h] = pc[h] /\ ctx'[h] = ctx[h]
             \/ pc'[h] \in {"create", "provision"}
  BY <1>2, <1>5 DEF CreateFetchConfig, CreatePivGetConfig
<1>6. ASSUME NEW g \in Handlers, NEW p \in PivTokens, NEW c \in Configs,
             SetActiveList(g, p, c)
      PROVE  \/ pc'[h] = pc[h] /\ ctx'[h] = ctx[h]
             \/ pc'[h] = "activate"
  BY <1>2, <1>6 DEF SetActiveList
<1>7. ASSUME NEW g \in Handlers, NEW t \in Tokens, NEW val \in Updates,
             UpdateGet(g, t, val)
      PROVE  \/ pc'[h] = pc[h] /\ ctx'[h] = ctx[h]
             \/ pc'[h] = "update" /\ UpdateGet(h, t, val)
  BY <1>2, <1>7 DEF UpdateGet
<1>8. ASSUME NEW g \in Handlers, NEW c \in Configs, ReactivateList(g, c)
      PROVE  \/ pc'[h] = pc[h] /\ ctx'[h] = ctx[h]
             \/ pc'[h] = "reactivate" /\ ReactivateList(h, c)
  BY <1>2, <1>8 DEF ReactivateList
<1>9. CASE UNCHANGED <<pc, ctx>>
  BY <1>9
<1>. QED
  BY <1>3, <1>4, <1>5, <1>6, <1>7, <1>8, <1>9
  DEF Next, Shared, vars, SetStaged, Delete, Prune, DeletePivToken,
      ConfigStep, ExpireConfig, ExpireUnusedConfig

LEMMA WhoAwaitsUpdate ==
  ASSUME TypeOK, [Next]_vars, NEW h \in Handlers, pc'[h] = "update"
  PROVE  \/ pc[h] = "update" /\ ctx'[h] = ctx[h]
         \/ \E t \in Tokens, val \in Updates : UpdateGet(h, t, val)
BY WhoAwaits

LEMMA WhoAwaitsReactivate ==
  ASSUME TypeOK, [Next]_vars, NEW h \in Handlers, pc'[h] = "reactivate"
  PROVE  \/ pc[h] = "reactivate" /\ ctx'[h] = ctx[h]
         \/ \E c \in Configs : ReactivateList(h, c)
BY WhoAwaits

LEMMA EtagsTellInit == Init => EtagsTell
BY DEF Init, EtagsTell, UpdateIsFresh, ReactivationIsFresh

LEMMA UpdateStaysFresh ==
  ASSUME TypeOK, TypeOK', EtagsTell, [Next]_vars, NEW h \in Handlers
  PROVE  UpdateIsFresh(h)'
<1> SUFFICES ASSUME pc'[h] = "update" PROVE UpdateIsFresh(h)'
  BY DEF UpdateIsFresh
<1>1. CASE pc[h] = "update" /\ ctx'[h] = ctx[h]
  <2> DEFINE t == ctx[h].token
  <2>1. t \in Tokens /\ ctx[h].etag \in Nat
    BY <1>1 DEF TypeOK, ContextOK, UpdateCtx
  <2>2. /\ ctx[h].etag <= etag[t]
        /\ Live(t) /\ ctx[h].etag = etag[t] => tokens[t] = ctx[h].seen
    BY <1>1 DEF EtagsTell, UpdateIsFresh
  <2>3. RowStep(t) /\ etag[t] \in Nat /\ etag'[t] \in Nat
    BY <2>1, EveryRowStep DEF TypeOK
  <2>4. ctx[h].etag <= etag'[t]
    BY <2>1, <2>2, <2>3 DEF RowStep
  <2>5. ASSUME tokens'[t] # Nil, ctx[h].etag = etag'[t]
        PROVE  tokens'[t] = ctx[h].seen
    BY <2>1, <2>2, <2>3, <2>5 DEF RowStep, Live
  <2>. QED
    BY <1>1, <2>4, <2>5 DEF UpdateIsFresh, Live
<1>2. ASSUME NEW t \in Tokens, NEW val \in Updates, UpdateGet(h, t, val)
      PROVE  UpdateIsFresh(h)'
  <2>1. ctx'[h] = [token |-> t, seen |-> tokens[t], etag |-> etag[t], val |-> val]
    BY <1>2 DEF UpdateGet, Await, TypeOK
  <2>2. ctx'[h].token = t /\ ctx'[h].seen = tokens[t] /\ ctx'[h].etag = etag[t]
    BY <2>1
  <2>3. tokens' = tokens /\ etag' = etag /\ etag[t] \in Nat
    BY <1>2 DEF UpdateGet, TypeOK
  <2>. QED
    BY <2>2, <2>3 DEF UpdateIsFresh, Live
<1>. QED
  BY <1>1, <1>2, WhoAwaitsUpdate

LEMMA ReactivationStaysFresh ==
  ASSUME TypeOK, TypeOK', EtagsTell, [Next]_vars, NEW h \in Handlers
  PROVE  ReactivationIsFresh(h)'
<1> SUFFICES ASSUME pc'[h] = "reactivate" PROVE ReactivationIsFresh(h)'
  BY DEF ReactivationIsFresh
<1>1. CASE pc[h] = "reactivate" /\ ctx'[h] = ctx[h]
  <2> DEFINE c == ctx[h].config
  <2>1. c \in Configs /\ ctx[h].etag \in Nat
    BY <1>1 DEF TypeOK, ContextOK, IsReactivateCtx
  <2>2. /\ ctx[h].etag <= config[c].etag
        /\ ctx[h].etag = config[c].etag => ConfigState(config[c].marks) = "expired"
        /\ c \in Reactivatable
        /\ \A t \in DOMAIN ctx[h].seen : ctx[h].seen[t].config = c
    BY <1>1 DEF EtagsTell, ReactivationIsFresh
  <2>3. ConfigRowStep(c) /\ config[c].etag \in Nat /\ config'[c].etag \in Nat
    BY <2>1, EveryConfigRowStep DEF TypeOK
  <2>4. /\ ctx[h].etag <= config'[c].etag
        /\ ctx[h].etag = config'[c].etag => ConfigState(config'[c].marks) = "expired"
    BY <2>1, <2>2, <2>3 DEF ConfigRowStep
  <2>. QED
    BY <1>1, <2>2, <2>4 DEF ReactivationIsFresh
<1>2. ASSUME NEW c \in Configs, ReactivateList(h, c)
      PROVE  ReactivationIsFresh(h)'
  <2> DEFINE listed == {u \in Tokens : Live(u) /\ tokens[u].config = c}
             seen == [t \in listed |-> tokens[t]]
  <2>1. ctx'[h] = [config |-> c, etag |-> config[c].etag, seen |-> seen]
    BY <1>2 DEF ReactivateList, Await, TypeOK
  <2>2. \A t \in DOMAIN seen : seen[t].config = c
    OBVIOUS
  <2> HIDE DEF seen
  <2>3. ctx'[h].config = c /\ ctx'[h].seen = seen /\ ctx'[h].etag = config[c].etag
    BY <2>1
  <2>4. /\ config' = config /\ config[c].etag \in Nat
        /\ c \in Reactivatable /\ ConfigState(config[c].marks) = "expired"
    BY <1>2 DEF ReactivateList, TypeOK
  <2>. QED
    BY <2>2, <2>3, <2>4 DEF ReactivationIsFresh
<1>. QED
  BY <1>1, <1>2, WhoAwaitsReactivate

(* Whatever requests race, a handler whose etag still matches puts back    *)
(* what is really there (recovery-token.js 264-307).                       *)
THEOREM StaleReadsAreNoticed == Spec => []EtagsTell
<1>1. TypeOK /\ EtagsTell /\ [Next]_vars => TypeOK' /\ EtagsTell'
  BY TypeOKNext, UpdateStaysFresh, ReactivationStaysFresh DEF EtagsTell
<1>. QED
  BY <1>1, TypeOKInit, EtagsTellInit, PTL DEF Spec

-----------------------------------------------------------------------------
(* Marks are kept *)

(* What one step does to the row of one token.                             *)
Kept(t) == tokens'[t] \in {tokens[t], Nil}

Born(t) == /\ ~Live(t)
           /\ \E h \in Handlers : CreateBatch(h) /\ tokens'[t] = ctx[h].row

(* Born with its PIV token, which was not there. *)
Provisioned(t) ==
  /\ ~Live(t)
  /\ \E h \in Handlers :
       /\ CreatePivBatch(h) /\ t = ctx[h].token /\ tokens'[t] = ctx[h].row
       /\ piv[ctx[h].row.pivtoken] # "here"
       /\ piv' = [piv EXCEPT ![ctx[h].row.pivtoken] = "here"]
       /\ first' = [first EXCEPT ![ctx[h].row.pivtoken] = t]

(* More marks, of the same PIV token and configuration. *)
Grown(t) == /\ Live(t) /\ tokens'[t] # Nil
            /\ \E ms \in SUBSET Marks : tokens'[t] = Marked(tokens[t], ms)
            /\ tokens'[t].marks # {} \/ tokens'[t] = tokens[t]

Stripped(t) == \E h \in Handlers :
                 /\ ReactivateBatch(h)
                 /\ config[ctx[h].config].etag = ctx[h].etag
                 /\ t \in DOMAIN ctx[h].seen
                 /\ tokens'[t] = [ctx[h].seen[t] EXCEPT !.marks = {}]

LEMMA MarkedGrows ==
  ASSUME RowsOK, NEW t \in Tokens, Live(t), NEW ms \in SUBSET Marks,
         ms # {} \/ ms \subseteq tokens[t].marks,
         tokens'[t] = Marked(tokens[t], ms)
  PROVE  Grown(t)
<1>1. tokens[t] \in Row
  BY DEF RowsOK, Live
<1>2. /\ Marked(tokens[t], ms) \in Row
      /\ Marked(tokens[t], ms).marks = tokens[t].marks \cup ms
  BY <1>1, MarkedType
<1>3. CASE ms # {}
  BY <1>2, <1>3, NilAssumption DEF Grown
<1>4. CASE ms = {}
  <2>1. Marked(tokens[t], ms) = tokens[t]
    BY <1>1, <1>4 DEF Marked, Row
  <2>. QED  BY <1>2, <2>1, NilAssumption DEF Grown
<1>. QED  BY <1>3, <1>4

(* A batch expires the rows of its filter. *)
LEMMA BatchExpires ==
  ASSUME RowsOK, NEW expire, expire \subseteq {t \in Tokens : Live(t)},
         NEW puts, Batch(expire, puts),
         NEW t \in Tokens, t \notin DOMAIN puts
  PROVE  Kept(t) \/ Grown(t)
<1>1. CASE t \in expire
  <2>1. tokens'[t] = Marked(tokens[t], {"expired"}) /\ Live(t)
    BY <1>1 DEF Batch, Touched
  <2>. QED  BY <2>1, MarkedGrows DEF Marks
<1>2. CASE t \notin expire
  BY <1>2 DEF Batch, Touched, Kept
<1>. QED  BY <1>1, <1>2

LEMMA CreateBatchRows ==
  ASSUME TypeOK, NEW h \in Handlers, CreateBatch(h), NEW t \in Tokens
  PROVE  Kept(t) \/ Born(t) \/ Grown(t)
<1>1. RowsOK /\ ctx[h] \in CreateCtx
  BY DEF CreateBatch, TypeOK, ContextOK, RowsOK
<1>2. CASE Live(ctx[h].token)
  BY <1>2 DEF CreateBatch, Kept
<1>3. CASE ~Live(ctx[h].token)
  <2> DEFINE expire == PristineOf(ctx[h].row.pivtoken)
             puts == [u \in {ctx[h].token} |-> ctx[h].row]
  <2>1. Batch(expire, puts)
    BY <1>3 DEF CreateBatch
  <2>2. expire \subseteq {u \in Tokens : Live(u)}
    BY DEF Of, PristineOf
  <2>3. CASE t = ctx[h].token
    BY <1>3, <2>1, <2>3 DEF Batch, Touched, Born
  <2>4. CASE t # ctx[h].token
    <3>1. t \notin DOMAIN puts
      BY <2>4
    <3> HIDE DEF expire, puts
    <3>. QED  BY <1>1, <2>1, <2>2, <3>1, BatchExpires
  <2>. QED  BY <2>3, <2>4
<1>. QED  BY <1>2, <1>3

LEMMA CreatePivBatchRows ==
  ASSUME NEW h \in Handlers, CreatePivBatch(h), NEW t \in Tokens
  PROVE  Kept(t) \/ Provisioned(t)
<1> DEFINE puts == [u \in {ctx[h].token} |-> ctx[h].row]
<1>1. CASE piv[ctx[h].row.pivtoken] = "here" \/ Live(ctx[h].token)
  BY <1>1 DEF CreatePivBatch, Kept
<1>2. CASE ~(piv[ctx[h].row.pivtoken] = "here" \/ Live(ctx[h].token))
  <2>1. /\ Batch({}, puts)
        /\ piv' = [piv EXCEPT ![ctx[h].row.pivtoken] = "here"]
        /\ first' = [first EXCEPT ![ctx[h].row.pivtoken] = ctx[h].token]
    BY <1>2 DEF CreatePivBatch
  <2>2. CASE t = ctx[h].token
    BY <1>2, <2>1, <2>2 DEF Batch, Touched, Provisioned
  <2>3. CASE t # ctx[h].token
    BY <2>1, <2>3 DEF Batch, Touched, Kept
  <2>. QED  BY <2>2, <2>3
<1>. QED  BY <1>1, <1>2

LEMMA SetStagedRows ==
  ASSUME TypeOK, NEW p \in PivTokens, NEW c \in Configs, NEW u \in Tokens,
         SetStaged(p, c, u), NEW t \in Tokens
  PROVE  Kept(t) \/ Grown(t)
<1> DEFINE expire == OtherStaged(p, u)
           staging == {v \in {u} : /\ Live(v)
                                   /\ tokens[v].config = c
                                   /\ ~Has(v, "staged")
                                   /\ ~Has(v, "expired")}
           puts == [v \in staging |-> Marked(tokens[v], {"staged"})]
<1>1. Batch(expire, puts)
  BY DEF SetStaged
<1>2. expire \subseteq {v \in Tokens : Live(v)}
  BY DEF Of, OtherStaged
<1>3. RowsOK
  BY DEF RowsOK, TypeOK
<1>4. CASE t \in staging
  <2>1. tokens'[t] = Marked(tokens[t], {"staged"}) /\ Live(t)
    BY <1>1, <1>4 DEF Batch, Touched
  <2>. QED  BY <1>3, <2>1, MarkedGrows DEF Marks
<1>5. CASE t \notin staging
  <2>1. t \notin DOMAIN puts
    BY <1>5
  <2> HIDE DEF expire, puts
  <2>. QED  BY <1>1, <1>2, <1>3, <2>1, BatchExpires
<1>. QED  BY <1>4, <1>5

LEMMA SetActiveBatchRows ==
  ASSUME TypeOK, NEW h \in Handlers, SetActiveBatch(h), NEW t \in Tokens
  PROVE  Kept(t) \/ Grown(t)
<1> DEFINE u == ctx[h].token
           expire == OtherActive(ctx[h].pivtoken, u)
           found == {v \in {u} : Live(v)}
           puts == [v \in found |-> Marked(tokens[v], {"activated"})]
<1>1. Batch(expire, puts)
  BY DEF SetActiveBatch
<1>2. expire \subseteq {v \in Tokens : Live(v)}
  BY DEF Of, OtherActive
<1>3. RowsOK
  BY DEF RowsOK, TypeOK
<1>4. CASE t \in found
  <2>1. tokens'[t] = Marked(tokens[t], {"activated"}) /\ Live(t)
    BY <1>1, <1>4 DEF Batch, Touched
  <2>. QED  BY <1>3, <2>1, MarkedGrows DEF Marks
<1>5. CASE t \notin found
  <2>1. t \notin DOMAIN puts
    BY <1>5
  <2> HIDE DEF expire, puts
  <2>. QED  BY <1>1, <1>2, <1>3, <2>1, BatchExpires
<1>. QED  BY <1>4, <1>5

LEMMA UpdateBatchRows ==
  ASSUME TypeOK, EtagsTell, NEW h \in Handlers, UpdateBatch(h), NEW t \in Tokens
  PROVE  Kept(t) \/ Grown(t)
<1> DEFINE u == ctx[h].token
           val == ctx[h].val
           expire == UpdateExpires(u, ctx[h].seen.pivtoken, val)
           puts == [v \in {u} |-> Marked(ctx[h].seen, val)]
<1>1. RowsOK /\ u \in Tokens /\ val \in SUBSET Marks
  BY UpdatesAssumption DEF RowsOK, TypeOK, UpdateBatch, ContextOK, UpdateCtx
<1>2. CASE ~(Live(u) /\ etag[u] = ctx[h].etag)
  BY <1>2 DEF UpdateBatch, Accepts, Kept
<1>3. CASE Live(u) /\ etag[u] = ctx[h].etag
  <2>1. Batch(expire, puts)
    BY <1>3 DEF UpdateBatch, Accepts
  <2>2. expire \subseteq {v \in Tokens : Live(v)}
    BY DEF UpdateExpires, Of
  <2>3. CASE t = u
    <3>1. tokens[u] = ctx[h].seen
      BY <1>3 DEF EtagsTell, UpdateIsFresh, UpdateBatch
    <3>2. tokens'[t] = Marked(tokens[t], val)
      BY <2>1, <2>3, <3>1 DEF Batch, Touched
    <3>. QED  BY <1>1, <1>3, <2>3, <3>2, MarkedGrows
  <2>4. CASE t # u
    <3>1. t \notin DOMAIN puts
      BY <2>4
    <3> HIDE DEF expire, puts
    <3>. QED  BY <1>1, <2>1, <2>2, <3>1, BatchExpires
  <2>. QED  BY <2>3, <2>4
<1>. QED  BY <1>2, <1>3

LEMMA ExpireConfigRows ==
  ASSUME TypeOK, NEW c \in Configs, ExpireConfig(c), NEW t \in Tokens
  PROVE  Kept(t) \/ Grown(t)
<1> DEFINE expire == {v \in Tokens : /\ Live(v)
                                     /\ tokens[v].config = c
                                     /\ ~Has(v, "expired")}
<1>1. Batch(expire, <<>>) /\ RowsOK
  BY DEF ExpireConfig, RowsOK, TypeOK
<1>2. expire \subseteq {v \in Tokens : Live(v)} /\ t \notin DOMAIN <<>>
  OBVIOUS
<1> HIDE DEF expire
<1>. QED  BY <1>1, <1>2, BatchExpires

LEMMA ReactivateBatchRows ==
  ASSUME NEW h \in Handlers, ReactivateBatch(h), NEW t \in Tokens
  PROVE  Kept(t) \/ Stripped(t)
<1> DEFINE seen == ctx[h].seen
           puts == [v \in DOMAIN seen |-> [seen[v] EXCEPT !.marks = {}]]
<1>1. CASE config[ctx[h].config].etag # ctx[h].etag
  BY <1>1 DEF ReactivateBatch, Kept
<1>2. CASE config[ctx[h].config].etag = ctx[h].etag
  <2>1. Batch({}, puts)
    BY <1>2 DEF ReactivateBatch
  <2>2. CASE t \in DOMAIN seen
    BY <1>2, <2>1, <2>2 DEF Batch, Touched, Stripped
  <2>3. CASE t \notin DOMAIN seen
    BY <2>1, <2>3 DEF Batch, Touched, Kept
  <2>. QED  BY <2>2, <2>3
<1>. QED  BY <1>1, <1>2

LEMMA EveryRowChange ==
  ASSUME TypeOK, EtagsTell, [Next]_vars, NEW t \in Tokens
  PROVE  Kept(t) \/ Born(t) \/ Provisioned(t) \/ Grown(t) \/ Stripped(t)
<1>1. ASSUME NEW S, Remove(S) PROVE Kept(t)
  BY <1>1 DEF Remove, Kept
<1>2. ASSUME NEW h \in Handlers, UpdateBatch(h) \/ SetActiveBatch(h)
      PROVE  Kept(t) \/ Grown(t)
  BY <1>2, UpdateBatchRows, SetActiveBatchRows
<1>3. ASSUME UNCHANGED tokens PROVE Kept(t)
  BY <1>3 DEF Kept
<1>. QED
  BY <1>1, <1>2, <1>3, CreateBatchRows, CreatePivBatchRows, SetStagedRows,
     ExpireConfigRows, ReactivateBatchRows
  DEF Next, Shared, vars, CreateFetchConfig, CreatePivGetConfig, SetActiveList,
      UpdateGet, Delete, Prune, DeletePivToken, ReactivateList, ConfigStep,
      ExpireUnusedConfig

(* A reactivation finds its configuration expired, and makes it created.   *)
LEMMA StrippedByReactivation ==
  ASSUME TypeOK, EtagsTell, NEW t \in Tokens, Stripped(t)
  PROVE  LET c == tokens'[t].config
         IN /\ c \in Reactivatable
            /\ ConfigState(config[c].marks) = "expired" /\ config'[c].marks = {}
<1>1. PICK h \in Handlers : /\ ReactivateBatch(h)
                            /\ config[ctx[h].config].etag = ctx[h].etag
                            /\ t \in DOMAIN ctx[h].seen
                            /\ tokens'[t] = [ctx[h].seen[t] EXCEPT !.marks = {}]
  BY DEF Stripped
<1> DEFINE c == ctx[h].config
<1>2. pc[h] = "reactivate" /\ c \in Configs /\ ctx[h].seen[t] \in Row
  BY <1>1 DEF ReactivateBatch, TypeOK, ContextOK, IsReactivateCtx
<1>3. /\ c \in Reactivatable /\ ConfigState(config[c].marks) = "expired"
      /\ ctx[h].seen[t].config = c
  BY <1>1, <1>2 DEF EtagsTell, ReactivationIsFresh
<1>4. tokens'[t].config = c
  BY <1>1, <1>2, <1>3 DEF Row
<1>5. config'[c].marks = {}
  BY <1>1, <1>2 DEF ReactivateBatch, ConfigTo, TypeOK
<1>. QED  BY <1>3, <1>4, <1>5

(* An update puts back the row it read and a reactivation strips rows it   *)
(* listed earlier: still no mark is ever lost, because the etag of the row *)
(* (recovery-token.js 304) or of the configuration (fsm-transition.js 552) *)
(* says that the copy is current.                                          *)
THEOREM MarksNeverLost == Spec => MarksAreKept
<1>1. ASSUME TypeOK, EtagsTell, [Next]_vars, NEW t \in Tokens,
             Live(t), tokens'[t] # Nil, ~(tokens[t].marks \subseteq tokens'[t].marks)
      PROVE  /\ ConfigState(config[tokens'[t].config].marks) = "expired"
             /\ config'[tokens'[t].config].marks = {}
  <2>1. ~Kept(t) /\ ~Born(t) /\ ~Provisioned(t)
    BY <1>1 DEF Kept, Born, Provisioned
  <2>2. ~Grown(t)
    BY <1>1, MarkedType DEF Grown, TypeOK, Live
  <2>. QED
    BY <1>1, <2>1, <2>2, EveryRowChange, StrippedByReactivation
<1>2. TypeOK /\ EtagsTell /\ [Next]_vars
      => [\A t \in Tokens :
            Live(t) /\ tokens'[t] # Nil /\ ~(tokens[t].marks \subseteq tokens'[t].marks)
              => /\ ConfigState(config[tokens'[t].config].marks) = "expired"
                 /\ config'[tokens'[t].config].marks = {}]_vars
  BY <1>1
<1>. QED
  BY <1>2, TypeCorrect, StaleReadsAreNoticed, PTL DEF Spec, MarksAreKept

-----------------------------------------------------------------------------
(* One pristine token *)

(* A batch that creates a token creates no other.                          *)
LEMMA OneIsBorn ==
  ASSUME NEW h \in Handlers, CreateBatch(h), NEW t \in Tokens,
         ~Live(t), tokens'[t] # Nil
  PROVE  t = ctx[h].token
BY DEF CreateBatch, Batch, Touched, Live, Of, PristineOf

(* ... and leaves the PIV token no other pristine one.                     *)
LEMMA BirthExpiresPristine ==
  ASSUME TypeOK, NEW h \in Handlers, CreateBatch(h), NEW t \in Tokens,
         ~Live(t), tokens'[t] # Nil,
         NEW u \in Tokens, Pristine(u),
         tokens[u].pivtoken = tokens'[t].pivtoken
  PROVE  tokens'[u] = Marked(tokens[u], {"expired"})
<1> DEFINE expire == PristineOf(ctx[h].row.pivtoken)
           puts == [v \in {t} |-> ctx[h].row]
<1>1. t = ctx[h].token
  BY OneIsBorn
<1>2. Batch(expire, puts)
  BY <1>1 DEF CreateBatch
<1>3. tokens'[t] = ctx[h].row
  BY <1>2 DEF Batch, Touched
<1>4. u \in expire /\ u # t
  BY <1>3 DEF Pristine, Of, PristineOf
<1>. QED  BY <1>2, <1>4 DEF Batch, Touched

LEMMA WhoIsPristine ==
  ASSUME TypeOK, EtagsTell, [Next]_vars, NEW t \in Tokens,
         Pristine(t)', tokens'[t].config \notin Reactivatable
  PROVE  Born(t) \/ Provisioned(t) \/ (Live(t) /\ tokens'[t] = tokens[t])
<1>1. tokens'[t] # Nil /\ tokens'[t].marks = {}
  BY DEF Pristine, Live
<1>2. ~Stripped(t)
  BY StrippedByReactivation
<1>. QED  BY <1>1, <1>2, EveryRowChange DEF Kept, Grown, Live

(* Only a PIV token that is there has a token that came with it.           *)
FirstIsHere == \A p \in PivTokens : piv[p] # "here" => first[p] = Nil

LEMMA FirstInit == Init => FirstIsHere
BY DEF Init, FirstIsHere

(* Apart from the batches of createPIVToken and deletePIVToken, no step    *)
(* touches the PIV tokens.                                                 *)
LEMMA WhoTouchesPivs ==
  ASSUME [Next]_vars
  PROVE  \/ UNCHANGED <<piv, first>>
         \/ \E h \in Handlers : CreatePivBatch(h)
         \/ \E p \in PivTokens : DeletePivToken(p)
BY DEF Next, Shared, vars, CreateFetchConfig, CreateBatch, CreatePivGetConfig,
       SetStaged, SetActiveList, SetActiveBatch, UpdateGet, UpdateBatch,
       Delete, Prune, ReactivateList, ReactivateBatch, ConfigStep,
       ExpireConfig, ExpireUnusedConfig

LEMMA FirstStays ==
  ASSUME TypeOK, FirstIsHere, [Next]_vars
  PROVE  FirstIsHere'
BY WhoTouchesPivs
DEF TypeOK, FirstIsHere, CreatePivBatch, DeletePivToken

(* While a PIV token is there the token it came with stays the same; two   *)
(* tokens of one PIV token that may be pristine together may so next.      *)
LEMMA MayBeTwoStays ==
  ASSUME TypeOK, FirstIsHere, [Next]_vars,
         NEW t \in Tokens, NEW u \in Tokens, Live(t), Live(u),
         tokens'[t] = tokens[t], tokens'[u] = tokens[u],
         tokens[t].pivtoken = tokens[u].pivtoken, MayBeTwo(t, u)
  PROVE  MayBeTwo(t, u)'
<1> DEFINE p == tokens[t].pivtoken
<1>1. p \in PivTokens
  BY DEF TypeOK, Live, Row
<1>2. CASE {tokens[t].config, tokens[u].config} \cap Reactivatable # {}
  BY <1>2 DEF MayBeTwo
<1>3. CASE first[p] \in {t, u}
  <2>1. piv[p] = "here"
    BY <1>1, <1>3, NilAssumption DEF FirstIsHere
  <2>2. ASSUME NEW h \in Handlers, CreatePivBatch(h) PROVE first'[p] = first[p]
    BY <1>1, <2>1, <2>2 DEF CreatePivBatch, TypeOK
  <2>3. ASSUME NEW q \in PivTokens, DeletePivToken(q) PROVE first'[p] = first[p]
    <3>1. p # q
      BY <2>3, NilAssumption DEF DeletePivToken, Remove, Of, Live
    <3>. QED  BY <1>1, <2>3, <3>1 DEF DeletePivToken, TypeOK
  <2>4. first'[p] = first[p]
    BY <2>2, <2>3, WhoTouchesPivs
  <2>. QED  BY <1>3, <2>4 DEF MayBeTwo
<1>. QED  BY <1>2, <1>3 DEF MayBeTwo

(* However requests race, a PIV token has two tokens that wait to be       *)
(* staged only if one of them came with the PIV token itself: the batch of *)
(* createRecoveryToken expires the other (recovery-token.js 184-214), that *)
(* of createPIVToken finds at most the one an earlier life left behind.    *)
THEOREM OnePristineToken == Spec => []OnePristine
<1>1. Init => OnePristine
  BY DEF Init, OnePristine, Pristine, Live
<1>2. TypeOK /\ EtagsTell /\ FirstIsHere /\ OnePristine /\ [Next]_vars => OnePristine'
  <2> SUFFICES ASSUME TypeOK, EtagsTell, FirstIsHere, OnePristine, [Next]_vars,
                      NEW t \in Tokens, NEW u \in Tokens,
                      Pristine(t)', Pristine(u)',
                      tokens'[t].pivtoken = tokens'[u].pivtoken,
                      t # u, ~MayBeTwo(t, u)'
               PROVE  FALSE
    BY DEF OnePristine
  <2>1. /\ tokens'[t].config \notin Reactivatable
        /\ tokens'[u].config \notin Reactivatable
        /\ first'[tokens'[t].pivtoken] \notin {t, u}
    BY DEF MayBeTwo
  <2>2. /\ tokens'[t] # Nil /\ tokens'[t].marks = {}
        /\ tokens'[u] # Nil /\ tokens'[u].marks = {}
    BY DEF Pristine, Live
  <2>3. ASSUME NEW v \in {t, u}, Provisioned(v) PROVE FALSE
    <3>1. PICK h \in Handlers :
               /\ CreatePivBatch(h) /\ v = ctx[h].token /\ tokens'[v] = ctx[h].row
               /\ first' = [first EXCEPT ![ctx[h].row.pivtoken] = v]
      BY <2>3 DEF Provisioned
    <3>2. ctx[h].row.pivtoken \in PivTokens
      BY <3>1 DEF CreatePivBatch, TypeOK, ContextOK, CreateCtx, Row
    <3>3. first'[tokens'[v].pivtoken] = v
      BY <3>1, <3>2 DEF TypeOK
    <3>. QED  BY <2>1, <3>3
  <2>4. /\ Born(t) \/ (Live(t) /\ tokens'[t] = tokens[t])
        /\ Born(u) \/ (Live(u) /\ tokens'[u] = tokens[u])
    BY <2>1, <2>3, WhoIsPristine
  <2>5. CASE Live(t) /\ tokens'[t] = tokens[t] /\ Live(u) /\ tokens'[u] = tokens[u]
    <3>1. MayBeTwo(t, u)
      BY <2>2, <2>5 DEF OnePristine, Pristine
    <3>. QED  BY <2>5, <3>1, MayBeTwoStays
  <2>6. ASSUME Born(t), Born(u) PROVE FALSE
    BY <2>2, <2>6, OneIsBorn DEF Born
  <2>7. ASSUME NEW v \in Tokens, NEW w \in Tokens, Born(v),
               Live(w), tokens'[w] = tokens[w], tokens'[w].marks = {},
               tokens'[v] # Nil, tokens'[v].pivtoken = tokens'[w].pivtoken
        PROVE  FALSE
    <3>1. PICK h \in Handlers : CreateBatch(h)
      BY <2>7 DEF Born
    <3>2. tokens'[w] = Marked(tokens[w], {"expired"})
      BY <2>7, <3>1, BirthExpiresPristine DEF Born, Pristine
    <3>3. tokens[w] \in Row
      BY <2>7 DEF TypeOK, Live
    <3>. QED  BY <2>7, <3>2, <3>3, MarkedType DEF Marks
  <2>. QED  BY <2>2, <2>4, <2>5, <2>6, <2>7
<1>3. TypeOK /\ FirstIsHere /\ [Next]_vars => FirstIsHere'
  BY FirstStays
<1>. QED
  BY <1>1, <1>2, <1>3, FirstInit, TypeCorrect, StaleReadsAreNoticed, PTL DEF Spec

-----------------------------------------------------------------------------
(* The documented life of a token *)

LEMMA AgentIsNext == AgentNext => Next
BY DEF AgentNext, Next, Fresh, Provision, CreateFresh, AgentStage, AgentActivate

LEMMA AgentImplies == AgentSpec => Spec
BY AgentIsNext, PTL DEF AgentSpec, Spec

(* What an agent's step does to the row of one token.                      *)
Retired(t) == Live(t) /\ tokens'[t] = Marked(tokens[t], {"expired"})

BornFresh(t) == \E h \in Handlers :
                  /\ CreateBatch(h) /\ t = ctx[h].token
                  /\ ~Live(t) /\ tokens'[t] = ctx[h].row
                  /\ etag'[t] = etag[t] + 1

BornActive(t) == /\ Provisioned(t)
                 /\ etag'[t] = etag[t] + 1

BecomesStaged(t) == \E p \in PivTokens, c \in Configs :
                      /\ AgentStage(p, c, t)
                      /\ tokens'[t] = Marked(tokens[t], {"staged"})

BecomesActive(t) == \E h \in Handlers :
                      /\ SetActiveBatch(h) /\ t = ctx[h].token /\ Live(t)
                      /\ tokens'[t] = Marked(tokens[t], {"activated"})

(* Only a live row changes its etag, but for the one that is born.         *)
AgentRow(t) ==
  \/ /\ Kept(t) \/ Retired(t) \/ BecomesStaged(t) \/ BecomesActive(t)
     /\ etag'[t] = etag[t] \/ Live(t)
  \/ BornFresh(t)
  \/ BornActive(t)

LEMMA BatchRetires ==
  ASSUME NEW expire, expire \subseteq {t \in Tokens : Live(t)},
         NEW puts, Batch(expire, puts),
         NEW t \in Tokens, t \notin DOMAIN puts
  PROVE  (Kept(t) \/ Retired(t)) /\ (etag'[t] = etag[t] \/ Live(t))
BY DEF Batch, Touched, Kept, Retired

LEMMA CreateBatchAgentRow ==
  ASSUME NEW h \in Handlers, CreateBatch(h), NEW t \in Tokens
  PROVE  AgentRow(t)
<1> DEFINE expire == PristineOf(ctx[h].row.pivtoken)
           puts == [u \in {ctx[h].token} |-> ctx[h].row]
<1>1. CASE Live(ctx[h].token)
  BY <1>1 DEF CreateBatch, AgentRow, Kept
<1>2. CASE ~Live(ctx[h].token)
  <2>1. Batch(expire, puts) /\ expire \subseteq {u \in Tokens : Live(u)}
    BY <1>2 DEF CreateBatch, Of, PristineOf
  <2>2. CASE t = ctx[h].token
    BY <1>2, <2>1, <2>2 DEF Batch, Touched, AgentRow, BornFresh
  <2>3. CASE t # ctx[h].token
    <3>1. t \notin DOMAIN puts
      BY <2>3
    <3> HIDE DEF expire, puts
    <3>. QED  BY <2>1, <3>1, BatchRetires DEF AgentRow
  <2>. QED  BY <2>2, <2>3
<1>. QED  BY <1>1, <1>2

LEMMA CreatePivBatchAgentRow ==
  ASSUME NEW h \in Handlers, CreatePivBatch(h), NEW t \in Tokens
  PROVE  AgentRow(t)
<1> DEFINE puts == [u \in {ctx[h].token} |-> ctx[h].row]
<1>1. CASE piv[ctx[h].row.pivtoken] = "here" \/ Live(ctx[h].token)
  BY <1>1 DEF CreatePivBatch, AgentRow, Kept
<1>2. CASE ~(piv[ctx[h].row.pivtoken] = "here" \/ Live(ctx[h].token))
  <2>1. /\ Batch({}, puts)
        /\ piv' = [piv EXCEPT ![ctx[h].row.pivtoken] = "here"]
        /\ first' = [first EXCEPT ![ctx[h].row.pivtoken] = ctx[h].token]
    BY <1>2 DEF CreatePivBatch
  <2>2. CASE t = ctx[h].token
    BY <1>2, <2>1, <2>2 DEF Batch, Touched, AgentRow, BornActive, Provisioned
  <2>3. CASE t # ctx[h].token
    BY <2>1, <2>3 DEF Batch, Touched, AgentRow, Kept
  <2>. QED  BY <2>2, <2>3
<1>. QED  BY <1>1, <1>2

LEMMA AgentStageAgentRow ==
  ASSUME NEW p \in PivTokens, NEW c \in Configs, NEW u \in Tokens,
         AgentStage(p, c, u), NEW t \in Tokens
  PROVE  AgentRow(t)
<1> DEFINE expire == OtherStaged(p, u)
           staging == {v \in {u} : /\ Live(v)
                                   /\ tokens[v].config = c
                                   /\ ~Has(v, "staged")
                                   /\ ~Has(v, "expired")}
           puts == [v \in staging |-> Marked(tokens[v], {"staged"})]
<1>1. Batch(expire, puts) /\ expire \subseteq {v \in Tokens : Live(v)}
  BY DEF AgentStage, SetStaged, Of, OtherStaged
<1>2. CASE t \in staging
  <2>1. tokens'[t] = Marked(tokens[t], {"staged"}) /\ Live(t) /\ t = u
    BY <1>1, <1>2 DEF Batch, Touched
  <2>. QED  BY <2>1 DEF AgentRow, BecomesStaged
<1>3. CASE t \notin staging
  <2>1. t \notin DOMAIN puts
    BY <1>3
  <2> HIDE DEF expire, puts
  <2>. QED  BY <1>1, <2>1, BatchRetires DEF AgentRow
<1>. QED  BY <1>2, <1>3

LEMMA SetActiveBatchAgentRow ==
  ASSUME NEW h \in Handlers, SetActiveBatch(h), NEW t \in Tokens
  PROVE  AgentRow(t)
<1> DEFINE expire == OtherActive(ctx[h].pivtoken, ctx[h].token)
           found == {v \in {ctx[h].token} : Live(v)}
           puts == [v \in found |-> Marked(tokens[v], {"activated"})]
<1>1. Batch(expire, puts) /\ expire \subseteq {v \in Tokens : Live(v)}
  BY DEF SetActiveBatch, Of, OtherActive
<1>2. CASE t \in found
  <2>1. tokens'[t] = Marked(tokens[t], {"activated"}) /\ Live(t)
    BY <1>1, <1>2 DEF Batch, Touched
  <2>. QED  BY <1>2, <2>1 DEF AgentRow, BecomesActive
<1>3. CASE t \notin found
  <2>1. t \notin DOMAIN puts
    BY <1>3
  <2> HIDE DEF expire, puts
  <2>. QED  BY <1>1, <2>1, BatchRetires DEF AgentRow
<1>. QED  BY <1>2, <1>3

LEMMA ExpireConfigAgentRow ==
  ASSUME NEW c \in Configs, ExpireConfig(c), NEW t \in Tokens
  PROVE  AgentRow(t)
<1> DEFINE expire == {v \in Tokens : /\ Live(v)
                                     /\ tokens[v].config = c
                                     /\ ~Has(v, "expired")}
<1>1. /\ Batch(expire, <<>>) /\ t \notin DOMAIN <<>>
      /\ expire \subseteq {v \in Tokens : Live(v)}
  BY DEF ExpireConfig
<1> HIDE DEF expire
<1>. QED  BY <1>1, BatchRetires DEF AgentRow

LEMMA EveryAgentRow ==
  ASSUME [AgentNext]_vars, NEW t \in Tokens
  PROVE  AgentRow(t)
<1>1. ASSUME NEW S, Remove(S) PROVE AgentRow(t)
  BY <1>1 DEF Remove, AgentRow, Kept
<1>2. ASSUME UNCHANGED <<tokens, etag>> PROVE AgentRow(t)
  BY <1>2 DEF AgentRow, Kept
<1>. QED
  BY <1>1, <1>2, CreateBatchAgentRow, CreatePivBatchAgentRow,
     AgentStageAgentRow, SetActiveBatchAgentRow, ExpireConfigAgentRow
  DEF AgentNext, Shared, vars, Provision, CreatePivGetConfig, CreateFresh,
      CreateFetchConfig, AgentActivate, SetActiveList, Prune, DeletePivToken,
      ConfigStep, ExpireUnusedConfig

(* The inductive invariant: what agents' handlers carry.  A creation       *)
(* carries a uuid nobody has used and no other handler carries; an         *)
(* activation carries a token that was staged for its PIV token, and is so *)
(* for good.  A PIV token that is gone may have left tokens behind, but    *)
(* none is active and none is about to become so.                          *)
Creates(h) == pc[h] \in {"create", "provision"}

CarriesFresh(h) ==
  /\ Creates(h) =>
       /\ etag[ctx[h].token] = 0
       /\ \A g \in Handlers : Creates(g) /\ ctx[g].token = ctx[h].token => g = h
  /\ pc[h] = "create" => ctx[h].row.marks = {}
  /\ pc[h] = "provision" => ctx[h].row.marks = {"staged", "activated"}

CarriesStaged(h) ==
  pc[h] = "activate" =>
    LET t == ctx[h].token
    IN /\ etag[t] # 0
       /\ Live(t) => /\ Has(t, "staged") /\ tokens[t].pivtoken = ctx[h].pivtoken
                     /\ piv[tokens[t].pivtoken] = "here"

AgentToken(t) ==
  /\ Live(t) => etag[t] # 0
  /\ Has(t, "activated") => Has(t, "staged") /\ piv[tokens[t].pivtoken] = "here"

AgentInv ==
  /\ \A h \in Handlers : /\ pc[h] \in {"idle", "create", "provision", "activate"}
                         /\ CarriesFresh(h)
                         /\ CarriesStaged(h)
  /\ \A t \in Tokens : AgentToken(t)
  /\ OneStaged
  /\ OneActive

LEMMA AgentInit == Init => AgentInv
BY DEF Init, AgentInv, Creates, CarriesFresh, CarriesStaged, AgentToken,
       OneStaged, OneActive, Staged, Active, Has, Live

LEMMA WhoAwaitsAgent ==
  ASSUME TypeOK, AgentInv, [AgentNext]_vars, NEW h \in Handlers
  PROVE  /\ pc'[h] \in {"idle", "create", "provision", "activate"}
         /\ pc'[h] = "create" =>
              \/ pc[h] = "create" /\ ctx'[h] = ctx[h] /\ ~CreateBatch(h)
              \/ \E p \in PivTokens, c \in Configs, t \in Tokens :
                    CreateFresh(h, p, c, t)
         /\ pc'[h] = "provision" =>
              \/ pc[h] = "provision" /\ ctx'[h] = ctx[h] /\ ~CreatePivBatch(h)
              \/ \E p \in PivTokens, c \in Configs, t \in Tokens :
                    Provision(h, p, c, t)
         /\ pc'[h] = "activate" =>
              \/ pc[h] = "activate" /\ ctx'[h] = ctx[h]
              \/ \E p \in PivTokens, c \in Configs : AgentActivate(h, p, c)
<1>1. /\ pc[h] \in {"idle", "create", "provision", "activate"}
      /\ pc \in [Handlers -> Labels] /\ DOMAIN ctx = Handlers
  BY DEF AgentInv, TypeOK
<1>2. ASSUME NEW g \in Handlers, NEW p \in PivTokens, NEW c \in Configs,
             NEW t \in Tokens, CreateFresh(g, p, c, t)
      PROVE  /\ pc'[g] = "create"
             /\ g # h => pc'[h] = pc[h] /\ ctx'[h] = ctx[h]
  BY <1>1, <1>2 DEF CreateFresh, CreateFetchConfig, Await
<1>3. ASSUME NEW g \in Handlers, NEW p \in PivTokens, NEW c \in Configs,
             AgentActivate(g, p, c)
      PROVE  /\ pc'[g] = "activate"
             /\ g # h => pc'[h] = pc[h] /\ ctx'[h] = ctx[h]
  BY <1>1, <1>3 DEF AgentActivate, SetActiveList, Await
<1>4. ASSUME NEW g \in Handlers,
             CreateBatch(g) \/ CreatePivBatch(g) \/ SetActiveBatch(g)
      PROVE  /\ pc'[g] = "idle"
             /\ g # h => pc'[h] = pc[h] /\ ctx'[h] = ctx[h]
  BY <1>1, <1>4 DEF CreateBatch, CreatePivBatch, SetActiveBatch, Finish
<1>5. ASSUME NEW g \in Handlers, NEW p \in PivTokens, NEW c \in Configs,
             NEW t \in Tokens, Provision(g, p, c, t)
      PROVE  /\ pc'[g] = "provision"
             /\ g # h => pc'[h] = pc[h] /\ ctx'[h] = ctx[h]
  BY <1>1, <1>5 DEF Provision, CreatePivGetConfig, Await
<1>6. pc'[h] = "create" => ~CreateBatch(h)
  BY <1>1 DEF CreateBatch, Finish
<1>7. pc'[h] = "provision" => ~CreatePivBatch(h)
  BY <1>1 DEF CreatePivBatch, Finish
<1>8. CASE UNCHANGED <<pc, ctx>>
  BY <1>1, <1>6, <1>7, <1>8
<1>. QED
  BY <1>1, <1>2, <1>3, <1>4, <1>5, <1>6, <1>7, <1>8
  DEF AgentNext, Shared, vars, AgentStage, SetStaged, Prune, DeletePivToken,
      ConfigStep, ExpireConfig, ExpireUnusedConfig

LEMMA AgentRowKeeps ==
  ASSUME TypeOK, NEW t \in Tokens, AgentRow(t), Live(t), tokens'[t] # Nil
  PROVE  /\ tokens'[t].pivtoken = tokens[t].pivtoken
         /\ tokens[t].marks \subseteq tokens'[t].marks
<1>1. tokens[t] \in Row
  BY DEF TypeOK, Live
<1>2. /\ {"expired"} \in SUBSET Marks /\ {"staged"} \in SUBSET Marks
      /\ {"activated"} \in SUBSET Marks
  BY DEF Marks
<1>. QED
  BY <1>1, <1>2, MarkedType
  DEF AgentRow, Kept, Retired, BecomesStaged, BecomesActive, BornFresh,
      BornActive, Provisioned

(* The PIV token of a token that stays is still there.                     *)
LEMMA HereStays ==
  ASSUME TypeOK, [AgentNext]_vars, NEW t \in Tokens, Live(t), tokens'[t] # Nil,
         piv[tokens[t].pivtoken] = "here"
  PROVE  piv'[tokens[t].pivtoken] = "here"
<1> DEFINE p == tokens[t].pivtoken
<1>1. p \in PivTokens
  BY DEF TypeOK, Live, Row
<1>2. ASSUME NEW h \in Handlers, CreatePivBatch(h) PROVE piv'[p] = "here"
  BY <1>1, <1>2 DEF CreatePivBatch, TypeOK
<1>3. ASSUME NEW q \in PivTokens, DeletePivToken(q) PROVE piv'[p] = "here"
  <2>1. p # q
    BY <1>3 DEF DeletePivToken, Remove, Of
  <2>. QED  BY <1>1, <1>3, <2>1 DEF DeletePivToken, TypeOK
<1>. QED
  BY <1>2, <1>3, AgentIsNext, WhoTouchesPivs

LEMMA FreshStays ==
  ASSUME TypeOK, AgentInv, [AgentNext]_vars, NEW h \in Handlers
  PROVE  CarriesFresh(h)'
<1> SUFFICES ASSUME Creates(h)' PROVE CarriesFresh(h)'
  BY DEF CarriesFresh, Creates
<1>1. CASE /\ Creates(h) /\ pc'[h] = pc[h] /\ ctx'[h] = ctx[h]
           /\ ~CreateBatch(h) /\ ~CreatePivBatch(h)
  <2> DEFINE t == ctx[h].token
  <2>1. /\ t \in Tokens /\ etag[t] = 0
        /\ \A g \in Handlers : Creates(g) /\ ctx[g].token = t => g = h
    BY <1>1 DEF AgentInv, CarriesFresh, Creates, TypeOK, ContextOK, CreateCtx
  <2>2. ~Live(t)
    BY <2>1 DEF AgentInv, AgentToken
  <2>3. ~BornFresh(t) /\ ~BornActive(t)
    BY <1>1, <2>1
    DEF BornFresh, BornActive, Provisioned, CreateBatch, CreatePivBatch, Creates
  <2>4. etag'[t] = 0
    BY <2>1, <2>2, <2>3, EveryAgentRow DEF AgentRow
  <2>5. ASSUME NEW g \in Handlers, Creates(g)', ctx'[g].token = t
        PROVE  g = h
    <3>1. CASE Creates(g) /\ ctx'[g] = ctx[g]
      BY <2>1, <2>5, <3>1
    <3>2. ASSUME NEW p \in PivTokens, NEW c \in Configs, NEW u \in Tokens,
                 CreateFresh(g, p, c, u) \/ Provision(g, p, c, u)
          PROVE  FALSE
      <4>1. ctx'[g].token = u /\ Unknown(u)
        BY <3>2 DEF CreateFresh, CreateFetchConfig, Provision,
                    CreatePivGetConfig, Fresh, Await, TypeOK
      <4>. QED  BY <1>1, <2>5, <4>1 DEF Unknown, InFlight, Creates
    <3>. QED  BY <2>5, <3>1, <3>2, WhoAwaitsAgent DEF Creates
  <2>. QED  BY <1>1, <2>1, <2>4, <2>5 DEF CarriesFresh, AgentInv
<1>2. ASSUME NEW p \in PivTokens, NEW c \in Configs, NEW t \in Tokens,
             CreateFresh(h, p, c, t) \/ Provision(h, p, c, t)
      PROVE  CarriesFresh(h)'
  <2>1. /\ ctx'[h].token = t /\ ctx'[h].row = Newborn(p, c)
        /\ \A g \in Handlers : g # h => pc'[g] = pc[g] /\ ctx'[g] = ctx[g]
    BY <1>2 DEF CreateFresh, CreateFetchConfig, Provision, CreatePivGetConfig,
                Await, TypeOK
  <2>2. /\ etag' = etag /\ etag[t] = 0
        /\ \A g \in Handlers : t \notin InFlight(g)
    BY <1>2 DEF CreateFresh, CreateFetchConfig, Provision, CreatePivGetConfig,
                Fresh, Unknown
  <2>3. \A g \in Handlers : Creates(g) => ctx[g].token # t
    BY <2>2 DEF InFlight, Creates
  <2>4. pc'[h] = "create" => Newborn(p, c).marks = {}
    BY <1>2 DEF CreateFresh, Provision, CreatePivGetConfig, Await, TypeOK,
                Newborn, BirthMarks
  <2>5. pc'[h] = "provision" => Newborn(p, c).marks = {"staged", "activated"}
    <3>1. ASSUME Provision(h, p, c, t)
          PROVE  "staged" \in config[c].marks /\ "activated" \in config[c].marks
      BY <3>1 DEF Provision, ConfigState
    <3>2. ~CreateFresh(h, p, c, t) \/ pc'[h] # "provision"
      BY DEF CreateFresh, CreateFetchConfig, Await, TypeOK
    <3>. QED  BY <1>2, <3>1, <3>2 DEF Newborn, BirthMarks
  <2>. QED  BY <2>1, <2>2, <2>3, <2>4, <2>5 DEF CarriesFresh, Creates
<1>. QED  BY <1>1, <1>2, WhoAwaitsAgent DEF Creates, CreateBatch, CreatePivBatch

LEMMA StagedStays ==
  ASSUME TypeOK, TypeOK', AgentInv, [AgentNext]_vars, NEW h \in Handlers
  PROVE  CarriesStaged(h)'
<1> SUFFICES ASSUME pc'[h] = "activate" PROVE CarriesStaged(h)'
  BY DEF CarriesStaged
<1>1. CASE pc[h] = "activate" /\ ctx'[h] = ctx[h]
  <2> DEFINE t == ctx[h].token
  <2>1. /\ t \in Tokens /\ etag[t] # 0
        /\ Live(t) => /\ Has(t, "staged") /\ tokens[t].pivtoken = ctx[h].pivtoken
                      /\ piv[tokens[t].pivtoken] = "here"
    BY <1>1 DEF AgentInv, CarriesStaged, TypeOK, ContextOK, ActivateCtx
  <2>2. etag[t] \in Nat /\ etag'[t] \in Nat /\ etag'[t] >= etag[t]
    BY <2>1, AgentIsNext, EveryRowStep DEF TypeOK, RowStep
  <2>3. ~BornFresh(t) /\ ~BornActive(t)
    BY <2>1 DEF BornFresh, BornActive, Provisioned, CreateBatch, CreatePivBatch,
                AgentInv, CarriesFresh, Creates
  <2>4. AgentRow(t)
    BY <2>1, EveryAgentRow
  <2>5. ASSUME tokens'[t] # Nil
        PROVE  /\ "staged" \in tokens'[t].marks
               /\ tokens'[t].pivtoken = ctx[h].pivtoken
               /\ piv'[tokens'[t].pivtoken] = "here"
    <3>1. Live(t)
      BY <2>3, <2>4, <2>5
      DEF AgentRow, Kept, Retired, BecomesStaged, BecomesActive, AgentStage,
          Of, Live
    <3>. QED  BY <2>1, <2>4, <2>5, <3>1, AgentRowKeeps, HereStays DEF Has
  <2>. QED  BY <1>1, <2>1, <2>2, <2>5 DEF CarriesStaged, Live, Has
<1>2. ASSUME NEW p \in PivTokens, NEW c \in Configs, AgentActivate(h, p, c)
      PROVE  CarriesStaged(h)'
  <2>1. PICK t \in StagedFor(p, c) :
               Await(h, "activate", [token |-> t, pivtoken |-> p])
    BY <1>2 DEF AgentActivate, SetActiveList
  <2>2. ctx'[h].token = t /\ ctx'[h].pivtoken = p
    BY <2>1 DEF Await, TypeOK
  <2>3. tokens' = tokens /\ etag' = etag /\ piv' = piv /\ piv[p] = "here"
    BY <1>2 DEF AgentActivate, SetActiveList
  <2>4. t \in Tokens /\ Live(t) /\ Has(t, "staged") /\ tokens[t].pivtoken = p
    BY DEF StagedFor, Of, Staged
  <2>5. etag[t] # 0
    BY <2>4 DEF AgentInv, AgentToken
  <2>. QED  BY <2>2, <2>3, <2>4, <2>5 DEF CarriesStaged, Live, Has
<1>. QED  BY <1>1, <1>2, WhoAwaitsAgent

LEMMA AgentTokenStays ==
  ASSUME TypeOK, TypeOK', AgentInv, [AgentNext]_vars, NEW t \in Tokens
  PROVE  AgentToken(t)'
<1> SUFFICES ASSUME tokens'[t] # Nil PROVE AgentToken(t)'
  BY DEF AgentToken, Live, Has
<1>1. AgentRow(t) /\ AgentToken(t) /\ etag[t] \in Nat /\ etag'[t] \in Nat
  BY EveryAgentRow DEF AgentInv, TypeOK
<1>2. CASE BornFresh(t)
  <2>1. etag'[t] # 0
    BY <1>1, <1>2 DEF BornFresh
  <2>2. tokens'[t].marks = {}
    BY <1>2 DEF BornFresh, CreateBatch, AgentInv, CarriesFresh
  <2>. QED  BY <2>1, <2>2 DEF AgentToken, Has
<1>3. CASE BornActive(t)
  <2>1. etag'[t] # 0
    BY <1>1, <1>3 DEF BornActive
  <2>2. PICK h \in Handlers :
             /\ CreatePivBatch(h) /\ tokens'[t] = ctx[h].row
             /\ piv' = [piv EXCEPT ![ctx[h].row.pivtoken] = "here"]
    BY <1>3 DEF BornActive, Provisioned
  <2>3. /\ ctx[h].row.pivtoken \in PivTokens
        /\ ctx[h].row.marks = {"staged", "activated"}
    BY <2>2 DEF CreatePivBatch, TypeOK, ContextOK, CreateCtx, Row, AgentInv,
                CarriesFresh
  <2>4. piv'[tokens'[t].pivtoken] = "here" /\ "staged" \in tokens'[t].marks
    BY <2>2, <2>3 DEF TypeOK
  <2>. QED  BY <2>1, <2>4 DEF AgentToken, Has, Live
<1>4. CASE ~BornFresh(t) /\ ~BornActive(t)
  <2>1. Live(t)
    BY <1>1, <1>4
    DEF AgentRow, Kept, Retired, BecomesStaged, BecomesActive, AgentStage,
        Of, Live
  <2>2. etag'[t] # 0
    <3>1. etag'[t] >= etag[t]
      BY AgentIsNext, EveryRowStep DEF RowStep
    <3>. QED  BY <1>1, <2>1, <3>1 DEF AgentToken
  <2>3. /\ tokens[t].marks \subseteq tokens'[t].marks
        /\ tokens'[t].pivtoken = tokens[t].pivtoken
    BY <1>1, <2>1, AgentRowKeeps
  <2>4. piv[tokens[t].pivtoken] = "here" => piv'[tokens'[t].pivtoken] = "here"
    BY <2>1, <2>3, HereStays
  <2>5. CASE BecomesActive(t)
    <3>1. Has(t, "staged") /\ piv[tokens[t].pivtoken] = "here"
      BY <2>1, <2>5 DEF BecomesActive, SetActiveBatch, AgentInv, CarriesStaged
    <3>. QED  BY <2>2, <2>3, <2>4, <3>1 DEF AgentToken, Has, Live
  <2>6. CASE Kept(t) \/ Retired(t) \/ BecomesStaged(t)
    <3>1. tokens[t] \in Row
      BY <2>1 DEF TypeOK, Live
    <3>2. "activated" \in tokens'[t].marks => Has(t, "activated")
      BY <2>1, <2>6, <3>1, MarkedType
      DEF Kept, Retired, BecomesStaged, Has, Marks
    <3>. QED  BY <1>1, <2>2, <2>3, <2>4, <3>2 DEF AgentToken, Has, Live
  <2>. QED  BY <1>1, <1>4, <2>5, <2>6 DEF AgentRow
<1>. QED  BY <1>2, <1>3, <1>4

(* The batch that stages a token leaves its PIV token no other staged one. *)
LEMMA StagingRetires ==
  ASSUME TypeOK, NEW p \in PivTokens, NEW c \in Configs, NEW t \in Tokens,
         AgentStage(p, c, t), NEW u \in Tokens, u # t, Staged(u)'
  PROVE  tokens'[u] = tokens[u] /\ ~Of(u, p)
<1> DEFINE expire == OtherStaged(p, t)
           staging == {v \in {t} : /\ Live(v)
                                   /\ tokens[v].config = c
                                   /\ ~Has(v, "staged")
                                   /\ ~Has(v, "expired")}
           puts == [v \in staging |-> Marked(tokens[v], {"staged"})]
<1>1. Batch(expire, puts)
  BY DEF AgentStage, SetStaged
<1>2. u \notin DOMAIN puts /\ (u \in expire <=> Of(u, p) /\ Staged(u))
  BY DEF OtherStaged
<1> HIDE DEF expire, puts
<1>3. tokens'[u] = IF u \in expire THEN Marked(tokens[u], {"expired"})
                                   ELSE tokens[u]
  BY <1>1, <1>2 DEF Batch, Touched
<1>4. tokens'[u] # Nil /\ "expired" \notin tokens'[u].marks
  BY DEF Staged, Has, Live
<1>5. u \notin expire
  <2>1. ASSUME u \in expire PROVE FALSE
    <3>1. tokens[u] \in Row
      BY <1>2, <2>1 DEF TypeOK, Of, Live, OtherStaged
    <3>. QED  BY <1>3, <1>4, <2>1, <3>1, MarkedType DEF Marks
  <2>. QED  BY <2>1
<1>6. tokens'[u] = tokens[u]
  BY <1>3, <1>5
<1>7. Staged(u)
  BY <1>6 DEF Staged, Has, Live
<1>. QED  BY <1>2, <1>5, <1>6, <1>7

LEMMA ActivatingRetires ==
  ASSUME TypeOK, AgentInv, NEW h \in Handlers, SetActiveBatch(h),
         NEW u \in Tokens, u # ctx[h].token, Active(u)'
  PROVE  tokens'[u] = tokens[u] /\ ~Of(u, ctx[h].pivtoken)
<1> DEFINE p == ctx[h].pivtoken
           expire == OtherActive(p, ctx[h].token)
           found == {v \in {ctx[h].token} : Live(v)}
           puts == [v \in found |-> Marked(tokens[v], {"activated"})]
<1>1. Batch(expire, puts)
  BY DEF SetActiveBatch
<1>2. /\ u \notin DOMAIN puts
      /\ u \in expire <=> Of(u, p) /\ Has(u, "staged") /\ Active(u)
  BY DEF OtherActive
<1> HIDE DEF expire, puts
<1>3. tokens'[u] = IF u \in expire THEN Marked(tokens[u], {"expired"})
                                   ELSE tokens[u]
  BY <1>1, <1>2 DEF Batch, Touched
<1>4. tokens'[u] # Nil /\ "expired" \notin tokens'[u].marks
  BY DEF Active, Has, Live
<1>5. u \notin expire
  <2>1. ASSUME u \in expire PROVE FALSE
    <3>1. tokens[u] \in Row
      BY <1>2, <2>1 DEF TypeOK, Of, Live, OtherActive
    <3>. QED  BY <1>3, <1>4, <2>1, <3>1, MarkedType DEF Marks
  <2>. QED  BY <2>1
<1>6. tokens'[u] = tokens[u]
  BY <1>3, <1>5
<1>7. Active(u) /\ Has(u, "staged")
  BY <1>6 DEF Active, Has, Live, AgentInv, AgentToken
<1>. QED  BY <1>2, <1>5, <1>6, <1>7

(* The batch that creates a PIV token with an active token finds no other  *)
(* active one.                                                             *)
LEMMA ProvisioningIsAlone ==
  ASSUME TypeOK, AgentInv, NEW v \in Tokens, BornActive(v),
         NEW w \in Tokens, w # v, Active(w)'
  PROVE  tokens'[v].pivtoken # tokens'[w].pivtoken
<1>1. PICK h \in Handlers :
           /\ CreatePivBatch(h) /\ v = ctx[h].token /\ tokens'[v] = ctx[h].row
           /\ piv[ctx[h].row.pivtoken] # "here"
  BY DEF BornActive, Provisioned
<1>2. tokens'[w] = tokens[w]
  BY <1>1 DEF CreatePivBatch, Batch, Touched
<1>3. Has(w, "activated")
  BY <1>2 DEF Active, Has, Live
<1>4. piv[tokens[w].pivtoken] = "here"
  BY <1>3 DEF AgentInv, AgentToken
<1>. QED  BY <1>1, <1>2, <1>4

LEMMA WhoIsStaged ==
  ASSUME TypeOK, AgentInv, [AgentNext]_vars, NEW t \in Tokens, Staged(t)'
  PROVE  BecomesStaged(t) \/ (Staged(t) /\ tokens'[t] = tokens[t])
<1>1. /\ tokens'[t] # Nil /\ "staged" \in tokens'[t].marks
      /\ "activated" \notin tokens'[t].marks /\ "expired" \notin tokens'[t].marks
  BY DEF Staged, Has, Live
<1>2. AgentRow(t)
  BY EveryAgentRow
<1>3. Live(t) => tokens[t] \in Row
  BY DEF TypeOK, Live
<1>4. ~Retired(t) /\ ~BecomesActive(t)
  BY <1>1, <1>3, MarkedType DEF Retired, BecomesActive, Marks
<1>5. ~BornFresh(t) /\ ~BornActive(t)
  BY <1>1 DEF BornFresh, BornActive, Provisioned, CreateBatch, CreatePivBatch,
              AgentInv, CarriesFresh
<1>6. ASSUME tokens'[t] = tokens[t] PROVE Staged(t)
  BY <1>6 DEF Staged, Has, Live
<1>. QED  BY <1>1, <1>2, <1>4, <1>5, <1>6 DEF AgentRow, Kept

LEMMA WhoIsActive ==
  ASSUME TypeOK, AgentInv, [AgentNext]_vars, NEW t \in Tokens, Active(t)'
  PROVE  \/ BecomesActive(t) /\ tokens'[t].pivtoken = tokens[t].pivtoken
         \/ Active(t) /\ tokens'[t] = tokens[t]
         \/ Active(t) /\ BecomesStaged(t)
         \/ BornActive(t)
<1>1. /\ tokens'[t] # Nil /\ "activated" \in tokens'[t].marks
      /\ "expired" \notin tokens'[t].marks
  BY DEF Active, Has, Live
<1>2. AgentRow(t)
  BY EveryAgentRow
<1>3. Live(t) => tokens[t] \in Row
  BY DEF TypeOK, Live
<1>4. ~Retired(t)
  BY <1>1, <1>3, MarkedType DEF Retired, Marks
<1>5. ~BornFresh(t)
  BY <1>1 DEF BornFresh, CreateBatch, AgentInv, CarriesFresh
<1>6. ASSUME tokens'[t] = tokens[t] PROVE Active(t)
  BY <1>6 DEF Active, Has, Live
<1>7. ASSUME BecomesStaged(t) PROVE Active(t)
  <2>1. Live(t) /\ tokens'[t] = Marked(tokens[t], {"staged"})
    BY <1>7 DEF BecomesStaged, AgentStage, Of
  <2>. QED  BY <1>1, <1>3, <2>1, MarkedType DEF Active, Has, Marks
<1>8. BecomesActive(t) => tokens'[t].pivtoken = tokens[t].pivtoken
  BY <1>1, <1>2, AgentRowKeeps DEF BecomesActive
<1>. QED  BY <1>1, <1>2, <1>4, <1>5, <1>6, <1>7, <1>8 DEF AgentRow, Kept

LEMMA OneStagedStays ==
  ASSUME TypeOK, AgentInv, [AgentNext]_vars
  PROVE  OneStaged'
<1> SUFFICES ASSUME NEW t \in Tokens, NEW u \in Tokens, Staged(t)', Staged(u)',
                    tokens'[t].pivtoken = tokens'[u].pivtoken, t # u
             PROVE  FALSE
  BY DEF OneStaged
<1>1. /\ BecomesStaged(t) \/ (Staged(t) /\ tokens'[t] = tokens[t])
      /\ BecomesStaged(u) \/ (Staged(u) /\ tokens'[u] = tokens[u])
  BY WhoIsStaged
<1>2. CASE Staged(t) /\ tokens'[t] = tokens[t] /\ Staged(u) /\ tokens'[u] = tokens[u]
  BY <1>2 DEF AgentInv, OneStaged
<1>3. ASSUME NEW v \in Tokens, NEW w \in Tokens, v # w, BecomesStaged(v),
             Staged(w)', tokens'[v].pivtoken = tokens'[w].pivtoken
      PROVE  FALSE
  <2>1. PICK p \in PivTokens, c \in Configs :
                AgentStage(p, c, v) /\ tokens'[v] = Marked(tokens[v], {"staged"})
    BY <1>3 DEF BecomesStaged
  <2>2. Of(v, p) /\ tokens[v] \in Row
    BY <2>1 DEF AgentStage, Of, Live, TypeOK
  <2>3. tokens'[v].pivtoken = p
    BY <2>1, <2>2, MarkedType DEF Of, Marks
  <2>4. tokens'[w] = tokens[w] /\ ~Of(w, p)
    BY <1>3, <2>1, StagingRetires
  <2>. QED  BY <1>3, <2>3, <2>4 DEF Of, Live, Staged, Has
<1>. QED  BY <1>1, <1>2, <1>3

LEMMA OneActiveStays ==
  ASSUME TypeOK, AgentInv, [AgentNext]_vars
  PROVE  OneActive'
<1> SUFFICES ASSUME NEW t \in Tokens, NEW u \in Tokens, Active(t)', Active(u)',
                    tokens'[t].pivtoken = tokens'[u].pivtoken, t # u
             PROVE  FALSE
  BY DEF OneActive
<1>1. ASSUME NEW v \in Tokens, NEW w \in Tokens, v # w, BecomesActive(v),
             tokens'[v].pivtoken = tokens[v].pivtoken, Active(w)',
             tokens'[v].pivtoken = tokens'[w].pivtoken
      PROVE  FALSE
  <2>1. PICK h \in Handlers : SetActiveBatch(h) /\ v = ctx[h].token /\ Live(v)
    BY <1>1 DEF BecomesActive
  <2>2. tokens[v].pivtoken = ctx[h].pivtoken
    BY <2>1 DEF SetActiveBatch, AgentInv, CarriesStaged
  <2>3. tokens'[w] = tokens[w] /\ ~Of(w, ctx[h].pivtoken)
    BY <1>1, <2>1, ActivatingRetires
  <2>. QED  BY <1>1, <2>2, <2>3 DEF Of, Live, Active, Has
<1>2. ASSUME NEW v \in Tokens, Active(v), BecomesStaged(v)
      PROVE  tokens'[v].pivtoken = tokens[v].pivtoken
  <2>1. tokens'[v] = Marked(tokens[v], {"staged"}) /\ tokens[v] \in Row
    BY <1>2 DEF BecomesStaged, Active, Has, Live, TypeOK
  <2>. QED  BY <2>1, MarkedType DEF Marks
<1>3. CASE /\ Active(t) /\ tokens'[t].pivtoken = tokens[t].pivtoken
           /\ Active(u) /\ tokens'[u].pivtoken = tokens[u].pivtoken
  BY <1>3 DEF AgentInv, OneActive
<1>4. ASSUME BornActive(t) \/ BornActive(u) PROVE FALSE
  BY <1>4, ProvisioningIsAlone
<1>. QED  BY <1>1, <1>2, <1>3, <1>4, WhoIsActive

LEMMA AgentInvariant == AgentSpec => []AgentInv
<1>1. TypeOK /\ TypeOK' /\ AgentInv /\ [AgentNext]_vars => AgentInv'
  <2> SUFFICES ASSUME TypeOK, TypeOK', AgentInv, [AgentNext]_vars
               PROVE  AgentInv'
    OBVIOUS
  <2>1. \A h \in Handlers : /\ pc'[h] \in {"idle", "create", "provision", "activate"}
                            /\ CarriesFresh(h)'
                            /\ CarriesStaged(h)'
    BY WhoAwaitsAgent, FreshStays, StagedStays
  <2>2. \A t \in Tokens : AgentToken(t)'
    BY AgentTokenStays
  <2>3. OneStaged' /\ OneActive'
    BY OneStagedStays, OneActiveStays
  <2>. QED  BY <2>1, <2>2, <2>3 DEF AgentInv
<1>. QED
  BY <1>1, AgentInit, AgentImplies, TypeCorrect, PTL DEF AgentSpec

(* Along the documented life of a token, however the agents' requests      *)
(* race, an activation leaves no second active token (pivtokens.js 463).   *)
THEOREM OneActiveToken == AgentSpec => []OneActive
<1>1. AgentInv => OneActive
  BY DEF AgentInv
<1>. QED  BY <1>1, AgentInvariant, PTL

(* ... and the staged token of a PIV token is the one and only one that    *)
(* setActiveRecoveryToken counts on (recovery-token.js 406).               *)
THEOREM OneStagedToken == AgentSpec => []OneStaged
<1>1. AgentInv => OneStaged
  BY DEF AgentInv
<1>. QED  BY <1>1, AgentInvariant, PTL
=============================================================================
