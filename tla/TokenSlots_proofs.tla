-------------------------- MODULE TokenSlots_proofs --------------------------
(* On the documented path of recovery tokens, RecoveryTokens implements    *)
(* TokenSlots, for every set of PIV tokens, tokens and handlers.           *)
EXTENDS RecoveryTokens_proofs

-----------------------------------------------------------------------------
(* One token per slot *)

(* OnePristine without its exceptions: agents reactivate nothing, and a PIV *)
(* token comes with an active token.                                       *)
OneCreated ==
  \A t, u \in Tokens :
    Pristine(t) /\ Pristine(u) /\ tokens[t].pivtoken = tokens[u].pivtoken => t = u

SlotInv == TypeOK /\ AgentInv /\ OneCreated

LEMMA WhoIsCreated ==
  ASSUME TypeOK, AgentInv, [AgentNext]_vars, NEW t \in Tokens, Pristine(t)'
  PROVE  BornFresh(t) \/ (Pristine(t) /\ tokens'[t] = tokens[t])
<1>1. tokens'[t] # Nil /\ tokens'[t].marks = {}
  BY DEF Pristine, Live
<1>2. AgentRow(t)
  BY EveryAgentRow
<1>3. Live(t) => tokens[t] \in Row
  BY DEF TypeOK, Live
<1>4. ~Retired(t) /\ ~BecomesStaged(t) /\ ~BecomesActive(t)
  BY <1>1, <1>3, MarkedType
  DEF Retired, BecomesStaged, BecomesActive, AgentStage, Of, Marks
<1>5. tokens'[t] = tokens[t] => Pristine(t)
  BY <1>1 DEF Pristine, Live
<1>6. ~BornActive(t)
  BY <1>1 DEF BornActive, Provisioned, CreatePivBatch, AgentInv, CarriesFresh
<1>. QED  BY <1>1, <1>2, <1>4, <1>5, <1>6 DEF AgentRow, Kept

LEMMA OneCreatedStays ==
  ASSUME TypeOK, AgentInv, OneCreated, [AgentNext]_vars
  PROVE  OneCreated'
<1> SUFFICES ASSUME NEW t \in Tokens, NEW u \in Tokens, Pristine(t)', Pristine(u)',
                    tokens'[t].pivtoken = tokens'[u].pivtoken, t # u
             PROVE  FALSE
  BY DEF OneCreated
<1>1. ASSUME NEW v \in Tokens, NEW w \in Tokens, v # w, BornFresh(v),
             Pristine(v)', Pristine(w)',
             tokens'[v].pivtoken = tokens'[w].pivtoken
      PROVE  FALSE
  <2>1. PICK h \in Handlers : CreateBatch(h) /\ v = ctx[h].token /\ ~Live(v)
    BY <1>1 DEF BornFresh
  <2>2. ~BornFresh(w)
    <3> SUFFICES ASSUME BornFresh(w) PROVE FALSE
      OBVIOUS
    <3>1. PICK g \in Handlers : CreateBatch(g) /\ w = ctx[g].token
      BY DEF BornFresh
    <3>2. pc[g] = "create" /\ pc'[h] = "idle" /\ pc[h] = "create"
      BY <2>1, <3>1 DEF CreateBatch, Finish, TypeOK
    <3>3. g # h
      BY <1>1, <2>1, <3>1
    <3>4. pc'[g] = "create"
      BY <2>1, <3>2, <3>3 DEF CreateBatch, Finish, TypeOK
    <3>5. pc'[g] = "idle"
      BY <3>1 DEF CreateBatch, Finish, TypeOK
    <3>. QED  BY <3>4, <3>5
  <2>3. Pristine(w) /\ tokens'[w] = tokens[w]
    BY <1>1, <2>2, WhoIsCreated
  <2>4. tokens'[w] = Marked(tokens[w], {"expired"})
    BY <1>1, <2>1, <2>3, BirthExpiresPristine DEF Pristine, Live
  <2>5. tokens[w] \in Row
    BY <2>3 DEF TypeOK, Pristine, Live
  <2>. QED  BY <1>1, <2>4, <2>5, MarkedType DEF Pristine, Marks
<1>. QED  BY <1>1, WhoIsCreated DEF OneCreated

LEMMA SlotInvariant == AgentSpec => []SlotInv
<1>1. Init => OneCreated
  BY DEF Init, OneCreated, Pristine, Live
<1>2. TypeOK /\ AgentInv /\ OneCreated /\ [AgentNext]_vars => OneCreated'
  BY OneCreatedStays
<1>. QED
  BY <1>1, <1>2, AgentInvariant, AgentImplies, TypeCorrect, PTL
  DEF AgentSpec, SlotInv

-----------------------------------------------------------------------------
(* Slots and the tokens in them *)

CreatedIn(p) == {t \in Tokens : Of(t, p) /\ Pristine(t)}
StagedIn(p) == {t \in Tokens : Of(t, p) /\ Staged(t)}
ActiveIn(p) == {t \in Tokens : Of(t, p) /\ Active(t)}

Lonely(S) == \A t, u \in S : t = u

LEMMA TheOne == ASSUME NEW t PROVE The({t}) = t
BY DEF The

LEMMA TheNone == The({}) = Nil
BY DEF The

LEMMA TheShrinks ==
  ASSUME NEW S, Lonely(S), NEW T, T \subseteq S
  PROVE  The(T) = IF T = {} THEN Nil ELSE The(S)
<1>1. CASE T = {}
  BY <1>1 DEF The
<1>2. CASE T # {}
  <2>1. T = S
    BY <1>2 DEF Lonely
  <2>. QED  BY <1>2, <2>1
<1>. QED  BY <1>1, <1>2

LEMMA SlotsAreLonely ==
  ASSUME SlotInv, NEW p \in PivTokens
  PROVE  Lonely(CreatedIn(p)) /\ Lonely(StagedIn(p)) /\ Lonely(ActiveIn(p))
BY DEF SlotInv, AgentInv, OneCreated, OneStaged, OneActive, Lonely,
       CreatedIn, StagedIn, ActiveIn, Of

LEMMA TheSlots ==
  /\ CreatedSlot = [p \in PivTokens |-> The(CreatedIn(p))]
  /\ StagedSlot = [p \in PivTokens |-> The(StagedIn(p))]
  /\ ActiveSlot = [p \in PivTokens |-> The(ActiveIn(p))]
  /\ CreatedSlot' = [p \in PivTokens |-> The(CreatedIn(p)')]
  /\ StagedSlot' = [p \in PivTokens |-> The(StagedIn(p)')]
  /\ ActiveSlot' = [p \in PivTokens |-> The(ActiveIn(p)')]
BY DEF CreatedSlot, StagedSlot, ActiveSlot, CreatedIn, StagedIn, ActiveIn

(* What a token is in, with respect to its slots.                          *)
Leaves(t) ==
  \A p \in PivTokens :
    /\ (Of(t, p) /\ Pristine(t))' => Of(t, p) /\ Pristine(t)
    /\ (Of(t, p) /\ Staged(t))' => Of(t, p) /\ Staged(t)
    /\ (Of(t, p) /\ Active(t))' => Of(t, p) /\ Active(t)

(* Slots that only lose tokens are vacated.                                *)
LEMMA LeavingVacates ==
  ASSUME SlotInv, \A t \in Tokens : Leaves(t)
  PROVE  Slots!Vacate
<1>1. \A p \in PivTokens : /\ CreatedIn(p)' \subseteq CreatedIn(p)
                           /\ StagedIn(p)' \subseteq StagedIn(p)
                           /\ ActiveIn(p)' \subseteq ActiveIn(p)
  BY DEF Leaves, CreatedIn, StagedIn, ActiveIn
<1>2. \A p \in PivTokens :
        /\ The(CreatedIn(p)') = IF CreatedIn(p)' = {} THEN Nil ELSE The(CreatedIn(p))
        /\ The(StagedIn(p)') = IF StagedIn(p)' = {} THEN Nil ELSE The(StagedIn(p))
        /\ The(ActiveIn(p)') = IF ActiveIn(p)' = {} THEN Nil ELSE The(ActiveIn(p))
  BY <1>1, TheShrinks, SlotsAreLonely
<1>3. CreatedSlot' = Slots!Without(CreatedSlot, {p \in PivTokens : CreatedIn(p)' = {}})
  BY <1>2, TheSlots DEF Slots!Without
<1>4. StagedSlot' = Slots!Without(StagedSlot, {p \in PivTokens : StagedIn(p)' = {}})
  BY <1>2, TheSlots DEF Slots!Without
<1>5. ActiveSlot' = Slots!Without(ActiveSlot, {p \in PivTokens : ActiveIn(p)' = {}})
  BY <1>2, TheSlots DEF Slots!Without
<1>. QED  BY <1>3, <1>4, <1>5 DEF Slots!Vacate

-----------------------------------------------------------------------------
(* Steps that only vacate slots *)

(* Expiring a token, deleting it or leaving it alone.                      *)
LEMMA RetiringLeaves ==
  ASSUME TypeOK, NEW t \in Tokens, Kept(t) \/ Retired(t)
  PROVE  Leaves(t)
<1>1. CASE tokens'[t] = tokens[t]
  BY <1>1 DEF Leaves, Of, Pristine, Staged, Active, Has, Live
<1>2. CASE tokens'[t] = Nil
  BY <1>2 DEF Leaves, Of, Live
<1>3. CASE Retired(t)
  <2>1. tokens[t] \in Row
    BY <1>3 DEF Retired, TypeOK, Live
  <2>2. "expired" \in tokens'[t].marks
    BY <1>3, <2>1, MarkedType DEF Retired, Marks
  <2>. QED  BY <2>2 DEF Leaves, Pristine, Staged, Active, Has, Live
<1>. QED  BY <1>1, <1>2, <1>3 DEF Kept

LEMMA BatchLeaves ==
  ASSUME TypeOK, NEW expire, expire \subseteq {t \in Tokens : Live(t)},
         NEW puts, Batch(expire, puts), NEW t \in Tokens, t \notin DOMAIN puts
  PROVE  Leaves(t)
BY BatchRetires, RetiringLeaves

-----------------------------------------------------------------------------
(* A token is created *)

LEMMA CreateStep ==
  ASSUME SlotInv, NEW h \in Handlers, CreateBatch(h)
  PROVE  Slots!Next \/ UNCHANGED Slots!vars
<1> DEFINE t == ctx[h].token
           p == ctx[h].row.pivtoken
           expire == PristineOf(p)
           puts == [u \in {t} |-> ctx[h].row]
<1>0. TypeOK /\ ctx[h] \in CreateCtx /\ t \in Tokens /\ p \in PivTokens
  BY DEF SlotInv, TypeOK, ContextOK, CreateBatch, CreateCtx, Row
<1>1. CASE Live(t)
  <2>1. \A u \in Tokens : Kept(u)
    BY <1>1 DEF CreateBatch, Kept
  <2>. QED  BY <1>0, <2>1, RetiringLeaves, LeavingVacates DEF Slots!Next
<1>2. CASE ~Live(t)
  <2>1. Batch(expire, puts)
    BY <1>2 DEF CreateBatch
  <2>2. tokens'[t] = ctx[h].row /\ ctx[h].row.marks = {} /\ tokens'[t] # Nil
    BY <1>0, <2>1, NilAssumption
    DEF Batch, Touched, SlotInv, AgentInv, CarriesFresh, CreateBatch, CreateCtx
  <2>3. ASSUME NEW u \in Tokens, u # t
        PROVE  tokens'[u] = IF u \in expire THEN Marked(tokens[u], {"expired"})
                            ELSE tokens[u]
    BY <2>1, <2>3 DEF Batch, Touched
  <2>4. ASSUME NEW u \in Tokens, u \in expire
        PROVE  /\ u # t /\ Of(u, p) /\ Pristine(u)
               /\ tokens'[u] # Nil /\ tokens'[u].marks = {"expired"}
    <3>1. u # t /\ Of(u, p) /\ Pristine(u) /\ tokens[u] \in Row
      BY <1>0, <1>2, <2>4 DEF PristineOf, Of, Pristine, Live, TypeOK
    <3>2. tokens'[u] = Marked(tokens[u], {"expired"})
      BY <2>3, <2>4, <3>1
    <3>. QED  BY <3>1, <3>2, MarkedType, NilAssumption DEF Pristine, Marks
  <2>5. ASSUME NEW q \in PivTokens, NEW u \in Tokens
        PROVE  /\ (Of(u, q) /\ Staged(u))' <=> Of(u, q) /\ Staged(u)
               /\ (Of(u, q) /\ Active(u))' <=> Of(u, q) /\ Active(u)
               /\ (Of(u, q) /\ Pristine(u))' <=>
                    IF q = p THEN u = t ELSE Of(u, q) /\ Pristine(u)
    <3>1. CASE u = t
      BY <1>2, <2>2, <3>1 DEF Of, Staged, Active, Pristine, Has, Live
    <3>2. CASE u \in expire
      BY <2>4, <3>2 DEF Of, Staged, Active, Pristine, Has, Live
    <3>3. CASE u # t /\ u \notin expire
      <4>1. tokens'[u] = tokens[u] /\ ~(Of(u, p) /\ Pristine(u))
        BY <2>3, <3>3 DEF PristineOf
      <4>. QED  BY <3>3, <4>1 DEF Of, Staged, Active, Pristine, Has, Live
    <3>. QED  BY <3>1, <3>2, <3>3
  <2>6. \A q \in PivTokens :
          /\ StagedIn(q)' = StagedIn(q) /\ ActiveIn(q)' = ActiveIn(q)
          /\ CreatedIn(q)' = IF q = p THEN {t} ELSE CreatedIn(q)
    BY <1>0, <2>5 DEF StagedIn, ActiveIn, CreatedIn
  <2>7. CreatedSlot' = [CreatedSlot EXCEPT ![p] = t]
    BY <1>0, <2>6, TheSlots, TheOne
  <2>8. UNCHANGED <<StagedSlot, ActiveSlot>>
    BY <2>6, TheSlots
  <2>9. ASSUME NEW q \in PivTokens
        PROVE  t \notin {CreatedSlot[q], StagedSlot[q], ActiveSlot[q]}
    <3>1. t \notin CreatedIn(q) /\ t \notin StagedIn(q) /\ t \notin ActiveIn(q)
      BY <1>2 DEF CreatedIn, StagedIn, ActiveIn, Of
    <3>2. \A S : The(S) \in S \cup {Nil}
      BY DEF The
    <3>. QED  BY <1>0, <3>1, <3>2, TheSlots, NilAssumption
  <2>10. Slots!Create(p, t)
    BY <2>7, <2>8, <2>9 DEF Slots!Create
  <2>. QED  BY <1>0, <2>10 DEF Slots!Next
<1>. QED  BY <1>1, <1>2

-----------------------------------------------------------------------------
(* A PIV token is created with an active token *)

LEMMA ProvisionStep ==
  ASSUME SlotInv, NEW h \in Handlers, CreatePivBatch(h)
  PROVE  Slots!Next \/ UNCHANGED Slots!vars
<1> DEFINE t == ctx[h].token
           p == ctx[h].row.pivtoken
           puts == [u \in {t} |-> ctx[h].row]
<1>0. /\ TypeOK /\ ctx[h] \in CreateCtx /\ t \in Tokens /\ p \in PivTokens
      /\ ctx[h].row.marks = {"staged", "activated"}
  BY DEF SlotInv, TypeOK, ContextOK, CreatePivBatch, CreateCtx, Row, AgentInv,
         CarriesFresh
<1>1. CASE piv[p] = "here" \/ Live(t)
  <2>1. \A u \in Tokens : Kept(u)
    BY <1>1 DEF CreatePivBatch, Kept
  <2>. QED  BY <1>0, <2>1, RetiringLeaves, LeavingVacates DEF Slots!Next
<1>2. CASE ~(piv[p] = "here" \/ Live(t))
  <2>1. Batch({}, puts)
    BY <1>2 DEF CreatePivBatch
  <2>2. /\ tokens'[t] = ctx[h].row /\ tokens'[t] # Nil
        /\ \A u \in Tokens : u # t => tokens'[u] = tokens[u]
    BY <1>0, <2>1, NilAssumption DEF Batch, Touched, CreateCtx
  <2>3. ASSUME NEW q \in PivTokens, NEW u \in Tokens
        PROVE  /\ (Of(u, q) /\ Staged(u))' <=> Of(u, q) /\ Staged(u)
               /\ (Of(u, q) /\ Pristine(u))' <=> Of(u, q) /\ Pristine(u)
               /\ (Of(u, q) /\ Active(u))' <=>
                    (Of(u, q) /\ Active(u)) \/ (q = p /\ u = t)
    <3>1. CASE u = t
      BY <1>0, <1>2, <2>2, <3>1 DEF Of, Staged, Active, Pristine, Has, Live
    <3>2. CASE u # t
      BY <2>2, <3>2 DEF Of, Staged, Active, Pristine, Has, Live
    <3>. QED  BY <3>1, <3>2
  <2>4. ActiveIn(p) = {}
    BY <1>0, <1>2 DEF ActiveIn, Active, Of, SlotInv, AgentInv, AgentToken
  <2>5. \A q \in PivTokens :
          /\ StagedIn(q)' = StagedIn(q) /\ CreatedIn(q)' = CreatedIn(q)
          /\ ActiveIn(q)' = IF q = p THEN {t} ELSE ActiveIn(q)
    BY <1>0, <2>3, <2>4 DEF StagedIn, ActiveIn, CreatedIn
  <2>6. ActiveSlot' = [ActiveSlot EXCEPT ![p] = t] /\ ActiveSlot[p] = Nil
    BY <1>0, <2>4, <2>5, TheSlots, TheOne, TheNone
  <2>7. UNCHANGED <<CreatedSlot, StagedSlot>>
    BY <2>5, TheSlots
  <2>8. ASSUME NEW q \in PivTokens
        PROVE  t \notin {CreatedSlot[q], StagedSlot[q], ActiveSlot[q]}
    <3>1. t \notin CreatedIn(q) /\ t \notin StagedIn(q) /\ t \notin ActiveIn(q)
      BY <1>2 DEF CreatedIn, StagedIn, ActiveIn, Of
    <3>2. \A S : The(S) \in S \cup {Nil}
      BY DEF The
    <3>. QED  BY <1>0, <3>1, <3>2, TheSlots, NilAssumption
  <2>9. Slots!Provision(p, t)
    BY <2>6, <2>7, <2>8 DEF Slots!Provision
  <2>. QED  BY <1>0, <2>9 DEF Slots!Next
<1>. QED  BY <1>1, <1>2

-----------------------------------------------------------------------------
(* An agent stages its token *)

LEMMA StageStep ==
  ASSUME SlotInv, NEW p \in PivTokens, NEW c \in Configs, NEW t \in Tokens,
         AgentStage(p, c, t)
  PROVE  Slots!Next
<1> DEFINE expire == OtherStaged(p, t)
           staging == {v \in {t} : /\ Live(v)
                                   /\ tokens[v].config = c
                                   /\ ~Has(v, "staged")
                                   /\ ~Has(v, "expired")}
           puts == [v \in staging |-> Marked(tokens[v], {"staged"})]
<1>0. TypeOK /\ Of(t, p) /\ tokens[t] \in Row
  BY DEF SlotInv, TypeOK, AgentStage, Of, Live
<1>1. Batch(expire, puts) /\ expire \subseteq {u \in Tokens : Live(u)}
  BY DEF AgentStage, SetStaged, OtherStaged, Of
<1>2. CASE t \notin staging
  <2>1. \A u \in Tokens : u \notin DOMAIN puts
    BY <1>2
  <2> HIDE DEF expire, puts
  <2>. QED  BY <1>0, <1>1, <2>1, BatchLeaves, LeavingVacates DEF Slots!Next
<1>3. CASE t \in staging
  <2>1. Pristine(t)
    <3>1. tokens[t].marks = {}
      BY <1>0, <1>3 DEF SlotInv, AgentInv, AgentToken, Has, Row, Marks
    <3>. QED  BY <1>3, <3>1 DEF Pristine
  <2>2. /\ tokens'[t] # Nil /\ tokens'[t].pivtoken = p
        /\ tokens'[t].marks = {"staged"}
    <3>1. tokens'[t] = Marked(tokens[t], {"staged"})
      BY <1>1, <1>3 DEF Batch, Touched
    <3>. QED  BY <1>0, <2>1, <3>1, MarkedType, NilAssumption
              DEF Of, Pristine, Marks
  <2>3. ASSUME NEW u \in Tokens, u # t
        PROVE  tokens'[u] = IF u \in expire THEN Marked(tokens[u], {"expired"})
                            ELSE tokens[u]
    BY <1>1, <2>3 DEF Batch, Touched
  <2>4. ASSUME NEW u \in Tokens, u \in expire
        PROVE  /\ u # t /\ Of(u, p) /\ Staged(u)
               /\ tokens'[u] # Nil /\ "expired" \in tokens'[u].marks
    <3>1. u # t /\ Of(u, p) /\ Staged(u) /\ tokens[u] \in Row
      BY <1>0, <2>4 DEF OtherStaged, Of, Live, TypeOK
    <3>. QED  BY <2>3, <2>4, <3>1, MarkedType, NilAssumption DEF Marks
  <2>5. ASSUME NEW q \in PivTokens, NEW u \in Tokens
        PROVE  /\ (Of(u, q) /\ Active(u))' <=> Of(u, q) /\ Active(u)
               /\ (Of(u, q) /\ Staged(u))' <=>
                    IF q = p THEN u = t ELSE Of(u, q) /\ Staged(u)
               /\ (Of(u, q) /\ Pristine(u))' <=>
                    Of(u, q) /\ Pristine(u) /\ u # t
    <3>1. CASE u = t
      BY <1>0, <2>1, <2>2, <3>1 DEF Of, Staged, Active, Pristine, Has, Live
    <3>2. CASE u \in expire
      BY <2>4, <3>2 DEF Of, Staged, Active, Pristine, Has, Live
    <3>3. CASE u # t /\ u \notin expire
      <4>1. tokens'[u] = tokens[u] /\ ~(Of(u, p) /\ Staged(u))
        BY <2>3, <3>3 DEF OtherStaged
      <4>. QED  BY <3>3, <4>1 DEF Of, Staged, Active, Pristine, Has, Live
    <3>. QED  BY <3>1, <3>2, <3>3
  <2>6. t \in CreatedIn(p) /\ \A q \in PivTokens : q # p => t \notin CreatedIn(q)
    BY <1>0, <2>1 DEF CreatedIn, Of
  <2>7. CreatedIn(p) = {t}
    BY <2>6, SlotsAreLonely DEF Lonely
  <2>8. \A q \in PivTokens :
          /\ ActiveIn(q)' = ActiveIn(q)
          /\ StagedIn(q)' = IF q = p THEN {t} ELSE StagedIn(q)
          /\ CreatedIn(q)' = IF q = p THEN {} ELSE CreatedIn(q)
    <3>1. \A q \in PivTokens : CreatedIn(q)' = CreatedIn(q) \ {t}
      BY <2>5 DEF CreatedIn
    <3>. QED  BY <2>5, <2>6, <2>7, <3>1 DEF ActiveIn, StagedIn
  <2>9. CreatedSlot[p] = t /\ t # Nil
    BY <2>7, TheSlots, TheOne, NilAssumption
  <2>10. StagedSlot' = [StagedSlot EXCEPT ![p] = CreatedSlot[p]]
    BY <2>8, <2>9, TheSlots, TheOne
  <2>11. CreatedSlot' = [CreatedSlot EXCEPT ![p] = Nil]
    BY <2>8, TheSlots, TheNone
  <2>12. UNCHANGED ActiveSlot
    BY <2>8, TheSlots
  <2>13. Slots!Stage(p)
    BY <2>9, <2>10, <2>11, <2>12 DEF Slots!Stage
  <2>. QED  BY <2>13 DEF Slots!Next
<1>. QED  BY <1>2, <1>3

-----------------------------------------------------------------------------
(* An agent activates the token it listed *)

LEMMA ActivateStep ==
  ASSUME SlotInv, NEW h \in Handlers, SetActiveBatch(h),
         NEW t \in Tokens, t = ctx[h].token,
         NEW p \in PivTokens, p = ctx[h].pivtoken
  PROVE  Slots!Next
<1> DEFINE expire == OtherActive(p, t)
           found == {v \in {t} : Live(v)}
           puts == [v \in found |-> Marked(tokens[v], {"activated"})]
<1>0. TypeOK
  BY DEF SlotInv
<1>1. Batch(expire, puts) /\ expire \subseteq {u \in Tokens : Live(u)}
  BY DEF SetActiveBatch, OtherActive, Of
<1>2. CASE ~Live(t)
  <2>1. \A u \in Tokens : u \notin DOMAIN puts
    BY <1>2
  <2> HIDE DEF expire, puts
  <2>. QED  BY <1>0, <1>1, <2>1, BatchLeaves, LeavingVacates DEF Slots!Next
<1>3. CASE Live(t)
  <2>1. Of(t, p) /\ Has(t, "staged") /\ tokens[t] \in Row
    BY <1>0, <1>3 DEF SlotInv, AgentInv, CarriesStaged, SetActiveBatch, Of,
                      TypeOK, Live
  <2>2. /\ tokens'[t] # Nil /\ tokens'[t].pivtoken = p
        /\ tokens'[t].marks = tokens[t].marks \cup {"activated"}
    <3>1. tokens'[t] = Marked(tokens[t], {"activated"})
      BY <1>0, <1>1, <1>3 DEF Batch, Touched
    <3>. QED  BY <2>1, <3>1, MarkedType, NilAssumption DEF Of, Marks
  <2>3. CASE ~Staged(t)
    <3>1. Leaves(t)
      <4>1. Live(t)' /\ ~Pristine(t)' /\ ~Staged(t)' /\ (Active(t)' => Active(t))
        BY <1>3, <2>1, <2>2, <2>3 DEF Pristine, Staged, Active, Has, Live
      <4>2. ASSUME NEW q \in PivTokens, Of(t, q)' PROVE Of(t, q)
        BY <1>3, <2>1, <2>2, <4>2 DEF Of, Live
      <4>. QED  BY <4>1, <4>2 DEF Leaves
    <3>2. \A u \in Tokens : u # t => u \notin DOMAIN puts
      OBVIOUS
    <3> HIDE DEF expire, puts
    <3>3. \A u \in Tokens : Leaves(u)
      BY <1>0, <1>1, <3>1, <3>2, BatchLeaves
    <3>. QED  BY <3>3, LeavingVacates DEF Slots!Next
  <2>4. CASE Staged(t)
    <3>1. ASSUME NEW u \in Tokens, u # t
          PROVE  tokens'[u] = IF u \in expire THEN Marked(tokens[u], {"expired"})
                              ELSE tokens[u]
      BY <1>1, <3>1 DEF Batch, Touched
    <3>2. ASSUME NEW u \in Tokens, u \in expire
          PROVE  /\ u # t /\ Of(u, p) /\ Active(u)
                 /\ tokens'[u] # Nil /\ "expired" \in tokens'[u].marks
      <4>1. u # t /\ Of(u, p) /\ Active(u) /\ tokens[u] \in Row
        BY <1>0, <3>2 DEF OtherActive, Of, Live, TypeOK
      <4>. QED  BY <3>1, <3>2, <4>1, MarkedType, NilAssumption DEF Marks
    <3>3. ASSUME NEW u \in Tokens, u # t, u \notin expire
          PROVE  tokens'[u] = tokens[u] /\ ~(Of(u, p) /\ Active(u))
      BY <3>1, <3>3 DEF OtherActive, SlotInv, AgentInv, AgentToken, Active, Has
    <3>4. ASSUME NEW q \in PivTokens, NEW u \in Tokens
          PROVE  /\ (Of(u, q) /\ Pristine(u))' <=> Of(u, q) /\ Pristine(u)
                 /\ (Of(u, q) /\ Staged(u))' <=>
                      Of(u, q) /\ Staged(u) /\ u # t
                 /\ (Of(u, q) /\ Active(u))' <=>
                      IF q = p THEN u = t ELSE Of(u, q) /\ Active(u)
      <4>1. CASE u = t
        BY <2>1, <2>2, <2>4, <4>1 DEF Of, Staged, Active, Pristine, Has, Live
      <4>2. CASE u \in expire
        BY <3>2, <4>2 DEF Of, Staged, Active, Pristine, Has, Live
      <4>3. CASE u # t /\ u \notin expire
        BY <3>3, <4>3 DEF Of, Staged, Active, Pristine, Has, Live
      <4>. QED  BY <4>1, <4>2, <4>3
    <3>5. t \in StagedIn(p) /\ \A q \in PivTokens : q # p => t \notin StagedIn(q)
      BY <1>0, <2>1, <2>4 DEF StagedIn, Of
    <3>6. StagedIn(p) = {t}
      BY <1>0, <3>5, SlotsAreLonely DEF Lonely
    <3>7. \A q \in PivTokens :
            /\ CreatedIn(q)' = CreatedIn(q)
            /\ StagedIn(q)' = IF q = p THEN {} ELSE StagedIn(q)
            /\ ActiveIn(q)' = IF q = p THEN {t} ELSE ActiveIn(q)
      <4>1. \A q \in PivTokens : StagedIn(q)' = StagedIn(q) \ {t}
        BY <3>4 DEF StagedIn
      <4>. QED  BY <1>0, <3>4, <3>5, <3>6, <4>1 DEF CreatedIn, ActiveIn
    <3>8. StagedSlot[p] = t /\ t # Nil
      BY <1>0, <3>6, TheSlots, TheOne, NilAssumption
    <3>9. ActiveSlot' = [ActiveSlot EXCEPT ![p] = StagedSlot[p]]
      BY <3>7, <3>8, TheSlots, TheOne
    <3>10. StagedSlot' = [StagedSlot EXCEPT ![p] = Nil]
      BY <3>7, TheSlots, TheNone
    <3>11. UNCHANGED CreatedSlot
      BY <3>7, TheSlots
    <3>12. Slots!Activate(p)
      BY <3>8, <3>9, <3>10, <3>11 DEF Slots!Activate
    <3>. QED  BY <1>0, <3>12 DEF Slots!Next
  <2>. QED  BY <2>3, <2>4
<1>. QED  BY <1>2, <1>3

-----------------------------------------------------------------------------
(* Refinement *)

LEMMA SlotsInit == Init => Slots!Init
<1> SUFFICES ASSUME Init PROVE Slots!Init
  OBVIOUS
<1>1. \A p \in PivTokens : CreatedIn(p) = {} /\ StagedIn(p) = {} /\ ActiveIn(p) = {}
  BY DEF Init, CreatedIn, StagedIn, ActiveIn, Of, Live
<1>. QED  BY <1>1, TheSlots DEF Slots!Init, The

LEMMA SlotsStep ==
  ASSUME SlotInv, [AgentNext]_vars
  PROVE  [Slots!Next]_(Slots!vars)
<1>0. TypeOK
  BY DEF SlotInv
<1>1. ASSUME NEW S, Remove(S) PROVE Slots!Next
  <2>1. \A t \in Tokens : Kept(t)
    BY <1>1 DEF Remove, Kept
  <2>. QED  BY <1>0, <2>1, RetiringLeaves, LeavingVacates DEF Slots!Next
<1>2. ASSUME UNCHANGED tokens PROVE Slots!Next
  <2>1. \A t \in Tokens : Kept(t)
    BY <1>2 DEF Kept
  <2>. QED  BY <1>0, <2>1, RetiringLeaves, LeavingVacates DEF Slots!Next
<1>3. ASSUME NEW c \in Configs, ExpireConfig(c) PROVE Slots!Next
  <2> DEFINE expire == {t \in Tokens : /\ Live(t)
                                       /\ tokens[t].config = c
                                       /\ ~Has(t, "expired")}
  <2>1. /\ Batch(expire, <<>>) /\ expire \subseteq {t \in Tokens : Live(t)}
        /\ \A t \in Tokens : t \notin DOMAIN <<>>
    BY <1>3 DEF ExpireConfig
  <2> HIDE DEF expire
  <2>. QED  BY <1>0, <2>1, BatchLeaves, LeavingVacates DEF Slots!Next
<1>4. ASSUME NEW h \in Handlers, SetActiveBatch(h) PROVE Slots!Next
  <2>1. ctx[h].token \in Tokens /\ ctx[h].pivtoken \in PivTokens
    BY <1>0, <1>4 DEF TypeOK, ContextOK, SetActiveBatch, ActivateCtx
  <2>. QED  BY <1>4, <2>1, ActivateStep
<1>. QED
  BY <1>1, <1>2, <1>3, <1>4, CreateStep, ProvisionStep, StageStep
  DEF AgentNext, Shared, vars, Provision, CreatePivGetConfig, CreateFresh,
      CreateFetchConfig, AgentActivate, SetActiveList, Prune, DeletePivToken,
      ConfigStep, ExpireUnusedConfig

(* ImplementsSlots (pivtokens.js 454-465), for any number of handlers:     *)
(* every step of the handlers, of the configurations and of the prune is a *)
(* step of TokenSlots or none.                                             *)
THEOREM SlotsAreImplemented == AgentSpec => ImplementsSlots
<1>1. SlotInv /\ [AgentNext]_vars => [Slots!Next]_(Slots!vars)
  BY SlotsStep
<1>. QED  BY <1>1, SlotsInit, SlotInvariant, PTL
     DEF AgentSpec, ImplementsSlots, Slots!Spec
=============================================================================
