------------------------ MODULE Transitioner_proofs ------------------------
(***************************************************************************)
(* Theorems about Transitioner.  Its type invariant holds for any number   *)
(* of services, and so does what the lock guarantees.  With one service,   *)
(* and agents whose failures are all kept as errors, a configuration only  *)
(* changes state when every node has done its task, and Transitioner       *)
(* implements Rollout.                                                     *)
(***************************************************************************)
EXTENDS Transitioner, TLAPS

LEMMA TypeOKInit == Init => TypeOK
BY DEF Init, TypeOK, Running, Labels

(* A put leaves every transition that exists in place.                     *)
LEMMA PutType ==
  ASSUME TypeOK, NEW i \in Transitions, NEW tag, NEW row \in Row, Put(i, tag, row)
  PROVE  /\ trs' \in [Transitions -> Row \cup {Nil}]
         /\ etag' \in [Transitions -> Nat]
         /\ \A j \in Transitions : trs[j] # Nil => trs'[j] # Nil
         /\ trs'[i] = row /\ \A j \in Transitions \ {i} : trs'[j] = trs[j]
BY NilAssumption DEF TypeOK, Put

(* What TypeOK says of one service.                                        *)
ServiceOK(s) ==
  /\ curr[s] # Nil => trs[curr[s]] # Nil
  /\ Running(s) => ctx[s] \in Context /\ trs[ctx[s].tr] # Nil

(* The control state of the other services.                                *)
OthersKeep(s) ==
  /\ DOMAIN ctx' = Services
  /\ \A u \in Services \ {s} : curr'[u] = curr[u] /\ ctx'[u] = ctx[u]

(* A step of service s that keeps the transitions in place and leaves s in *)
(* order keeps the types.                                                  *)
LEMMA ServiceStepType ==
  ASSUME TypeOK, NEW s \in Services, NEW label \in Labels, Goto(s, label),
         curr' \in [Services -> Transitions \cup {Nil}],
         OthersKeep(s), ServiceOK(s)',
         trs' \in [Transitions -> Row \cup {Nil}], etag' \in [Transitions -> Nat],
         \A j \in Transitions : trs[j] # Nil => trs'[j] # Nil,
         config' \in [Configs -> SUBSET {"staged", "activated"}],
         agent' \in [Transitions -> [Nodes -> {"none", "given", "done"}]],
         late' \in [Transitions -> Nat], crashes' \in Nat, faults' \in Nat,
         cancelling' = cancelling
  PROVE  TypeOK'
<1>1. /\ pc' \in [Services -> Labels] /\ pc'[s] = label
      /\ \A u \in Services \ {s} : pc'[u] = pc[u]
  BY DEF TypeOK, Goto
<1>2. \A u \in Services \ {s} : ServiceOK(u)'
  <2> SUFFICES ASSUME NEW u \in Services \ {s} PROVE ServiceOK(u)'
    OBVIOUS
  <2>1. ServiceOK(u)
    BY DEF TypeOK, ServiceOK
  <2>2. curr[u] \in Transitions \cup {Nil}
    BY DEF TypeOK
  <2>3. Running(u) => ctx[u].tr \in Transitions
    BY <2>1 DEF ServiceOK, Context
  <2>. QED  BY <1>1, <2>1, <2>2, <2>3 DEF OthersKeep, ServiceOK, Running
<1>3. cancelling' \subseteq {i \in Transitions : trs'[i] # Nil}
  BY DEF TypeOK
<1>. QED  BY <1>1, <1>2, <1>3 DEF TypeOK, ServiceOK, OthersKeep

(* The updates of a row.                                                   *)
LEMMA RowType ==
  ASSUME NEW row \in Row
  PROVE  /\ [row EXCEPT !.aborted = TRUE] \in Row
         /\ [row EXCEPT !.finished = TRUE] \in Row
         /\ [row EXCEPT !.aborted = TRUE, !.finished = TRUE] \in Row
         /\ \A s \in Services :
              [row EXCEPT !.lockedBy = s, !.started = TRUE] \in Row
         /\ \A done, errs \in SUBSET Nodes :
              [row EXCEPT !.completed = done, !.errs = errs] \in Row
BY DEF Row

LEMMA CreateRow ==
  ASSUME TypeOK, NEW i \in Transitions, NEW c \in Configs, NEW name \in Names,
         Create(i, c, name)
  PROVE  /\ \A j \in Transitions \ {i} : trs'[j] = trs[j]
         /\ trs' \in [Transitions -> Row \cup {Nil}]
         /\ trs'[i] \in Row /\ trs'[i].completed = {}
         /\ ~trs'[i].finished /\ ~trs'[i].aborted
<1>1. PICK targets \in {Nodes} \cup {{n} : n \in Nodes} : \E standalone \in BOOLEAN :
         trs' = [trs EXCEPT ![i] =
                   [config |-> c, name |-> name, targets |-> targets,
                    standalone |-> standalone, started |-> FALSE,
                    finished |-> FALSE, aborted |-> FALSE,
                    completed |-> {}, errs |-> {}, lockedBy |-> Nil]]
  BY DEF Create
<1>2. PICK standalone \in BOOLEAN :
         trs' = [trs EXCEPT ![i] =
                   [config |-> c, name |-> name, targets |-> targets,
                    standalone |-> standalone, started |-> FALSE,
                    finished |-> FALSE, aborted |-> FALSE,
                    completed |-> {}, errs |-> {}, lockedBy |-> Nil]]
  BY <1>1
<1>3. [config |-> c, name |-> name, targets |-> targets,
       standalone |-> standalone, started |-> FALSE,
       finished |-> FALSE, aborted |-> FALSE,
       completed |-> {}, errs |-> {}, lockedBy |-> Nil] \in Row
  BY DEF Row
<1>. QED  BY <1>2, <1>3 DEF TypeOK

LEMMA TypeOKCreate ==
  ASSUME TypeOK, NEW i \in Transitions, NEW c \in Configs, NEW name \in Names,
         Create(i, c, name)
  PROVE  TypeOK'
<1>1. /\ trs' \in [Transitions -> Row \cup {Nil}]
      /\ \A j \in Transitions : trs[j] # Nil => trs'[j] # Nil
  BY CreateRow, NilAssumption
<1>. QED  BY <1>1 DEF Create, TypeOK, Running, Context

LEMMA TypeOKCancel ==
  ASSUME TypeOK, NEW i \in Transitions, CancelList(i) \/ CancelPut(i)
  PROVE  TypeOK'
<1>1. CASE CancelList(i)
  BY <1>1 DEF CancelList, Open, TypeOK, Running
<1>2. CASE CancelPut(i)
  <2>1. trs[i] \in Row
    BY <1>2 DEF CancelPut, TypeOK
  <2>2. /\ trs' \in [Transitions -> Row \cup {Nil}]
        /\ etag' \in [Transitions -> Nat]
        /\ \A j \in Transitions : trs[j] # Nil => trs'[j] # Nil
    <3>1. Put(i, etag[i], [trs[i] EXCEPT !.aborted = TRUE])
      BY <1>2 DEF CancelPut
    <3>. QED  BY <2>1, <3>1, RowType, PutType
  <2>. QED  BY <1>2, <2>2 DEF CancelPut, TypeOK, Running, Context
<1>. QED  BY <1>1, <1>2

LEMMA TypeOKAgentDoes ==
  ASSUME TypeOK, NEW i \in Transitions, NEW n \in Nodes, AgentDoes(i, n)
  PROVE  TypeOK'
BY DEF AgentDoes, TypeOK, Running

LEMMA TypeOKStep ==
  ASSUME TypeOK, NEW s \in Services, Step(s) \/ Fault(s) \/ Crash(s)
  PROVE  TypeOK'
<1> USE DEF Goto, NewCtx
<1>0. /\ trs \in [Transitions -> Row \cup {Nil}] /\ etag \in [Transitions -> Nat]
      /\ curr \in [Services -> Transitions \cup {Nil}] /\ DOMAIN ctx = Services
      /\ ServiceOK(s)
  BY DEF TypeOK, ServiceOK
<1>a. pc[s] \in Labels \ {"idle", "abort", "stuck"} =>
        /\ ctx[s] \in Context /\ ctx[s].tr \in Transitions
        /\ trs[ctx[s].tr] # Nil /\ trs[ctx[s].tr] \in Row
  BY <1>0 DEF ServiceOK, Running, Context
<1>b. ASSUME NEW label \in Labels, Goto(s, label),
             OthersKeep(s), ServiceOK(s)',
             curr' \in [Services -> Transitions \cup {Nil}],
             UNCHANGED <<trs, etag, config, agent, cancelling, crashes, late>>,
             faults' \in Nat
      PROVE  TypeOK'
  BY <1>b, ServiceStepType DEF TypeOK
<1>1. CASE List(s)
  <2>1. PICK i \in Transitions :
           /\ Open(i)
           /\ IF PendingTargets(trs[i]) = {}
              THEN StartOver(s)
              ELSE /\ curr' = [curr EXCEPT ![s] = i]
                   /\ NewCtx(s, [tr |-> i, etag |-> etag[i], batch |-> {},
                                 pending |-> PendingTargets(trs[i]),
                                 completed |-> {}, errs |-> {}])
                   /\ Goto(s, "lock")
    BY <1>1 DEF List
  <2>2. CASE StartOver(s)
    <3>1. ServiceOK(s)' /\ OthersKeep(s) /\ curr' \in [Services -> Transitions \cup {Nil}]
      BY <1>0, <2>2 DEF StartOver, ServiceOK, Running, OthersKeep, TypeOK
    <3>. QED  BY <1>1, <2>2, <3>1, ServiceStepType DEF List, StartOver, Labels, TypeOK
  <2>3. CASE ~StartOver(s)
    <3>1. trs[i] \in Row /\ PendingTargets(trs[i]) \in SUBSET Nodes
      BY <1>0, <2>1 DEF Open, PendingTargets, Row
    <3>2. ctx'[s] \in Context /\ ctx'[s].tr = i /\ curr'[s] = i
      BY <1>0, <2>1, <2>3, <3>1 DEF Context
    <3>3. ServiceOK(s)' /\ OthersKeep(s) /\ curr' \in [Services -> Transitions \cup {Nil}]
      BY <1>0, <1>1, <2>1, <2>3, <3>2 DEF List, Open, ServiceOK, OthersKeep, Running
    <3>. QED  BY <1>1, <2>1, <2>3, <3>3, ServiceStepType DEF List, Labels, TypeOK
  <2>. QED  BY <2>2, <2>3
<1>2. CASE Lock(s)
  <2> DEFINE i == ctx[s].tr
  <2>1. ctx[s] \in Context /\ i \in Transitions /\ trs[i] # Nil /\ trs[i] \in Row
    BY <1>2, <1>a DEF Lock, Labels
  <2>2. CASE Unchanged(i, ctx[s].etag) /\ Goto(s, "batch")
    <3>1. Put(i, ctx[s].etag, [trs[i] EXCEPT !.lockedBy = s, !.started = TRUE])
      BY <1>2, <1>0, <2>2 DEF Lock, TypeOK
    <3>2. /\ trs' \in [Transitions -> Row \cup {Nil}] /\ etag' \in [Transitions -> Nat]
          /\ \A j \in Transitions : trs[j] # Nil => trs'[j] # Nil
      BY <2>1, <3>1, RowType, PutType
    <3>3. ctx' = [ctx EXCEPT ![s] = [ctx[s] EXCEPT !.completed = trs[i].completed,
                                                   !.errs = KnownErrors(trs[i])]]
      BY <1>2, <1>0, <2>2 DEF Lock, TypeOK
    <3>4. ctx'[s] \in Context /\ ctx'[s].tr = i
      BY <1>0, <2>1, <3>3 DEF Context, Row, KnownErrors
    <3>5. ServiceOK(s)' /\ OthersKeep(s)
      BY <1>2, <1>0, <2>1, <3>2, <3>3, <3>4 DEF Lock, ServiceOK, OthersKeep, Running
    <3>. QED  BY <1>2, <1>0, <2>2, <3>2, <3>5, ServiceStepType DEF Lock, Labels, TypeOK
  <2>3. CASE Goto(s, "abort") /\ UNCHANGED <<trs, etag, ctx>>
    BY <1>2, <1>0, <1>b, <2>3 DEF Lock, ServiceOK, OthersKeep, Running, Labels, TypeOK
  <2>. QED  BY <1>2, <2>2, <2>3 DEF Lock, Put, Unchanged
<1>3. CASE StartBatch(s)
  <2> DEFINE i == ctx[s].tr
  <2>1. ctx[s] \in Context /\ i \in Transitions /\ trs[i] # Nil
    BY <1>3, <1>a DEF StartBatch, Labels
  <2>2. PICK batch \in SUBSET ctx[s].pending : \E given \in SUBSET batch :
          /\ agent' = [agent EXCEPT ![i] =
                        [n \in Nodes |-> IF n \in given /\ @[n] = "none"
                                         THEN "given" ELSE @[n]]]
          /\ NewCtx(s, [ctx[s] EXCEPT !.batch = batch, !.pending = @ \ batch])
    BY <1>3 DEF StartBatch
  <2>2a. ctx' = [ctx EXCEPT ![s] = [ctx[s] EXCEPT !.batch = batch, !.pending = @ \ batch]]
    BY <2>2
  <2>2b. [ctx[s] EXCEPT !.batch = batch, !.pending = @ \ batch] \in Context
    BY <2>1 DEF Context
  <2>3. ctx'[s] \in Context /\ ctx'[s].tr = i /\ OthersKeep(s)
    BY <1>0, <1>3, <2>1, <2>2a, <2>2b DEF Context, StartBatch, OthersKeep
  <2>4. agent' \in [Transitions -> [Nodes -> {"none", "given", "done"}]]
    BY <2>1, <2>2 DEF TypeOK
  <2>5. late' \in [Transitions -> Nat]
    BY <1>3, <2>1 DEF StartBatch, TypeOK
  <2>6. ServiceOK(s)'
    BY <1>0, <1>3, <2>1, <2>3 DEF StartBatch, ServiceOK, Running
  <2>. QED  BY <1>0, <1>3, <2>3, <2>4, <2>5, <2>6, ServiceStepType DEF StartBatch, Labels, TypeOK
<1>4. CASE BatchEnds(s)
  <2> DEFINE i == ctx[s].tr
  <2>1. ctx[s] \in Context /\ i \in Transitions /\ trs[i] # Nil
    BY <1>4, <1>a DEF BatchEnds, Labels
  <2>2. PICK failed \in SUBSET ctx[s].batch :
          \E shown \in SUBSET failed :
            ctx' = [ctx EXCEPT ![s] = [ctx[s] EXCEPT !.errs = @ \cup shown,
                                                     !.etag = etag[i]]]
    BY <1>4 DEF BatchEnds, Shown
  <2>2a. PICK shown \in SUBSET failed :
            ctx' = [ctx EXCEPT ![s] = [ctx[s] EXCEPT !.errs = @ \cup shown,
                                                     !.etag = etag[i]]]
    BY <2>2
  <2>2b. [ctx[s] EXCEPT !.errs = @ \cup shown, !.etag = etag[i]] \in Context
    BY <1>0, <2>1 DEF Context
  <2>3. ctx'[s] \in Context /\ ctx'[s].tr = i /\ OthersKeep(s)
    BY <1>0, <1>4, <2>1, <2>2a, <2>2b DEF BatchEnds, OthersKeep, Context
  <2>4. ServiceOK(s)'
    BY <1>0, <1>4, <2>1, <2>3 DEF BatchEnds, ServiceOK, Running
  <2>. QED  BY <1>0, <1>4, <1>b, <2>3, <2>4 DEF BatchEnds, Labels, TypeOK
<1>5. CASE RecordBatch(s)
  <2> DEFINE i == ctx[s].tr
             done == Recorded(ctx[s])
  <2>1. ctx[s] \in Context /\ i \in Transitions /\ trs[i] # Nil /\ trs[i] \in Row
    BY <1>5, <1>a DEF RecordBatch, Labels
  <2>2. done \in SUBSET Nodes /\ ctx[s].errs \in SUBSET Nodes
    BY <2>1 DEF Recorded, Context
  <2>3. CASE Unchanged(i, ctx[s].etag)
    <3>0. Put(i, ctx[s].etag, [trs[i] EXCEPT !.completed = done, !.errs = ctx[s].errs])
      BY <1>5, <2>3 DEF RecordBatch
    <3>1. /\ trs' \in [Transitions -> Row \cup {Nil}] /\ etag' \in [Transitions -> Nat]
          /\ \A j \in Transitions : trs[j] # Nil => trs'[j] # Nil
      BY <2>1, <2>2, <3>0, RowType, PutType
    <3>2. \/ Goto(s, "idle") /\ NewCtx(s, Nil)
          \/ /\ NewCtx(s, [ctx[s] EXCEPT !.completed = done])
             /\ \E label \in {"complete", "batch"} : Goto(s, label)
      BY <1>5, <2>3 DEF RecordBatch
    <3>3. OthersKeep(s) /\ ServiceOK(s)'
      <4>1. CASE Goto(s, "idle") /\ NewCtx(s, Nil)
        BY <1>0, <1>5, <3>1, <4>1 DEF RecordBatch, OthersKeep, ServiceOK, Running, TypeOK
      <4>2. CASE NewCtx(s, [ctx[s] EXCEPT !.completed = done])
        <5>1. ctx'[s] \in Context /\ ctx'[s].tr = i
          BY <1>0, <2>1, <2>2, <4>2 DEF Context
        <5>. QED  BY <1>0, <1>5, <2>1, <3>1, <4>2, <5>1
             DEF RecordBatch, OthersKeep, ServiceOK, Running
      <4>. QED  BY <3>2, <4>1, <4>2
    <3>4. PICK label \in {"idle", "complete", "batch"} : Goto(s, label)
      BY <3>2
    <3>. QED  BY <1>0, <1>5, <3>1, <3>3, <3>4, ServiceStepType DEF RecordBatch, Labels, TypeOK
  <2>4. CASE ~Unchanged(i, ctx[s].etag)
    <3>1. Goto(s, "abort") /\ UNCHANGED <<trs, etag, ctx>>
      BY <1>5, <2>4 DEF RecordBatch, Put, Unchanged
    <3>. QED  BY <1>5, <1>0, <1>b, <3>1
         DEF RecordBatch, ServiceOK, OthersKeep, Running, Labels, TypeOK
  <2>. QED  BY <2>3, <2>4
<1>6. CASE CompleteGet(s)
  <2>1. ctx[s] \in Context /\ ctx[s].tr \in Transitions /\ trs[ctx[s].tr] # Nil
    BY <1>6, <1>a DEF CompleteGet, Labels
  <2>2. ctx'[s] \in Context /\ ctx'[s].tr = ctx[s].tr
    BY <1>0, <1>6, <2>1 DEF CompleteGet, Context
  <2>3. OthersKeep(s) /\ ServiceOK(s)'
    BY <1>0, <1>6, <2>1, <2>2 DEF CompleteGet, OthersKeep, ServiceOK, Running
  <2>. QED  BY <1>0, <1>6, <1>b, <2>3 DEF CompleteGet, Labels, TypeOK
<1>7. CASE CompletePut(s)
  <2> DEFINE i == ctx[s].tr
  <2>1. ctx[s] \in Context /\ i \in Transitions /\ trs[i] # Nil /\ trs[i] \in Row
    BY <1>7, <1>a DEF CompletePut, Labels
  <2>2. CASE Unchanged(i, ctx[s].etag)
    <3>1. /\ Put(i, ctx[s].etag, [trs[i] EXCEPT !.finished = TRUE])
          /\ ctx' = [ctx EXCEPT ![s] = [ctx[s] EXCEPT !.errs = trs[i].errs]]
          /\ Goto(s, "config")
      BY <1>7, <2>2 DEF CompletePut
    <3>2. /\ trs' \in [Transitions -> Row \cup {Nil}] /\ etag' \in [Transitions -> Nat]
          /\ \A j \in Transitions : trs[j] # Nil => trs'[j] # Nil
      BY <2>1, <3>1, RowType, PutType
    <3>3. ctx'[s] \in Context /\ ctx'[s].tr = i
      BY <1>0, <2>1, <3>1 DEF Context, Row
    <3>4. ServiceOK(s)' /\ OthersKeep(s)
      BY <1>7, <1>0, <2>1, <3>1, <3>2, <3>3 DEF CompletePut, ServiceOK, OthersKeep, Running
    <3>. QED  BY <1>7, <1>0, <3>1, <3>2, <3>4, ServiceStepType DEF CompletePut, Labels, TypeOK
  <2>3. CASE ~Unchanged(i, ctx[s].etag)
    <3>1. Goto(s, "abort") /\ UNCHANGED <<trs, etag, ctx>>
      BY <1>7, <2>3 DEF CompletePut, Put, Unchanged
    <3>. QED  BY <1>7, <1>0, <1>b, <3>1
         DEF CompletePut, ServiceOK, OthersKeep, Running, Labels, TypeOK
  <2>. QED  BY <2>2, <2>3
<1>8. CASE ChangeConfig(s)
  <2>1. ctx[s] \in Context /\ ctx[s].tr \in Transitions /\ trs[ctx[s].tr] # Nil
    BY <1>8, <1>a DEF ChangeConfig, Labels
  <2>2. config' \in [Configs -> SUBSET {"staged", "activated"}]
    BY <1>8 DEF ChangeConfig, TypeOK, Effect
  <2>3. OthersKeep(s) /\ ServiceOK(s)'
    BY <1>0, <1>8, <2>1 DEF ChangeConfig, OthersKeep, ServiceOK, Running
  <2>. QED  BY <1>0, <1>8, <2>2, <2>3, ServiceStepType DEF ChangeConfig, Labels, TypeOK
<1>9. CASE ExpireUnused(s)
  <2>1. OthersKeep(s) /\ ServiceOK(s)'
    BY <1>0, <1>9 DEF ExpireUnused, OthersKeep, ServiceOK, Running, TypeOK
  <2>. QED  BY <1>0, <1>9, <1>b, <2>1 DEF ExpireUnused, Labels, TypeOK
<1>10. CASE AbortGet(s)
  <2>1. CASE curr[s] = Nil
    <3>1. OthersKeep(s) /\ ServiceOK(s)'
      BY <1>0, <1>10, <2>1 DEF AbortGet, OthersKeep, ServiceOK, Running, TypeOK
    <3>. QED  BY <1>0, <1>10, <1>b, <2>1, <3>1 DEF AbortGet, Labels, TypeOK
  <2>2. CASE curr[s] # Nil
    <3>1. ctx'[s] \in Context /\ ctx'[s].tr = curr[s] /\ Goto(s, "aborting")
      BY <1>0, <1>10, <2>2 DEF AbortGet, Context
    <3>2. OthersKeep(s) /\ ServiceOK(s)'
      BY <1>0, <1>10, <2>2, <3>1 DEF AbortGet, OthersKeep, ServiceOK, Running
    <3>. QED  BY <1>0, <1>10, <1>b, <3>1, <3>2 DEF AbortGet, Labels, TypeOK
  <2>. QED  BY <2>1, <2>2
<1>11. CASE AbortPut(s)
  <2> DEFINE i == ctx[s].tr
  <2>1. ctx[s] \in Context /\ i \in Transitions /\ trs[i] # Nil /\ trs[i] \in Row
    BY <1>11, <1>a DEF AbortPut, Labels
  <2>2. /\ trs' \in [Transitions -> Row \cup {Nil}] /\ etag' \in [Transitions -> Nat]
        /\ \A j \in Transitions : trs[j] # Nil => trs'[j] # Nil
    <3>1. CASE Put(i, ctx[s].etag, [trs[i] EXCEPT !.aborted = TRUE, !.finished = TRUE])
      BY <2>1, <3>1, RowType, PutType
    <3>2. CASE UNCHANGED <<trs, etag>>
      BY <1>0, <3>2
    <3>. QED  BY <1>11, <3>1, <3>2 DEF AbortPut
  <2>3. OthersKeep(s) /\ ServiceOK(s)' /\ curr' \in [Services -> Transitions \cup {Nil}]
    BY <1>0, <1>11 DEF AbortPut, StartOver, OthersKeep, ServiceOK, Running, TypeOK
  <2>. QED  BY <1>11, <2>2, <2>3, ServiceStepType DEF AbortPut, StartOver, Labels, TypeOK
<1>12. CASE Fault(s)
  <2>1. faults' \in Nat
    BY <1>12 DEF Fault, TypeOK
  <2>2. CASE StartOver(s)
    <3>1. OthersKeep(s) /\ ServiceOK(s)' /\ curr' \in [Services -> Transitions \cup {Nil}]
      BY <1>0, <1>12, <2>2 DEF Fault, StartOver, OthersKeep, ServiceOK, Running, TypeOK
    <3>. QED  BY <1>12, <1>b, <2>1, <2>2, <3>1 DEF Fault, StartOver, Labels
  <2>3. CASE Goto(s, "abort") /\ UNCHANGED <<curr, ctx>>
    <3>1. OthersKeep(s) /\ ServiceOK(s)'
      BY <1>0, <1>12, <2>3 DEF Fault, OthersKeep, ServiceOK, Running, TypeOK
    <3>. QED  BY <1>0, <1>12, <1>b, <2>1, <2>3, <3>1 DEF Fault, Labels
  <2>. QED  BY <1>12, <2>2, <2>3 DEF Fault
<1>13. CASE Crash(s)
  <2>1. OthersKeep(s) /\ ServiceOK(s)' /\ curr' \in [Services -> Transitions \cup {Nil}]
    BY <1>0, <1>13 DEF Crash, StartOver, OthersKeep, ServiceOK, Running, TypeOK
  <2>2. /\ Goto(s, "idle") /\ "idle" \in Labels
        /\ UNCHANGED <<trs, etag, config, agent, cancelling, faults, late>>
        /\ crashes' \in Nat
    BY <1>13 DEF Crash, StartOver, Labels, TypeOK
  <2>. QED  BY <2>1, <2>2, ServiceStepType DEF TypeOK
<1>. QED  BY <1>1, <1>2, <1>3, <1>4, <1>5, <1>6, <1>7, <1>8, <1>9, <1>10, <1>11, <1>12,
             <1>13, Zenon DEF Step

LEMMA TypeOKNext == TypeOK /\ [Next]_vars => TypeOK'
<1> SUFFICES ASSUME TypeOK, [Next]_vars PROVE TypeOK'
  OBVIOUS
<1>1. CASE UNCHANGED vars
  BY <1>1 DEF vars, TypeOK, Running, Context
<1>2. CASE Next
  BY <1>2, TypeOKCreate, TypeOKCancel, TypeOKAgentDoes, TypeOKStep DEF Next
<1>. QED  BY <1>1, <1>2

(* TypeOK holds for any number of services, nodes and transitions: a       *)
(* service never acts on a transition that is not there (transitioner.js   *)
(* 316-333).                                                               *)
THEOREM TypeCorrect == Spec => []TypeOK
BY TypeOKInit, TypeOKNext, PTL DEF Spec

-----------------------------------------------------------------------------
(* One service, whose agents' errors are all kept *)

OneService == \A s, t \in Services : s = t

Settled(i, n, errs) == agent[i][n] = "done" \/ n \in errs

(* A node is only recorded when it is done or shows an error, and only a   *)
(* transition with all of its nodes recorded finishes by itself.           *)
RowInv(i) ==
  trs[i] # Nil =>
    /\ trs[i].completed \subseteq trs[i].targets
    /\ \A n \in trs[i].completed : Settled(i, n, trs[i].errs)
    /\ trs[i].finished /\ ~trs[i].aborted => trs[i].completed = trs[i].targets

(* What the context of a service says of the row it works on.              *)
CtxInv(s) ==
  LET c   == ctx[s]
      i   == c.tr
      row == trs[i]
  IN /\ pc[s] = "lock" =>
          /\ c.etag <= etag[i]
          /\ c.etag = etag[i] => Open(i) /\ c.pending = row.targets \ row.completed
     /\ pc[s] \in {"batch", "tasks", "record"} =>
          ~row.finished /\ c.completed = row.completed /\ row.errs \subseteq c.errs
     /\ pc[s] = "batch" => c.pending = row.targets \ row.completed
     /\ pc[s] \in {"tasks", "record"} =>
          /\ c.batch \subseteq row.targets
          /\ c.pending = row.targets \ (row.completed \cup c.batch)
     /\ pc[s] = "record" => \A n \in c.batch : Settled(i, n, c.errs)
     /\ pc[s] \in {"complete", "finish"} =>
          ~row.finished /\ row.completed = row.targets
     /\ pc[s] = "config" => row.completed = row.targets /\ c.errs = row.errs

Progress ==
  /\ \A i \in Transitions : RowInv(i)
  /\ \A s \in Services : CtxInv(s)

LEMMA ProgressInit == Init => Progress
BY NilAssumption DEF Init, Progress, RowInv, CtxInv

LEMMA ProgressCreate ==
  ASSUME TypeOK, Progress, NEW i \in Transitions, NEW c \in Configs, NEW name \in Names,
         Create(i, c, name)
  PROVE  Progress'
<1>1. /\ trs[i] = Nil /\ \A j \in Transitions \ {i} : trs'[j] = trs[j]
      /\ trs'[i].completed = {} /\ ~trs'[i].finished
      /\ UNCHANGED <<etag, agent, pc, ctx>>
  BY DEF Create, TypeOK
<1>2. \A j \in Transitions : RowInv(j)'
  BY <1>1 DEF Progress, RowInv, Settled
<1>3. ASSUME NEW s \in Services PROVE CtxInv(s)'
  <2>1. CASE ~Running(s)
    BY <1>1, <2>1 DEF Running, Labels, CtxInv
  <2>2. CASE Running(s)
    <3>1. ctx[s].tr \in Transitions \ {i}
      BY <1>1, <2>2 DEF TypeOK, Context
    <3>. QED  BY <1>1, <3>1 DEF Progress, CtxInv, Open, Settled
  <2>. QED  BY <2>1, <2>2
<1>. QED  BY <1>2, <1>3 DEF Progress

LEMMA ProgressCancel ==
  ASSUME TypeOK, Progress, NEW i \in Transitions, CancelList(i) \/ CancelPut(i)
  PROVE  Progress'
<1>1. CASE CancelList(i)
  BY <1>1 DEF CancelList, Progress, RowInv, CtxInv, Open, Settled
<1>2. CASE CancelPut(i)
  <2>1. /\ trs[i] \in Row /\ trs[i] # Nil
        /\ trs' = [trs EXCEPT ![i] = [trs[i] EXCEPT !.aborted = TRUE]]
        /\ etag' = [etag EXCEPT ![i] = @ + 1]
        /\ UNCHANGED <<agent, pc, ctx>>
    BY <1>2 DEF CancelPut, Put, TypeOK
  <2>1a. trs'[i] = [trs[i] EXCEPT !.aborted = TRUE] /\ trs'[i] \in Row
    BY <2>1, RowType DEF TypeOK
  <2>2. /\ trs'[i].aborted /\ trs'[i] # Nil
        /\ trs'[i].targets = trs[i].targets /\ trs'[i].completed = trs[i].completed
        /\ trs'[i].errs = trs[i].errs /\ trs'[i].finished = trs[i].finished
        /\ \A j \in Transitions \ {i} : trs'[j] = trs[j] /\ etag'[j] = etag[j]
        /\ etag[i] \in Nat /\ etag'[i] = etag[i] + 1
    BY <2>1, <2>1a, NilAssumption DEF TypeOK, Row
  <2>3. \A j \in Transitions : RowInv(j)'
    BY <2>1, <2>2 DEF Progress, RowInv, Settled
  <2>4. ASSUME NEW s \in Services PROVE CtxInv(s)'
    <3>1. CASE ~Running(s)
      BY <2>1, <3>1 DEF Running, Labels, CtxInv
    <3>2. CASE Running(s) /\ ctx[s].tr = i
      <4>1. ctx[s].etag \in Nat
        BY <3>2 DEF TypeOK, Context
      <4>. QED  BY <2>1, <2>2, <3>2, <4>1 DEF Progress, CtxInv, Settled
    <3>3. CASE Running(s) /\ ctx[s].tr # i
      <4>1. ctx[s].tr \in Transitions \ {i}
        BY <3>3 DEF TypeOK, Context
      <4>. QED  BY <2>1, <2>2, <4>1 DEF Progress, CtxInv, Open, Settled
    <3>. QED  BY <3>1, <3>2, <3>3
  <2>. QED  BY <2>3, <2>4 DEF Progress
<1>. QED  BY <1>1, <1>2

LEMMA ProgressAgentDoes ==
  ASSUME TypeOK, Progress, NEW i \in Transitions, NEW n \in Nodes, AgentDoes(i, n)
  PROVE  Progress'
<1>1. /\ \A j \in Transitions, m \in Nodes : agent[j][m] = "done" => agent'[j][m] = "done"
      /\ UNCHANGED <<trs, etag, pc, ctx>>
  BY DEF AgentDoes, TypeOK
<1>2. \A j \in Transitions : trs[j] # Nil => trs[j] \in Row
  BY DEF TypeOK
<1>3. \A j \in Transitions : RowInv(j)'
  BY <1>1, <1>2 DEF Progress, RowInv, Settled, Row
<1>4. ASSUME NEW s \in Services PROVE CtxInv(s)'
  <2>1. Running(s) => ctx[s].tr \in Transitions /\ ctx[s].batch \subseteq Nodes
    BY DEF TypeOK, Context
  <2>. QED  BY <1>1, <2>1 DEF Progress, CtxInv, Open, Settled, Running, Labels
<1>. QED  BY <1>3, <1>4 DEF Progress

(* A step of the only service.                                             *)
LEMMA ProgressStep ==
  ASSUME OneService, Droppable = {}, TypeOK, Progress,
         NEW s \in Services, Step(s) \/ Fault(s) \/ Crash(s)
  PROVE  Progress'
<1> DEFINE k == ctx[s].tr
<1> USE DEF Goto, NewCtx
<1>a. /\ \A u \in Services : u = s
      /\ pc \in [Services -> Labels] /\ DOMAIN ctx = Services
      /\ \A j \in Transitions : trs[j] # Nil => trs[j] \in Row
      /\ \A j \in Transitions : etag[j] \in Nat
  BY DEF OneService, TypeOK
<1>b. Running(s) => /\ ctx[s] \in Context /\ k \in Transitions
                    /\ trs[k] # Nil /\ trs[k] \in Row
  BY DEF TypeOK, Context
<1>c. CtxInv(s) /\ \A j \in Transitions : RowInv(j)
  BY DEF Progress
<1>d. ASSUME \A j \in Transitions : RowInv(j)', CtxInv(s)' PROVE Progress'
  BY <1>a, <1>d DEF Progress
(* Steps that leave the rows alone.                                        *)
<1>e. ASSUME UNCHANGED <<trs, agent>> PROVE \A j \in Transitions : RowInv(j)'
  BY <1>c, <1>e DEF RowInv, Settled
(* Labels of which CtxInv says nothing.                                    *)
<1>f. ASSUME pc'[s] \in {"idle", "expire", "abort", "aborting", "stuck"}
      PROVE  CtxInv(s)'
  BY <1>f DEF CtxInv
<1>1. CASE List(s)
  <2>1. PICK i \in Transitions :
           /\ Open(i)
           /\ IF PendingTargets(trs[i]) = {}
              THEN StartOver(s)
              ELSE /\ curr' = [curr EXCEPT ![s] = i]
                   /\ NewCtx(s, [tr |-> i, etag |-> etag[i], batch |-> {},
                                 pending |-> PendingTargets(trs[i]),
                                 completed |-> {}, errs |-> {}])
                   /\ Goto(s, "lock")
    BY <1>1 DEF List
  <2>2. CASE StartOver(s)
    BY <1>1, <1>a, <1>d, <1>e, <1>f, <2>2 DEF List, StartOver
  <2>3. CASE ~StartOver(s)
    <3>1. CtxInv(s)'
      BY <1>1, <1>a, <2>1, <2>3 DEF List, CtxInv, Open, PendingTargets
    <3>. QED  BY <1>1, <1>d, <1>e, <3>1 DEF List
  <2>. QED  BY <2>2, <2>3
<1>2. CASE Lock(s)
  <2>1. ctx[s] \in Context /\ k \in Transitions /\ trs[k] # Nil /\ trs[k] \in Row
    BY <1>2, <1>b DEF Lock, Running, Labels
  <2>2. CASE Unchanged(k, ctx[s].etag)
    <3>1. /\ trs' = [trs EXCEPT ![k] = [trs[k] EXCEPT !.lockedBy = s, !.started = TRUE]]
          /\ ctx' = [ctx EXCEPT ![s] = [ctx[s] EXCEPT !.completed = trs[k].completed,
                                                      !.errs = KnownErrors(trs[k])]]
          /\ pc'[s] = "batch" /\ UNCHANGED agent
      BY <1>2, <1>a, <2>2 DEF Lock, Put
    <3>2. /\ trs'[k].targets = trs[k].targets /\ trs'[k].completed = trs[k].completed
          /\ trs'[k].errs = trs[k].errs /\ trs'[k].finished = trs[k].finished
          /\ trs'[k].aborted = trs[k].aborted
          /\ \A j \in Transitions \ {k} : trs'[j] = trs[j]
      BY <2>1, <3>1 DEF TypeOK, Row
    <3>3. /\ ctx'[s].tr = k /\ ctx'[s].completed = trs[k].completed
          /\ ctx'[s].errs = trs[k].errs /\ ctx'[s].pending = ctx[s].pending
      BY <1>a, <2>1, <3>1 DEF Context, KnownErrors
    <3>4. \A j \in Transitions : RowInv(j)'
      BY <1>c, <2>1, <3>1, <3>2 DEF RowInv, Settled
    <3>5. Open(k) /\ ctx[s].pending = trs[k].targets \ trs[k].completed
      BY <1>2, <1>c, <2>2 DEF Lock, CtxInv, Unchanged
    <3>6. CtxInv(s)'
      BY <3>1, <3>2, <3>3, <3>5 DEF CtxInv, Open
    <3>. QED  BY <1>d, <3>4, <3>6
  <2>3. CASE ~Unchanged(k, ctx[s].etag)
    <3>1. pc'[s] = "abort" /\ UNCHANGED <<trs, agent>>
      BY <1>2, <1>a, <2>3 DEF Lock, Put, Unchanged
    <3>. QED  BY <1>d, <1>e, <1>f, <3>1
  <2>. QED  BY <2>2, <2>3
<1>3. CASE StartBatch(s)
  <2>1. ctx[s] \in Context /\ k \in Transitions /\ trs[k] # Nil /\ trs[k] \in Row
    BY <1>3, <1>b DEF StartBatch, Running, Labels
  <2>2. PICK batch \in SUBSET ctx[s].pending : \E given \in SUBSET batch :
          /\ agent' = [agent EXCEPT ![k] =
                        [n \in Nodes |-> IF n \in given /\ @[n] = "none"
                                         THEN "given" ELSE @[n]]]
          /\ NewCtx(s, [ctx[s] EXCEPT !.batch = batch, !.pending = @ \ batch])
    BY <1>3 DEF StartBatch
  <2>3. /\ ctx'[s].tr = k /\ ctx'[s].batch = batch
        /\ ctx'[s].pending = ctx[s].pending \ batch
        /\ ctx'[s].completed = ctx[s].completed /\ ctx'[s].errs = ctx[s].errs
    BY <1>a, <2>1, <2>2 DEF Context
  <2>4. \A j \in Transitions, n \in Nodes : agent[j][n] = "done" => agent'[j][n] = "done"
    BY <2>1, <2>2 DEF TypeOK
  <2>5. pc[s] = "batch" /\ pc'[s] = "tasks" /\ UNCHANGED trs
    BY <1>3, <1>a DEF StartBatch
  <2>6. \A j \in Transitions : RowInv(j)'
    BY <1>a, <1>c, <2>4, <2>5 DEF RowInv, Settled, Row
  <2>7. CtxInv(s)'
    BY <1>c, <2>2, <2>3, <2>5 DEF CtxInv
  <2>. QED  BY <1>d, <2>6, <2>7
<1>4. CASE BatchEnds(s)
  <2>1. ctx[s] \in Context /\ k \in Transitions /\ trs[k] # Nil
    BY <1>4, <1>b DEF BatchEnds, Running, Labels
  <2>2. PICK failed \in SUBSET ctx[s].batch :
          \E dropped \in SUBSET {n \in failed \cap Droppable : agent[k][n] = "given"} :
            /\ \A n \in ctx[s].batch \ failed : agent[k][n] = "done"
            /\ ctx' = [ctx EXCEPT ![s] =
                        [ctx[s] EXCEPT !.errs = @ \cup Shown(failed, dropped),
                                       !.etag = etag[k]]]
    BY <1>4 DEF BatchEnds
  <2>3. /\ \A n \in ctx[s].batch \ failed : agent[k][n] = "done"
        /\ ctx' = [ctx EXCEPT ![s] = [ctx[s] EXCEPT !.errs = @ \cup failed,
                                                    !.etag = etag[k]]]
    <3>1. PICK dropped \in SUBSET {n \in failed \cap Droppable : agent[k][n] = "given"} :
            /\ \A n \in ctx[s].batch \ failed : agent[k][n] = "done"
            /\ ctx' = [ctx EXCEPT ![s] =
                        [ctx[s] EXCEPT !.errs = @ \cup Shown(failed, dropped),
                                       !.etag = etag[k]]]
      BY <2>2
    <3>2. dropped = {}
      OBVIOUS
    <3>3. Shown(failed, dropped) = failed
      BY <3>2 DEF Shown
    <3>. QED  BY <3>1, <3>3
  <2>4. /\ ctx'[s].tr = k /\ ctx'[s].batch = ctx[s].batch
        /\ ctx'[s].pending = ctx[s].pending /\ ctx'[s].completed = ctx[s].completed
        /\ ctx'[s].errs = ctx[s].errs \cup failed
    BY <1>a, <2>1, <2>3 DEF Context
  <2>5. pc[s] = "tasks" /\ pc'[s] = "record" /\ UNCHANGED <<trs, agent>>
    BY <1>4, <1>a DEF BatchEnds
  <2>6. CtxInv(s)'
    BY <1>c, <2>3, <2>4, <2>5 DEF CtxInv, Settled
  <2>. QED  BY <1>d, <1>e, <2>5, <2>6
<1>5. CASE RecordBatch(s)
  <2> DEFINE done == Recorded(ctx[s])
  <2>1. ctx[s] \in Context /\ k \in Transitions /\ trs[k] # Nil /\ trs[k] \in Row
    BY <1>5, <1>b DEF RecordBatch, Running, Labels
  <2>2. CASE Unchanged(k, ctx[s].etag)
    <3>0. UNCHANGED agent
      BY <1>5 DEF RecordBatch
    <3>1. /\ pc[s] = "record"
          /\ trs' = [trs EXCEPT ![k] = [trs[k] EXCEPT !.completed = done,
                                                      !.errs = ctx[s].errs]]
          /\ \/ pc'[s] = "idle"
             \/ /\ ctx' = [ctx EXCEPT ![s] = [ctx[s] EXCEPT !.completed = done]]
                /\ pc'[s] = IF ctx[s].pending = {} THEN "complete" ELSE "batch"
      BY <1>5, <1>a, <2>2 DEF RecordBatch, Put
    <3>2. /\ trs'[k].targets = trs[k].targets /\ trs'[k].completed = done
          /\ trs'[k].errs = ctx[s].errs /\ trs'[k].finished = trs[k].finished
          /\ trs'[k].aborted = trs[k].aborted
          /\ \A j \in Transitions \ {k} : trs'[j] = trs[j]
      BY <2>1, <3>1 DEF TypeOK, Row
    <3>3. /\ ~trs[k].finished /\ done = trs[k].completed \cup ctx[s].batch
          /\ trs[k].errs \subseteq ctx[s].errs
          /\ ctx[s].batch \subseteq trs[k].targets
          /\ ctx[s].pending = trs[k].targets \ done
          /\ \A n \in ctx[s].batch : Settled(k, n, ctx[s].errs)
          /\ trs[k].completed \subseteq trs[k].targets
          /\ \A n \in trs[k].completed : Settled(k, n, trs[k].errs)
      BY <1>c, <2>1, <3>1 DEF CtxInv, RowInv, Recorded
    <3>4. \A j \in Transitions : RowInv(j)'
      <4> SUFFICES ASSUME NEW j \in Transitions PROVE RowInv(j)'
        OBVIOUS
      <4>1. CASE j = k
        <5>1. done \subseteq trs[k].targets
          BY <3>3
        <5>2. \A n \in done : Settled(k, n, ctx[s].errs)
          <6> SUFFICES ASSUME NEW n \in done PROVE Settled(k, n, ctx[s].errs)
            OBVIOUS
          <6>1. CASE n \in ctx[s].batch
            BY <3>3, <6>1
          <6>2. CASE n \in trs[k].completed
            BY <3>3, <6>2 DEF Settled
          <6>. QED  BY <3>3, <6>1, <6>2
        <5>. QED  BY <3>0, <3>2, <3>3, <4>1, <5>1, <5>2 DEF RowInv, Settled
      <4>2. CASE j # k
        BY <1>c, <3>0, <3>2, <4>2 DEF RowInv, Settled
      <4>. QED  BY <4>1, <4>2
    <3>5. CASE pc'[s] = "idle"
      BY <1>d, <1>f, <3>4, <3>5
    <3>6. CASE pc'[s] # "idle"
      <4>1. /\ ctx'[s].tr = k /\ ctx'[s].completed = done
            /\ ctx'[s].errs = ctx[s].errs /\ ctx'[s].pending = ctx[s].pending
        BY <1>a, <2>1, <3>1, <3>6 DEF Context
      <4>2. CASE pc'[s] = "complete"
        <5>1. ctx[s].pending = {}
          BY <3>1, <4>2
        <5>2. done = trs[k].targets
          BY <3>3, <5>1
        <5>. QED  BY <1>d, <3>2, <3>3, <3>4, <4>1, <4>2, <5>2 DEF CtxInv
      <4>3. CASE pc'[s] = "batch"
        <5>1. CtxInv(s)'
          BY <3>2, <3>3, <4>1, <4>3 DEF CtxInv
        <5>. QED  BY <1>d, <3>4, <5>1
      <4>. QED  BY <3>1, <3>6, <4>2, <4>3
    <3>. QED  BY <3>5, <3>6
  <2>3. CASE ~Unchanged(k, ctx[s].etag)
    <3>1. pc'[s] = "abort" /\ UNCHANGED <<trs, agent>>
      BY <1>5, <1>a, <2>3 DEF RecordBatch, Put, Unchanged
    <3>. QED  BY <1>d, <1>e, <1>f, <3>1
  <2>. QED  BY <2>2, <2>3
<1>6. CASE CompleteGet(s)
  <2>1. ctx[s] \in Context
    BY <1>6, <1>b DEF CompleteGet, Running, Labels
  <2>2. ctx'[s].tr = k /\ pc[s] = "complete" /\ pc'[s] = "finish" /\ UNCHANGED <<trs, agent>>
    BY <1>6, <1>a, <2>1 DEF CompleteGet, Context
  <2>3. CtxInv(s)'
    BY <1>c, <2>2 DEF CtxInv
  <2>. QED  BY <1>d, <1>e, <2>2, <2>3
<1>7. CASE CompletePut(s)
  <2>1. ctx[s] \in Context /\ k \in Transitions /\ trs[k] # Nil /\ trs[k] \in Row
    BY <1>7, <1>b DEF CompletePut, Running, Labels
  <2>2. CASE Unchanged(k, ctx[s].etag)
    <3>1. /\ trs' = [trs EXCEPT ![k] = [trs[k] EXCEPT !.finished = TRUE]]
          /\ ctx' = [ctx EXCEPT ![s] = [ctx[s] EXCEPT !.errs = trs[k].errs]]
          /\ pc[s] = "finish" /\ pc'[s] = "config" /\ UNCHANGED agent
      BY <1>7, <1>a, <2>2 DEF CompletePut, Put
    <3>2. /\ trs'[k].targets = trs[k].targets /\ trs'[k].completed = trs[k].completed
          /\ trs'[k].errs = trs[k].errs
          /\ \A j \in Transitions \ {k} : trs'[j] = trs[j]
          /\ ctx'[s].tr = k /\ ctx'[s].errs = trs[k].errs
      BY <1>a, <2>1, <3>1 DEF TypeOK, Row, Context
    <3>3. trs[k].completed = trs[k].targets
      BY <1>c, <3>1 DEF CtxInv
    <3>4. \A j \in Transitions : RowInv(j)'
      BY <1>c, <2>1, <3>1, <3>2, <3>3 DEF RowInv, Settled
    <3>5. CtxInv(s)'
      BY <3>1, <3>2, <3>3 DEF CtxInv
    <3>. QED  BY <1>d, <3>4, <3>5
  <2>3. CASE ~Unchanged(k, ctx[s].etag)
    <3>1. pc'[s] = "abort" /\ UNCHANGED <<trs, agent>>
      BY <1>7, <1>a, <2>3 DEF CompletePut, Put, Unchanged
    <3>. QED  BY <1>d, <1>e, <1>f, <3>1
  <2>. QED  BY <2>2, <2>3
<1>8. CASE ChangeConfig(s) \/ ExpireUnused(s) \/ AbortGet(s) \/ Crash(s) \/ Fault(s)
  <2>1. pc'[s] \in {"idle", "expire", "abort", "aborting", "stuck"}
    BY <1>8, <1>a DEF ChangeConfig, ExpireUnused, AbortGet, Crash, Fault, StartOver
  <2>2. UNCHANGED <<trs, agent>>
    BY <1>8 DEF ChangeConfig, ExpireUnused, AbortGet, Crash, Fault
  <2>. QED  BY <1>d, <1>e, <1>f, <2>1, <2>2
<1>9. CASE AbortPut(s)
  <2>1. k \in Transitions /\ trs[k] # Nil /\ trs[k] \in Row
    BY <1>9, <1>b DEF AbortPut, Running, Labels
  <2>2. pc'[s] = "idle" /\ UNCHANGED agent
    BY <1>9, <1>a DEF AbortPut, StartOver
  <2>3. \A j \in Transitions : RowInv(j)'
    <3>1. CASE trs' = [trs EXCEPT ![k] = [trs[k] EXCEPT !.aborted = TRUE, !.finished = TRUE]]
      <4>1. /\ trs'[k].targets = trs[k].targets /\ trs'[k].completed = trs[k].completed
            /\ trs'[k].errs = trs[k].errs /\ trs'[k].aborted
            /\ \A j \in Transitions \ {k} : trs'[j] = trs[j]
        BY <2>1, <3>1 DEF TypeOK, Row
      <4>. QED  BY <1>c, <2>1, <2>2, <4>1 DEF RowInv, Settled
    <3>2. CASE UNCHANGED trs
      BY <1>e, <2>2, <3>2
    <3>. QED  BY <1>9, <3>1, <3>2 DEF AbortPut, Put
  <2>. QED  BY <1>d, <1>f, <2>2, <2>3
<1>. QED  BY <1>1, <1>2, <1>3, <1>4, <1>5, <1>6, <1>7, <1>8, <1>9, Zenon DEF Step

LEMMA ProgressNext ==
  ASSUME OneService, Droppable = {}, TypeOK, Progress, [Next]_vars
  PROVE  Progress'
<1>1. CASE UNCHANGED vars
  BY <1>1 DEF vars, Progress, RowInv, CtxInv, Open, Settled
<1>2. CASE Next
  BY <1>2, ProgressCreate, ProgressCancel, ProgressAgentDoes, ProgressStep DEF Next
<1>. QED  BY <1>1, <1>2

LEMMA ProgressHolds ==
  ASSUME OneService, Droppable = {}
  PROVE  Spec => [](TypeOK /\ Progress)
<1>1. Init => TypeOK /\ Progress
  BY TypeOKInit, ProgressInit
<1>2. TypeOK /\ Progress /\ [Next]_vars => TypeOK' /\ Progress'
  BY TypeOKNext, ProgressNext
<1>. QED  BY <1>1, <1>2, PTL DEF Spec

-----------------------------------------------------------------------------
(* What a service may do to a configuration and to a transition *)

LEMMA ConfigStep ==
  ASSUME OneService, TypeOK, Progress, Next, NEW c \in Configs, config'[c] # config[c]
  PROVE  \E s \in Services :
           LET i == ctx[s].tr
           IN /\ pc[s] = "config" /\ trs[i].config = c
              /\ \A n \in trs[i].targets : agent[i][n] = "done"
<1>1. PICK s \in Services : ChangeConfig(s)
  BY DEF Next, Create, CancelList, CancelPut, AgentDoes, Step, List, Lock, StartBatch,
         BatchEnds, RecordBatch, CompleteGet, CompletePut, ExpireUnused, AbortGet,
         AbortPut, Fault, Crash
<1> DEFINE k == ctx[s].tr
<1>2. k \in Transitions /\ trs[k] # Nil /\ trs[k] \in Row
  BY <1>1 DEF ChangeConfig, TypeOK, Running, Labels, Context
<1>3. /\ pc[s] = "config" /\ ctx[s].errs = {}
      /\ config' = [config EXCEPT ![trs[k].config] = Effect(trs[k].name, @)]
  BY <1>1 DEF ChangeConfig, MayChange
<1>4. trs[k].config = c
  BY <1>2, <1>3 DEF TypeOK, Row
<1>5. trs[k].completed = trs[k].targets /\ trs[k].errs = {}
  BY <1>3 DEF Progress, CtxInv
<1>6. \A n \in trs[k].targets : agent[k][n] = "done"
  BY <1>2, <1>5 DEF Progress, RowInv, Settled
<1>. QED  BY <1>3, <1>4, <1>6

(* StateFollowsNodes, for any number of nodes and transitions, crashes and *)
(* failed calls (transitioner.js 811-826): it rests on what is recorded,   *)
(* RowInv, and on what the service remembers of it between calls, CtxInv.  *)
THEOREM ConfigFollowsNodes ==
  ASSUME OneService, Droppable = {}
  PROVE  Spec => StateFollowsNodes
<1>1. TypeOK /\ Progress /\ [Next]_vars =>
        [\A c \in Configs : config'[c] # config[c] =>
           \E s \in Services :
             LET i == ctx[s].tr
             IN /\ pc[s] = "config" /\ trs[i].config = c
                /\ \A n \in trs[i].targets : agent[i][n] = "done"]_vars
  BY ConfigStep
<1>. QED  BY <1>1, ProgressHolds, PTL DEF Spec, StateFollowsNodes

(* How a step changes the row of a transition that exists.                 *)
RowStep(i) ==
  \/ trs'[i] = trs[i]
  \/ trs'[i] = [trs[i] EXCEPT !.aborted = TRUE]
  \/ trs'[i] = [trs[i] EXCEPT !.aborted = TRUE, !.finished = TRUE]
  \/ \E s \in Services : trs'[i] = [trs[i] EXCEPT !.lockedBy = s, !.started = TRUE]
  \/ \E batch \in SUBSET Nodes, errs \in SUBSET Nodes :
       /\ trs[i].errs \subseteq errs /\ ~trs[i].finished
       /\ trs'[i] = [trs[i] EXCEPT !.completed = @ \cup batch, !.errs = errs]
  \/ /\ ~trs[i].finished /\ trs[i].completed = trs[i].targets
     /\ trs'[i] = [trs[i] EXCEPT !.finished = TRUE]

LEMMA RowSteps ==
  ASSUME TypeOK, Progress, Next, NEW i \in Transitions, trs[i] # Nil
  PROVE  RowStep(i)
<1>0. trs \in [Transitions -> Row \cup {Nil}]
  BY DEF TypeOK
<1>1. CASE trs'[i] = trs[i]
  BY <1>1 DEF RowStep
<1>2. ASSUME NEW j \in Transitions, CancelPut(j) PROVE RowStep(i)
  BY <1>0, <1>2 DEF CancelPut, Put, RowStep
<1>3. ASSUME NEW s \in Services, Lock(s) PROVE RowStep(i)
  <2>1. \/ trs' = trs
        \/ trs' = [trs EXCEPT ![ctx[s].tr] =
                     [trs[ctx[s].tr] EXCEPT !.lockedBy = s, !.started = TRUE]]
    BY <1>3 DEF Lock, Put
  <2>. QED  BY <1>0, <2>1 DEF RowStep
<1>4. ASSUME NEW s \in Services, RecordBatch(s) PROVE RowStep(i)
  <2>1. \/ trs' = trs
        \/ trs' = [trs EXCEPT ![ctx[s].tr] =
                     [trs[ctx[s].tr] EXCEPT !.completed = Recorded(ctx[s]),
                                            !.errs = ctx[s].errs]]
    BY <1>4 DEF RecordBatch, Put
  <2>2. /\ ctx[s].batch \in SUBSET Nodes /\ ctx[s].errs \in SUBSET Nodes
        /\ trs[ctx[s].tr].errs \subseteq ctx[s].errs /\ ~trs[ctx[s].tr].finished
        /\ Recorded(ctx[s]) = trs[ctx[s].tr].completed \cup ctx[s].batch
    BY <1>4 DEF RecordBatch, TypeOK, Running, Labels, Context, Progress, CtxInv, Recorded
  <2>3. CASE trs' = trs
    BY <2>3 DEF RowStep
  <2>4. CASE trs' # trs /\ i = ctx[s].tr
    <3>1. trs'[i] = [trs[i] EXCEPT !.completed = @ \cup ctx[s].batch, !.errs = ctx[s].errs]
      BY <1>0, <2>1, <2>2, <2>4
    <3>. QED  BY <2>2, <2>4, <3>1 DEF RowStep
  <2>5. CASE i # ctx[s].tr
    BY <1>0, <2>1, <2>5 DEF RowStep
  <2>. QED  BY <2>3, <2>4, <2>5
<1>5. ASSUME NEW s \in Services, CompletePut(s) PROVE RowStep(i)
  <2>1. \/ trs' = trs
        \/ trs' = [trs EXCEPT ![ctx[s].tr] = [trs[ctx[s].tr] EXCEPT !.finished = TRUE]]
    BY <1>5 DEF CompletePut, Put
  <2>2. ~trs[ctx[s].tr].finished /\ trs[ctx[s].tr].completed = trs[ctx[s].tr].targets
    BY <1>5 DEF CompletePut, Progress, CtxInv
  <2>. QED  BY <1>0, <2>1, <2>2 DEF RowStep
<1>6. ASSUME NEW s \in Services, AbortPut(s) PROVE RowStep(i)
  BY <1>0, <1>6 DEF AbortPut, Put, RowStep
<1>7. ASSUME NEW j \in Transitions, NEW c \in Configs, NEW name \in Names, Create(j, c, name)
      PROVE  RowStep(i)
  BY <1>0, <1>7 DEF Create, RowStep
<1>8. CASE UNCHANGED trs
  BY <1>8 DEF RowStep
<1>. QED  BY <1>2, <1>3, <1>4, <1>5, <1>6, <1>7, <1>8
     DEF Next, CancelList, AgentDoes, Step, List, StartBatch, BatchEnds, CompleteGet,
         ChangeConfig, ExpireUnused, AbortGet, Fault, Crash

(* ProgressIsKept: no step forgets a node or an error that was recorded    *)
(* (transitioner.js 385-389, 630-637, 733-745).                            *)
THEOREM RecordsAreNeverLost ==
  ASSUME OneService, Droppable = {}
  PROVE  Spec => ProgressIsKept
<1>1. ASSUME TypeOK, Progress, Next, NEW i \in Transitions, trs[i] # Nil
      PROVE  /\ trs[i].completed \subseteq trs'[i].completed
             /\ trs[i].errs \subseteq trs'[i].errs
  <2>1. trs[i] \in Row /\ RowStep(i)
    BY <1>1, RowSteps DEF TypeOK
  <2>. QED  BY <2>1 DEF RowStep, Row
<1>2. TypeOK /\ Progress /\ [Next]_vars =>
        [\A i \in Transitions : trs[i] # Nil =>
           /\ trs[i].completed \subseteq trs'[i].completed
           /\ trs[i].errs \subseteq trs'[i].errs]_vars
  BY <1>1
<1>. QED  BY <1>2, ProgressHolds, PTL DEF Spec, ProgressIsKept

(* NoRepeatedTask: no node that is recorded as completed gets a task again *)
(* (transitioner.js 383-388).                                              *)
THEOREM TasksAreNotRepeated ==
  ASSUME OneService, Droppable = {}
  PROVE  Spec => NoRepeatedTask
<1>1. ASSUME TypeOK, Progress, Next, NEW s \in Services, pc[s] = "batch", pc'[s] = "tasks"
      PROVE  ctx'[s].batch \cap trs[ctx[s].tr].completed = {}
  <2>1. ctx[s] \in Context /\ DOMAIN ctx = Services /\ pc \in [Services -> Labels]
    BY <1>1 DEF TypeOK, Running, Labels
  <2>2. ctx[s].pending \cap trs[ctx[s].tr].completed = {}
    BY <1>1 DEF Progress, CtxInv
  <2>3. StartBatch(s)
    <3>1. PICK u \in Services : Step(u) \/ Fault(u) \/ Crash(u)
      BY <1>1 DEF Next, Create, CancelList, CancelPut, AgentDoes
    <3>2. u = s
      BY <1>1, <2>1, <3>1
         DEF Step, List, Lock, StartBatch, BatchEnds, RecordBatch, CompleteGet, CompletePut,
             ChangeConfig, ExpireUnused, AbortGet, AbortPut, Fault, Crash, StartOver, Goto
    <3>. QED  BY <1>1, <2>1, <3>1, <3>2
              DEF Step, List, Lock, BatchEnds, RecordBatch, CompleteGet, CompletePut,
                  ChangeConfig, ExpireUnused, AbortGet, AbortPut, Fault, Crash, StartOver,
                  Goto
  <2>4. PICK batch \in SUBSET ctx[s].pending :
           ctx' = [ctx EXCEPT ![s] = [ctx[s] EXCEPT !.batch = batch, !.pending = @ \ batch]]
    BY <2>3 DEF StartBatch, NewCtx
  <2>5. ctx'[s].batch = batch
    BY <2>1, <2>4 DEF Context
  <2>. QED  BY <2>2, <2>5
<1>2. TypeOK /\ Progress /\ [Next]_vars =>
        [\A s \in Services :
           pc[s] = "batch" /\ pc'[s] = "tasks" =>
             ctx'[s].batch \cap trs[ctx[s].tr].completed = {}]_vars
  BY <1>1
<1>. QED  BY <1>2, ProgressHolds, PTL DEF Spec, NoRepeatedTask

-----------------------------------------------------------------------------
(* Transitioner implements Rollout *)

(* No step changes more than one row.                                      *)
LEMMA OneRow ==
  ASSUME TypeOK, Next
  PROVE  \/ UNCHANGED trs
         \/ \E i \in Transitions, c \in Configs, name \in Names : Create(i, c, name)
         \/ \E i \in Transitions :
              /\ trs[i] # Nil
              /\ \A j \in Transitions \ {i} : trs'[j] = trs[j]
<1>0. trs \in [Transitions -> Row \cup {Nil}]
  BY DEF TypeOK
<1>1. ASSUME NEW i \in Transitions, NEW tag, NEW row, trs[i] # Nil, Put(i, tag, row)
      PROVE  \E j \in Transitions :
               trs[j] # Nil /\ \A l \in Transitions \ {j} : trs'[l] = trs[l]
  BY <1>0, <1>1 DEF Put
<1>2. ASSUME NEW i \in Transitions, CancelPut(i)
      PROVE  trs[i] # Nil
  BY <1>2 DEF CancelPut, TypeOK
<1>3. ASSUME NEW s \in Services, Lock(s) \/ RecordBatch(s) \/ CompletePut(s) \/ AbortPut(s)
      PROVE  ctx[s].tr \in Transitions /\ trs[ctx[s].tr] # Nil
  BY <1>3 DEF Lock, RecordBatch, CompletePut, AbortPut, TypeOK, Running, Labels, Context
<1>4. ASSUME NEW s \in Services, Step(s)
      PROVE  \/ UNCHANGED trs
             \/ \E i \in Transitions :
                  trs[i] # Nil /\ \A j \in Transitions \ {i} : trs'[j] = trs[j]
  BY <1>1, <1>3, <1>4
     DEF Step, List, Lock, StartBatch, BatchEnds, RecordBatch, CompleteGet, CompletePut,
         ChangeConfig, ExpireUnused, AbortGet, AbortPut
<1>. QED  BY <1>1, <1>2, <1>4 DEF Next, CancelList, CancelPut, AgentDoes, Fault, Crash

LEMMA RolloutStep ==
  ASSUME TypeOK, Progress, Next
  PROVE  [Rollouts!Next]_(Rollouts!vars)
<1>0. /\ trs \in [Transitions -> Row \cup {Nil}]
      /\ \A i \in Transitions : trs[i] # Nil => trs[i] \in Row
  BY DEF TypeOK
<1>1. CASE UNCHANGED trs
  BY <1>1 DEF Rollouts!vars, Phase
<1>2. ASSUME NEW i \in Transitions, NEW c \in Configs, NEW name \in Names, Create(i, c, name)
      PROVE  Rollouts!Next
  <2>1. trs[i] = Nil /\ trs'[i] # Nil
    <3>1. trs'[i] \in Row
      BY <1>2, CreateRow
    <3>2. trs[i] = Nil
      BY <1>2 DEF Create
    <3>. QED  BY <3>1, <3>2, NilAssumption
  <2>2. PICK nodes \in SUBSET Nodes : nodes = trs'[i].targets
    BY <1>2, CreateRow DEF Row
  <2>3. Rollouts!Create(i, nodes)
    BY <1>2, <2>1, <2>2, CreateRow DEF Rollouts!Create, Phase
  <2>. QED  BY <2>3 DEF Rollouts!Next
<1>3. ASSUME NEW i \in Transitions, trs[i] # Nil,
             \A j \in Transitions \ {i} : trs'[j] = trs[j]
      PROVE  [Rollouts!Next]_(Rollouts!vars)
  <2>1. trs[i] \in Row /\ RowStep(i)
    BY <1>0, <1>3, RowSteps
  <2>2. trs'[i] # Nil /\ trs'[i].targets = trs[i].targets
    <3>1. trs'[i] \in Row /\ trs'[i].targets = trs[i].targets
      BY <2>1 DEF RowStep, Row
    <3>. QED  BY <3>1, NilAssumption
  <2>3. CASE trs'[i].completed = trs[i].completed
    <3>1. CASE Phase(i)' = Phase(i)
      BY <1>3, <2>2, <2>3, <3>1 DEF Rollouts!vars, Phase
    <3>2. CASE ~trs[i].aborted /\ trs'[i].aborted
      <4>1. Rollouts!Abort(i)
        BY <1>3, <2>2, <2>3, <3>2 DEF Rollouts!Abort, Phase
      <4>. QED  BY <4>1 DEF Rollouts!Next
    <3>3. CASE /\ ~trs[i].finished /\ ~trs[i].aborted
               /\ trs[i].completed = trs[i].targets
               /\ trs'[i].finished /\ ~trs'[i].aborted
      <4>1. Rollouts!Finish(i)
        BY <1>3, <2>2, <2>3, <3>3 DEF Rollouts!Finish, Phase
      <4>. QED  BY <4>1 DEF Rollouts!Next
    <3>. QED  BY <1>3, <2>1, <2>2, <3>1, <3>2, <3>3 DEF RowStep, Phase, Row
  <2>4. CASE trs'[i].completed # trs[i].completed
    <3>1. PICK batch \in SUBSET Nodes :
             /\ trs'[i].completed = trs[i].completed \cup batch
             /\ ~trs[i].finished /\ ~trs'[i].finished
             /\ trs'[i].aborted = trs[i].aborted
      BY <2>1, <2>4 DEF RowStep, Row
    <3>2. Rollouts!Record(i, batch)
      BY <1>3, <2>2, <3>1 DEF Rollouts!Record, Phase
    <3>. QED  BY <3>2 DEF Rollouts!Next
  <2>. QED  BY <2>3, <2>4
<1>. QED  BY <1>1, <1>2, <1>3, OneRow

LEMMA RolloutInit == Init => Rollouts!Init
BY DEF Init, Rollouts!Init, Phase

(* ImplementsRollout, for any number of nodes and transitions, crashes and *)
(* failed calls (transitioner.js 629-804): every step of the service, of   *)
(* the operators and of the agents is a step of Rollout or none.           *)
THEOREM RolloutIsImplemented ==
  ASSUME OneService, Droppable = {}
  PROVE  Spec => ImplementsRollout
<1>1. TypeOK /\ Progress /\ [Next]_vars => [Rollouts!Next]_(Rollouts!vars)
  <2> SUFFICES ASSUME TypeOK, Progress, [Next]_vars
               PROVE  [Rollouts!Next]_(Rollouts!vars)
    OBVIOUS
  <2>1. CASE Next
    BY <2>1, RolloutStep
  <2>2. CASE UNCHANGED vars
    BY <2>2 DEF vars, Rollouts!vars, Phase
  <2>. QED  BY <2>1, <2>2
<1>. QED  BY <1>1, RolloutInit, ProgressHolds, PTL
     DEF Spec, ImplementsRollout, Rollouts!Spec

-----------------------------------------------------------------------------
(* A canceled transition stops *)

(* A service that is about to begin a batch has begun none since its       *)
(* transition was aborted.                                                 *)
LateInv ==
  /\ \A i \in Transitions :
       late[i] <= 1 /\ (trs[i] = Nil \/ ~trs[i].aborted => late[i] = 0)
  /\ \A s \in Services : pc[s] = "batch" => late[ctx[s].tr] = 0

LEMMA LateNext ==
  ASSUME OneService, TypeOK, Progress, LateInv, [Next]_vars
  PROVE  LateInv'
<1>0. /\ trs \in [Transitions -> Row \cup {Nil}] /\ pc \in [Services -> Labels]
      /\ late \in [Transitions -> Nat] /\ DOMAIN ctx = Services
      /\ \A i \in Transitions : trs[i] # Nil => trs[i] \in Row
  BY DEF TypeOK
<1>1. CASE UNCHANGED vars
  BY <1>1 DEF vars, LateInv
<1>2. ASSUME NEW i \in Transitions, trs[i] # Nil, RowStep(i)
      PROVE  trs'[i] # Nil /\ (trs[i].aborted => trs'[i].aborted)
  <2>1. trs[i] \in Row
    BY <1>0, <1>2
  <2>2. trs'[i] \in Row /\ (trs[i].aborted => trs'[i].aborted)
    BY <1>2, <2>1 DEF RowStep, Row
  <2>. QED  BY <2>2, NilAssumption
(* Rows stay aborted.                                                      *)
<1>3. ASSUME Next, NEW i \in Transitions, trs[i] # Nil, trs[i].aborted
      PROVE  trs'[i] # Nil /\ trs'[i].aborted
  BY <1>2, <1>3, RowSteps
(* Steps that begin no batch.                                              *)
<1>4. ASSUME Next, UNCHANGED late, NEW s \in Services,
             pc'[s] = "batch" => late[ctx'[s].tr] = 0
      PROVE  LateInv'
  BY <1>3, <1>4 DEF LateInv, OneService
<1>5. CASE Next /\ UNCHANGED <<late, pc, ctx>>
  BY <1>3, <1>5 DEF LateInv
<1>6. ASSUME NEW s \in Services, Step(s) \/ Fault(s) \/ Crash(s)
      PROVE  LateInv'
  <2> DEFINE k == ctx[s].tr
  <2>0. Next
    BY <1>6 DEF Next
  <2>1. CASE StartBatch(s)
    <3>1. /\ pc[s] = "batch" /\ pc'[s] = "tasks" /\ UNCHANGED trs
          /\ late' = [late EXCEPT ![k] = IF trs[k].aborted THEN @ + 1 ELSE @]
      BY <1>0, <2>1 DEF StartBatch, Goto
    <3>2. k \in Transitions /\ trs[k] # Nil /\ late[k] = 0
      BY <3>1 DEF TypeOK, Running, Labels, Context, LateInv
    <3>3. \A u \in Services : u = s
      BY DEF OneService
    <3>. QED  BY <1>0, <3>1, <3>2, <3>3 DEF LateInv
  <2>2. CASE Lock(s) /\ pc'[s] = "batch"
    <3>1. ctx[s] \in Context /\ k \in Transitions /\ trs[k] # Nil
      BY <2>2 DEF Lock, TypeOK, Running, Labels, Context
    <3>2. Unchanged(k, ctx[s].etag) /\ UNCHANGED late
      BY <1>0, <2>2 DEF Lock, Put, Unchanged, Goto
    <3>3. ~trs[k].aborted
      BY <2>2, <3>2 DEF Lock, Unchanged, Progress, CtxInv, Open
    <3>4. late[k] = 0
      BY <3>1, <3>3 DEF LateInv
    <3>5. ctx'[s].tr = k
      BY <1>0, <2>2, <3>1 DEF Lock, NewCtx, Goto, Context
    <3>. QED  BY <1>4, <2>0, <3>2, <3>4, <3>5
  <2>3. CASE RecordBatch(s) /\ pc'[s] = "batch"
    <3>1. ctx[s] \in Context /\ k \in Transitions /\ trs[k] # Nil
      BY <2>3 DEF RecordBatch, TypeOK, Running, Labels, Context
    <3>2. ~trs[k].aborted /\ UNCHANGED late /\ ctx'[s].tr = k
      BY <1>0, <2>3, <3>1 DEF RecordBatch, Goto, NewCtx, Stops, Context
    <3>3. late[k] = 0
      BY <3>1, <3>2 DEF LateInv
    <3>. QED  BY <1>4, <2>0, <3>2, <3>3
  <2>4. CASE ~StartBatch(s) /\ pc'[s] # "batch"
    <3>1. UNCHANGED late
      BY <1>6, <2>4 DEF Step, List, Lock, BatchEnds, RecordBatch, CompleteGet, CompletePut,
           ChangeConfig, ExpireUnused, AbortGet, AbortPut, Fault, Crash
    <3>. QED  BY <1>4, <2>0, <2>4, <3>1
  <2>5. CASE ~StartBatch(s) /\ ~Lock(s) /\ ~RecordBatch(s)
    <3>1. pc'[s] # "batch"
      BY <1>0, <1>6, <2>5 DEF Step, List, BatchEnds, CompleteGet, CompletePut,
           ChangeConfig, ExpireUnused, AbortGet, AbortPut, Fault, Crash, StartOver, Goto
    <3>. QED  BY <2>4, <2>5, <3>1
  <2>. QED  BY <2>1, <2>2, <2>3, <2>4, <2>5
<1>. QED  BY <1>1, <1>5, <1>6 DEF Next, Create, CancelList, CancelPut, AgentDoes

(* CancelStops, for any number of nodes and transitions, crashes and       *)
(* failed calls (transitioner.js 308-337, 576-624, 747-757).               *)
THEOREM CanceledTransitionsStop ==
  ASSUME OneService, Droppable = {}
  PROVE  Spec => []CancelStops
<1>1. Init => LateInv
  BY DEF Init, LateInv
<1>2. TypeOK /\ Progress /\ LateInv /\ [Next]_vars => LateInv'
  BY LateNext
<1>3. LateInv => CancelStops
  BY DEF LateInv, CancelStops
<1>. QED  BY <1>1, <1>2, <1>3, ProgressHolds, PTL DEF Spec

-----------------------------------------------------------------------------
(* The lock, with any number of services *)

(* Whoever is about to lock a transition has an etag of it that is not from *)
(* the future, and if it is the one of now, what was listed is so now.      *)
AsListed(i, c) ==
  /\ c.etag <= etag[i]
  /\ c.etag = etag[i] =>
       /\ trs[i] # Nil /\ ~trs[i].finished /\ ~trs[i].aborted
       /\ c.pending = PendingTargets(trs[i])

LockInv == \A s \in Services : pc[s] = "lock" => AsListed(ctx[s].tr, ctx[s])

(* A row that is written has another etag.                                  *)
LEMMA WritesShow ==
  ASSUME TypeOK, Next, NEW i \in Transitions, trs[i] # Nil
  PROVE  \/ trs'[i] = trs[i] /\ etag'[i] = etag[i]
         \/ etag'[i] > etag[i]
<1>0. trs \in [Transitions -> Row \cup {Nil}] /\ etag \in [Transitions -> Nat]
  BY DEF TypeOK
<1>1. ASSUME NEW j \in Transitions, NEW tag, NEW row, Put(j, tag, row)
      PROVE  (trs'[i] = trs[i] /\ etag'[i] = etag[i]) \/ etag'[i] > etag[i]
  BY <1>0, <1>1 DEF Put
<1>2. ASSUME NEW s \in Services, Lock(s) \/ RecordBatch(s) \/ CompletePut(s) \/ AbortPut(s)
      PROVE  ctx[s].tr \in Transitions
  BY <1>2 DEF Lock, RecordBatch, CompletePut, AbortPut, TypeOK, Running, Labels, Context
<1>3. ASSUME NEW s \in Services, Step(s)
      PROVE  (trs'[i] = trs[i] /\ etag'[i] = etag[i]) \/ etag'[i] > etag[i]
  BY <1>1, <1>2, <1>3
     DEF Step, List, Lock, StartBatch, BatchEnds, RecordBatch, CompleteGet, CompletePut,
         ChangeConfig, ExpireUnused, AbortGet, AbortPut
<1>4. ASSUME NEW j \in Transitions, NEW c \in Configs, NEW name \in Names, Create(j, c, name)
      PROVE  trs'[i] = trs[i] /\ etag'[i] = etag[i]
  BY <1>0, <1>4 DEF Create
<1>. QED  BY <1>1, <1>3, <1>4 DEF Next, CancelList, CancelPut, AgentDoes, Fault, Crash

(* A service that is about to lock has just listed, or was about to before. *)
LEMMA LocksAfterList ==
  ASSUME TypeOK, Next, NEW t \in Services, pc'[t] = "lock"
  PROVE  List(t) \/ (pc[t] = "lock" /\ ctx'[t] = ctx[t])
<1>0. pc \in [Services -> Labels] /\ DOMAIN ctx = Services
  BY DEF TypeOK
<1>1. ASSUME NEW s \in Services, s # t, Step(s) \/ Fault(s) \/ Crash(s)
      PROVE  pc[t] = pc'[t] /\ ctx'[t] = ctx[t]
  BY <1>0, <1>1
     DEF Step, List, Lock, StartBatch, BatchEnds, RecordBatch, CompleteGet, CompletePut,
         ChangeConfig, ExpireUnused, AbortGet, AbortPut, Fault, Crash, StartOver, Goto, NewCtx
<1>2. ASSUME Step(t) \/ Fault(t) \/ Crash(t)
      PROVE  List(t)
  BY <1>0, <1>2
     DEF Step, Lock, StartBatch, BatchEnds, RecordBatch, CompleteGet, CompletePut,
         ChangeConfig, ExpireUnused, AbortGet, AbortPut, Fault, Crash, StartOver, Goto
<1>. QED  BY <1>1, <1>2 DEF Next, Create, CancelList, CancelPut, AgentDoes

LEMMA LockInvNext == TypeOK /\ LockInv /\ [Next]_vars => LockInv'
<1> SUFFICES ASSUME TypeOK, LockInv, Next PROVE LockInv'
  BY DEF vars, LockInv, AsListed, PendingTargets
<1> SUFFICES ASSUME NEW t \in Services, pc'[t] = "lock"
             PROVE  AsListed(ctx[t].tr, ctx[t])'
  BY DEF LockInv
<1>0. etag \in [Transitions -> Nat] /\ DOMAIN ctx = Services
  BY DEF TypeOK
<1>1. CASE List(t)
  <2>1. PICK i \in Transitions :
          /\ Open(i)
          /\ ctx'[t] = [tr |-> i, etag |-> etag[i], batch |-> {},
                        pending |-> PendingTargets(trs[i]), completed |-> {}, errs |-> {}]
    BY <1>0, <1>1 DEF List, StartOver, Goto, NewCtx, TypeOK
  <2>2. UNCHANGED <<trs, etag>>
    BY <1>1 DEF List
  <2>. QED  BY <1>0, <2>1, <2>2 DEF Open, AsListed
<1>2. CASE pc[t] = "lock" /\ ctx'[t] = ctx[t]
  <2> DEFINE i == ctx[t].tr
  <2>1. i \in Transitions /\ trs[i] # Nil /\ ctx[t].etag \in Nat
    BY <1>2 DEF TypeOK, Running, Labels, Context
  <2>2. AsListed(i, ctx[t])
    BY <1>2 DEF LockInv
  <2>3. \/ trs'[i] = trs[i] /\ etag'[i] = etag[i]
        \/ etag'[i] > etag[i]
    BY <2>1, WritesShow
  <2>4. etag'[i] \in Nat
    BY <2>1, TypeOKNext DEF TypeOK
  <2>5. CASE trs'[i] = trs[i] /\ etag'[i] = etag[i]
    BY <1>2, <2>2, <2>5 DEF AsListed
  <2>6. CASE etag'[i] > etag[i]
    BY <1>0, <1>2, <2>1, <2>2, <2>4, <2>6 DEF AsListed
  <2>. QED  BY <2>3, <2>5, <2>6
<1>. QED  BY <1>1, <1>2, LocksAfterList

(* LocksWhatWasListed, for any number of services, nodes, transitions,      *)
(* crashes and failed calls (transitioner.js 308-333, 376-391, 576-624).    *)
THEOREM LocksAreAsListed == Spec => LocksWhatWasListed
<1>1. Init => LockInv
  BY DEF Init, LockInv
<1>2. ASSUME TypeOK, LockInv, [Next]_vars,
             NEW s \in Services, pc[s] = "lock", pc'[s] = "batch"
      PROVE  LET i == ctx[s].tr
             IN /\ Open(i) /\ ctx[s].pending = PendingTargets(trs[i])
                /\ \A t \in Services \ {s} :
                     pc[t] = "lock" /\ ctx[t].tr = i => ctx'[t].etag < etag'[i]
  <2> DEFINE i == ctx[s].tr
  <2>0. /\ etag \in [Transitions -> Nat] /\ DOMAIN ctx = Services
        /\ pc \in [Services -> Labels]
    BY <1>2 DEF TypeOK
  <2>1. Lock(s)
    <3>1. ASSUME NEW u \in Services, u # s, Step(u) \/ Fault(u) \/ Crash(u)
          PROVE  FALSE
      BY <1>2, <2>0, <3>1
         DEF Step, List, Lock, StartBatch, BatchEnds, RecordBatch, CompleteGet, CompletePut,
             ChangeConfig, ExpireUnused, AbortGet, AbortPut, Fault, Crash, StartOver, Goto
    <3>2. Step(s) \/ Fault(s) \/ Crash(s)
      BY <1>2, <3>1 DEF vars, Next, Create, CancelList, CancelPut, AgentDoes
    <3>. QED  BY <1>2, <2>0, <3>2
         DEF Step, List, StartBatch, BatchEnds, RecordBatch, CompleteGet, CompletePut,
             ChangeConfig, ExpireUnused, AbortGet, AbortPut, Fault, Crash, StartOver, Goto
  <2>2. i \in Transitions
    BY <1>2 DEF TypeOK, Running, Labels, Context
  <2>3. /\ Unchanged(i, ctx[s].etag) /\ etag'[i] = etag[i] + 1
        /\ \A t \in Services \ {s} : ctx'[t] = ctx[t]
    BY <1>2, <2>0, <2>1, <2>2 DEF Lock, Put, Unchanged, Goto, NewCtx
  <2>4. Open(i) /\ ctx[s].pending = PendingTargets(trs[i])
    BY <1>2, <2>3 DEF LockInv, AsListed, Unchanged, Open
  <2>5. ASSUME NEW t \in Services \ {s}, pc[t] = "lock", ctx[t].tr = i
        PROVE  ctx'[t].etag < etag'[i]
    <3>1. ctx[t].etag \in Nat /\ ctx[t].etag <= etag[i]
      BY <1>2, <2>5 DEF LockInv, AsListed, TypeOK, Running, Labels, Context
    <3>. QED  BY <2>0, <2>2, <2>3, <3>1
  <2>. QED  BY <2>4, <2>5
<1>3. TypeOK /\ LockInv /\ [Next]_vars =>
        [\A s \in Services : pc[s] = "lock" /\ pc'[s] = "batch" =>
           LET i == ctx[s].tr
           IN /\ Open(i) /\ ctx[s].pending = PendingTargets(trs[i])
              /\ \A t \in Services \ {s} :
                   pc[t] = "lock" /\ ctx[t].tr = i => ctx'[t].etag < etag'[i]]_vars
  BY <1>2
<1>. QED  BY <1>1, <1>3, LockInvNext, TypeCorrect, PTL DEF Spec, LocksWhatWasListed
=============================================================================
