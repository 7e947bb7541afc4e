------------------------ MODULE Configurations_proofs ------------------------
(***************************************************************************)
(* Expiry is final but for reactivations, and a client never has two       *)
(* transitions of a name pending, for any number of configurations,        *)
(* clients and transitions.                                                *)
(***************************************************************************)
EXTENDS Configurations, TLAPS

(* An etag that still matches is that of an expired row: reactivations are  *)
(* the only ones to use it, and every write takes it away.                  *)
FreshIsExpired ==
  \A k \in Clients : \A c \in fresh[k] : State(row[c]) = "expired"

(* A client that is about to create a transition has none like it.          *)
CreatesFirst ==
  \A k \in Clients, i \in Transitions :
    pc[k] = "create" /\ Open(i) /\ trs[i].by = k
      => ~(trs[i].config = ctx[k].config /\ trs[i].name = ctx[k].action)

IInv == TypeOK /\ FreshIsExpired /\ CreatesFirst /\ OnePerClient

-----------------------------------------------------------------------------
LEMMA RowShape ==
  ASSUME TypeOK, NEW c \in Configs
  PROVE  row[c] \in SUBSET Marks /\ (row[c] # {} => "created" \in row[c])
BY DEF TypeOK, Rows

LEMMA WriteType ==
  ASSUME TypeOK, NEW S \in SUBSET Configs, NEW rows, Write(S, rows),
         \A c \in S : rows[c] \in Rows
  PROVE  row' \in [Configs -> Rows] /\ fresh' \in [Clients -> SUBSET Configs]
BY DEF Write, TypeOK

LEMMA WriteOneType ==
  ASSUME TypeOK, NEW c \in Configs, NEW marks \in Rows,
         Write({c}, [d \in {c} |-> marks])
  PROVE  row' \in [Configs -> Rows] /\ fresh' \in [Clients -> SUBSET Configs]
BY DEF Write, TypeOK

LEMMA AwaitType ==
  ASSUME TypeOK, NEW p \in Processes, NEW label \in Labels, NEW c,
         Await(p, label, c),
         label = "put" => c \in [config : Configs, first : BOOLEAN],
         label = "remove" => c \in [config : Configs],
         label = "cancel" => c \in [config : Configs, tr : Transitions],
         label \in {"list", "expire", "reactivate"} => c \in Transiting,
         label \in {"create", "effect"} => c \in Transiting /\ c.action \in Names,
         label = "sweep" => c.rows \in [Configs -> Rows],
         label \in {"run", "config", "unused"} => c \in Running
  PROVE  DOMAIN pc' = Processes /\ DOMAIN ctx' = Processes
         /\ \A q \in Processes : ContextOK(q)'
<1>1. pc'[p] = label /\ ctx'[p] = c
  BY DEF Await, TypeOK
<1>2. \A q \in Processes \ {p} : pc'[q] = pc[q] /\ ctx'[q] = ctx[q]
  BY DEF Await, TypeOK
<1>3. ContextOK(p)'
  BY <1>1 DEF ContextOK
<1>4. \A q \in Processes \ {p} : ContextOK(q)'
  BY <1>2 DEF ContextOK, TypeOK
<1> QED
  BY <1>3, <1>4 DEF Await, TypeOK

LEMMA FinishType ==
  ASSUME TypeOK, NEW p \in Processes, Finish(p)
  PROVE  DOMAIN pc' = Processes /\ DOMAIN ctx' = Processes
         /\ \A q \in Processes : ContextOK(q)'
<1>1. "idle" \in Labels
  BY DEF Labels
<1> QED
  BY <1>1, AwaitType DEF Finish

LEMMA RequestTypes ==
  ASSUME TypeOK, NEW k \in Clients, Request(k)
  PROVE  TypeOK'
<1> k \in Processes
  BY DEF Processes
<1> USE NilAssumption, MaxTransitionsAssumption, AskedAssumption
<1>1. ASSUME NEW c \in Configs, CountConfigs(k, c)
      PROVE  TypeOK'
  <2>1. PICK first \in BOOLEAN : Await(k, "put", [config |-> c, first |-> first])
    BY <1>1 DEF CountConfigs
  <2> QED
    BY <1>1, <2>1, AwaitType DEF CountConfigs, TypeOK, Labels
<1>2. ASSUME NEW c \in Configs, CheckDelete(k, c)
      PROVE  TypeOK'
  BY <1>2, AwaitType DEF CheckDelete, TypeOK, Labels
<1>3. ASSUME NEW c \in Configs, NEW action \in Asked, GetConfig(k, c, action)
      PROVE  TypeOK'
  <2>1. [config |-> c, action |-> action] \in Transiting
    BY DEF Transiting
  <2>2. fresh' \in [Clients -> SUBSET Configs]
    BY <1>3 DEF GetConfig, TypeOK
  <2> QED
    BY <1>3, <2>1, <2>2, AwaitType DEF GetConfig, TypeOK, Labels
<1>4. CASE PutConfig(k)
  <2> DEFINE c == ctx[k].config
             born == {"created"} \cup IF ctx[k].first THEN {"staged", "activated"} ELSE {}
  <2>1. c \in Configs /\ born \in Rows
    BY <1>4 DEF PutConfig, TypeOK, ContextOK, Rows, Marks
  <2>2. Write({c}, [d \in {c} |-> born]) \/ UNCHANGED <<row, fresh>>
    BY <1>4 DEF PutConfig
  <2> HIDE DEF born
  <2>3. row' \in [Configs -> Rows] /\ fresh' \in [Clients -> SUBSET Configs]
    BY <2>1, <2>2, WriteOneType DEF TypeOK
  <2> QED
    BY <1>4, <2>3, FinishType DEF PutConfig, TypeOK
<1>5. CASE Remove(k)
  <2> DEFINE c == ctx[k].config
  <2>1. c \in Configs /\ {} \in Rows
    BY <1>5 DEF Remove, TypeOK, ContextOK, Rows
  <2>2. row' \in [Configs -> Rows] /\ fresh' \in [Clients -> SUBSET Configs]
    BY <1>5, <2>1, WriteOneType DEF Remove
  <2> QED
    BY <1>5, <2>2, FinishType DEF Remove, TypeOK
<1>6. CASE ListTransitions(k)
  <2>1. ctx[k] \in Transiting
    BY <1>6 DEF ListTransitions, TypeOK, ContextOK
  <2>2. \/ Finish(k)
        \/ \E i \in Transitions : Await(k, "cancel", [config |-> ctx[k].config, tr |-> i])
        \/ ctx[k].action \in Names /\ Await(k, "create", ctx[k])
        \/ Await(k, "expire", ctx[k])
        \/ Await(k, "reactivate", ctx[k])
    BY <1>6 DEF ListTransitions, Pending
  <2>3. \A i \in Transitions :
          [config |-> ctx[k].config, tr |-> i] \in [config : Configs, tr : Transitions]
    BY <2>1 DEF Transiting
  <2>4. DOMAIN pc' = Processes /\ DOMAIN ctx' = Processes
        /\ \A q \in Processes : ContextOK(q)'
    <3>1. {"cancel", "create", "expire", "reactivate"} \subseteq Labels
      BY DEF Labels
    <3>2. CASE Finish(k)
      BY <3>2, FinishType
    <3>3. ASSUME NEW i \in Transitions, Await(k, "cancel", [config |-> ctx[k].config, tr |-> i])
          PROVE  <2>4
      BY <2>3, <3>1, <3>3, AwaitType
    <3>4. CASE ctx[k].action \in Names /\ Await(k, "create", ctx[k])
      BY <2>1, <3>1, <3>4, AwaitType
    <3>5. CASE Await(k, "expire", ctx[k]) \/ Await(k, "reactivate", ctx[k])
      BY <2>1, <3>1, <3>5, AwaitType
    <3> QED
      BY <2>2, <3>2, <3>3, <3>4, <3>5
  <2> QED
    BY <1>6, <2>4 DEF ListTransitions, TypeOK
<1>7. CASE CreateTransition(k)
  <2>1. ctx[k] \in Transiting /\ ctx[k].action \in Names /\ ctx[k].config \in Configs
    BY <1>7 DEF CreateTransition, TypeOK, ContextOK, Transiting
  <2>2. PICK noTargets \in BOOLEAN :
          /\ trs' = [trs EXCEPT ![made + 1] =
                      [config |-> ctx[k].config, name |-> ctx[k].action,
                       finished |-> noTargets, aborted |-> FALSE, by |-> k]]
          /\ Await(k, "effect", ctx[k]) \/ Finish(k)
    BY <1>7 DEF CreateTransition
  <2>3. [config |-> ctx[k].config, name |-> ctx[k].action,
         finished |-> noTargets, aborted |-> FALSE, by |-> k] \in Transition
    BY <2>1 DEF Transition
  <2>4. made' \in 0..MaxTransitions /\ made' = made + 1 /\ made \in Nat
    BY <1>7 DEF CreateTransition, TypeOK
  <2>5. trs' \in [Transitions -> Transition \cup {Nil}]
    BY <2>2, <2>3 DEF TypeOK
  <2>6. \A i \in Transitions : trs'[i] # Nil => i <= made'
    BY <2>2, <2>4 DEF TypeOK, Transitions
  <2>7. DOMAIN pc' = Processes /\ DOMAIN ctx' = Processes
        /\ \A q \in Processes : ContextOK(q)'
    <3>1. CASE Finish(k)
      BY <3>1, FinishType
    <3>2. CASE Await(k, "effect", ctx[k])
      BY <2>1, <3>2, AwaitType DEF Labels
    <3> QED
      BY <2>2, <3>1, <3>2
  <2> QED
    BY <1>7, <2>4, <2>5, <2>6, <2>7 DEF CreateTransition, TypeOK
<1>8. CASE InstantUpdate(k)
  <2> DEFINE c == ctx[k].config
             new == InstantEffect(ctx[k].action, row[c])
  <2>1. c \in Configs
    BY <1>8 DEF InstantUpdate, TypeOK, ContextOK, Transiting
  <2>2. \/ Exists(c) /\ Write({c}, [d \in {c} |-> new])
        \/ UNCHANGED <<row, fresh>>
    BY <1>8 DEF InstantUpdate, Found
  <2>3. Exists(c) => new \in Rows
    BY <2>1, RowShape DEF Exists, InstantEffect, Rows, Marks
  <2> HIDE DEF new
  <2>4. row' \in [Configs -> Rows] /\ fresh' \in [Clients -> SUBSET Configs]
    BY <2>1, <2>2, <2>3, WriteOneType DEF TypeOK
  <2> QED
    BY <1>8, <2>4, FinishType DEF InstantUpdate, TypeOK
<1>9. CASE Reactivate(k)
  <2> DEFINE c == ctx[k].config
  <2>1. c \in Configs /\ {"created"} \in Rows
    BY <1>9 DEF Reactivate, TypeOK, ContextOK, Transiting, Rows, Marks
  <2>2. Write({c}, [d \in {c} |-> {"created"}]) \/ UNCHANGED <<row, fresh>>
    BY <1>9 DEF Reactivate
  <2>3. row' \in [Configs -> Rows] /\ fresh' \in [Clients -> SUBSET Configs]
    BY <2>1, <2>2, WriteOneType DEF TypeOK
  <2>4. /\ trs' \in [Transitions -> Transition \cup {Nil}]
        /\ \A i \in Transitions : trs'[i] \in {trs[i], Nil}
    BY <1>9 DEF Reactivate, TypeOK
  <2> QED
    BY <1>9, <2>3, <2>4, FinishType DEF Reactivate, TypeOK
<1>10. CASE Expire(k)
  <2> DEFINE c == ctx[k].config
  <2>1. c \in Configs /\ Marks \in Rows
    BY <1>10 DEF Expire, TypeOK, ContextOK, Transiting, Rows, Marks
  <2>2. row' \in [Configs -> Rows] /\ fresh' \in [Clients -> SUBSET Configs]
    BY <1>10, <2>1, WriteOneType DEF Expire
  <2> QED
    BY <1>10, <2>2, FinishType DEF Expire, TypeOK
<1>11. CASE CancelTransition(k)
  <2>1. ctx[k].tr \in Transitions
    BY <1>11 DEF CancelTransition, TypeOK, ContextOK
  <2>2. \A t \in Transition : [t EXCEPT !.aborted = TRUE] \in Transition
    BY DEF Transition
  <2>3. /\ trs' \in [Transitions -> Transition \cup {Nil}]
        /\ \A i \in Transitions : trs[i] = Nil => trs'[i] = Nil
    BY <1>11, <2>1, <2>2 DEF CancelTransition, TypeOK
  <2> QED
    BY <1>11, <2>3, FinishType DEF CancelTransition, TypeOK
<1> QED
  BY <1>1, <1>2, <1>3, <1>4, <1>5, <1>6, <1>7, <1>8, <1>9, <1>10, <1>11 DEF Request

LEMMA ServiceTypes ==
  ASSUME TypeOK, TakeTransition \/ Stop \/ FinishTransition \/ ChangeConfig \/ Fail
  PROVE  TypeOK'
<1> Service \in Processes
  BY DEF Processes
<1> USE NilAssumption
<1>1. CASE TakeTransition
  <2>1. PICK i \in Transitions :
          /\ Open(i)
          /\ Await(Service, "run", [tr |-> i, config |-> trs[i].config, name |-> trs[i].name])
    BY <1>1 DEF TakeTransition
  <2>2. [tr |-> i, config |-> trs[i].config, name |-> trs[i].name] \in Running
    BY <2>1 DEF Open, TypeOK, Transition, Running
  <2> QED
    BY <1>1, <2>1, <2>2, AwaitType DEF TakeTransition, TypeOK, Labels
<1>2. CASE Stop
  BY <1>2, FinishType DEF Stop, TypeOK
<1>3. CASE FinishTransition
  <2>1. ctx[Service] \in Running
    BY <1>3 DEF FinishTransition, TypeOK, ContextOK
  <2>2. \A t \in Transition : [t EXCEPT !.finished = TRUE] \in Transition
    BY DEF Transition
  <2>3. /\ trs' \in [Transitions -> Transition \cup {Nil}]
        /\ \A i \in Transitions : trs[i] = Nil => trs'[i] = Nil
    BY <1>3, <2>1, <2>2 DEF FinishTransition, TypeOK, Running
  <2>4. PICK label \in {"config", "unused"} : Await(Service, label, ctx[Service])
    BY <1>3 DEF FinishTransition
  <2>5. DOMAIN pc' = Processes /\ DOMAIN ctx' = Processes
        /\ \A q \in Processes : ContextOK(q)'
    BY <2>1, <2>4, AwaitType DEF Labels
  <2> QED
    BY <1>3, <2>3, <2>5 DEF FinishTransition, TypeOK
<1>4. CASE ChangeConfig
  <2> DEFINE c == ctx[Service].config
             new == Effect(ctx[Service].name, row[c])
  <2>1. ctx[Service] \in Running /\ c \in Configs /\ ctx[Service].name \in Names
    BY <1>4 DEF ChangeConfig, TypeOK, ContextOK, Running
  <2>2. Exists(c) /\ Write({c}, [d \in {c} |-> new])
    BY <1>4 DEF ChangeConfig, Found
  <2>3. new \in Rows
    BY <2>1, <2>2, RowShape DEF Exists, Effect, Rows, Marks, Names
  <2> HIDE DEF new
  <2>4. row' \in [Configs -> Rows] /\ fresh' \in [Clients -> SUBSET Configs]
    BY <2>1, <2>2, <2>3, WriteOneType
  <2>5. DOMAIN pc' = Processes /\ DOMAIN ctx' = Processes
        /\ \A q \in Processes : ContextOK(q)'
    BY <1>4, <2>1, AwaitType DEF ChangeConfig, Labels
  <2> QED
    BY <1>4, <2>4, <2>5 DEF ChangeConfig, TypeOK
<1>5. CASE Fail
  <2> DEFINE i == IF pc[Service] = "sweep" THEN ctx[Service].ctx.tr ELSE ctx[Service].tr
  <2>1. \/ trs' = [trs EXCEPT ![i].aborted = TRUE, ![i].finished = TRUE] /\ trs[i] # Nil
        \/ trs' = trs
    BY <1>5 DEF Fail
  <2> HIDE DEF i
  <2>2. \A t \in Transition : [t EXCEPT !.aborted = TRUE, !.finished = TRUE] \in Transition
    BY DEF Transition
  <2>3. \A j \in Transitions :
          \/ trs'[j] = trs[j]
          \/ trs[j] # Nil /\ trs'[j] = [trs[j] EXCEPT !.aborted = TRUE, !.finished = TRUE]
    BY <2>1 DEF TypeOK
  <2>4. \A j \in Transitions :
          trs'[j] \in Transition \cup {Nil} /\ (trs[j] = Nil => trs'[j] = Nil)
    BY <2>2, <2>3 DEF TypeOK
  <2>5. trs' \in [Transitions -> Transition \cup {Nil}]
    BY <2>1, <2>4 DEF TypeOK
  <2> QED
    BY <1>5, <2>4, <2>5, FinishType DEF Fail, TypeOK
<1> QED
  BY <1>1, <1>2, <1>3, <1>4, <1>5

LEMMA SweepTypes ==
  ASSUME TypeOK, NEW p \in Processes, SweepList(p) \/ SweepPut(p) \/ Crash(p)
  PROVE  TypeOK'
<1>1. CASE SweepList(p)
  <2>1. [ctx |-> ctx[p], rows |-> row].rows \in [Configs -> Rows]
    BY DEF TypeOK
  <2> QED
    BY <1>1, <2>1, AwaitType DEF SweepList, TypeOK, Labels
<1>2. CASE SweepPut(p)
  <2> DEFINE rows == ctx[p].rows
  <2>1. PICK S \in SUBSET {c \in Configs : "created" \in rows[c]} :
          Write(S, [c \in S |-> rows[c] \cup {"expired"}])
    BY <1>2 DEF SweepPut
  <2>2. rows \in [Configs -> Rows]
    BY <1>2 DEF SweepPut, TypeOK, ContextOK
  <2> DEFINE puts == [c \in S |-> rows[c] \cup {"expired"}]
  <2>3. \A c \in S : puts[c] \in Rows
    BY <2>1, <2>2 DEF Rows, Marks
  <2>4. S \in SUBSET Configs /\ Write(S, puts)
    BY <2>1
  <2> HIDE DEF puts
  <2>5. row' \in [Configs -> Rows] /\ fresh' \in [Clients -> SUBSET Configs]
    BY <2>3, <2>4, WriteType
  <2> QED
    BY <1>2, <2>5, FinishType DEF SweepPut, TypeOK
<1>3. CASE Crash(p)
  BY <1>3, FinishType DEF Crash, TypeOK
<1> QED
  BY <1>1, <1>2, <1>3

LEMMA TypeStep ==
  ASSUME TypeOK, [Next]_vars
  PROVE  TypeOK'
<1>1. CASE UNCHANGED vars
  BY <1>1 DEF vars, TypeOK, ContextOK
<1> QED
  BY <1>1, RequestTypes, ServiceTypes, SweepTypes DEF Next

-----------------------------------------------------------------------------
(* What a step does to the row of a configuration: it leaves it alone, and  *)
(* only an expired one gets a new fresh etag; or it writes it, and leaves   *)
(* none.                                                                    *)
Untouched(c) ==
  /\ row'[c] = row[c]
  /\ \A k \in Clients : c \in fresh'[k] => c \in fresh[k] \/ State(row[c]) = "expired"

Written(c) == \A k \in Clients : c \notin fresh'[k]

KeepsExpiry(c) == Exists(c) /\ "expired" \in row[c] => ~Exists(c)' \/ "expired" \in row'[c]

Reset(c) ==
  /\ row'[c] = {"created"} /\ \E k \in Clients : c \in fresh[k]
  /\ \A i \in Transitions : trs'[i] # Nil => trs'[i].config # c

RowStep(c) == Untouched(c) \/ (Written(c) /\ (KeepsExpiry(c) \/ Reset(c)))

LEMMA SameRows ==
  ASSUME TypeOK, UNCHANGED <<row, fresh>>, NEW c \in Configs
  PROVE  RowStep(c)
BY DEF RowStep, Untouched

LEMMA WriteRows ==
  ASSUME TypeOK, NEW S \in SUBSET Configs, NEW rows, Write(S, rows), NEW c \in Configs
  PROVE  /\ c \in S => row'[c] = rows[c] /\ Written(c)
         /\ c \notin S => RowStep(c)
BY DEF TypeOK, Write, Written, RowStep, Untouched

LEMMA WriteOneRow ==
  ASSUME TypeOK, NEW d \in Configs, NEW marks, Write({d}, [e \in {d} |-> marks]),
         NEW c \in Configs
  PROVE  /\ c = d => row'[c] = marks /\ Written(c)
         /\ c # d => RowStep(c)
BY DEF TypeOK, Write, Written, RowStep, Untouched

LEMMA EveryRowStep ==
  ASSUME TypeOK, [Next]_vars, NEW c \in Configs
  PROVE  RowStep(c)
<1> DEFINE Others == UNCHANGED <<row, fresh>>
<1>1. ASSUME NEW k \in Clients, Request(k)
      PROVE  RowStep(c)
  <2> k \in Processes
    BY DEF Processes
  <2>1. ASSUME NEW d \in Configs, NEW action \in Asked, GetConfig(k, d, action)
        PROVE  RowStep(c)
    <3>1. action = "reactivate" => State(row[d]) = "expired"
      BY <2>1 DEF GetConfig, ValidActions, State
    <3>2. /\ row' = row
          /\ fresh' = IF action = "reactivate" THEN [fresh EXCEPT ![k] = {d}] ELSE fresh
      BY <2>1 DEF GetConfig
    <3> QED
      BY <3>1, <3>2 DEF TypeOK, RowStep, Untouched
  <2>2. CASE PutConfig(k)
    <3> DEFINE d == ctx[k].config
               born == {"created"} \cup IF ctx[k].first THEN {"staged", "activated"} ELSE {}
    <3>1. d \in Configs
      BY <2>2 DEF PutConfig, TypeOK, ContextOK
    <3>2. UNCHANGED <<row, fresh>> \/ (~Exists(d) /\ Write({d}, [e \in {d} |-> born]))
      BY <2>2 DEF PutConfig
    <3> HIDE DEF born
    <3> QED
      BY <3>1, <3>2, SameRows, WriteOneRow DEF RowStep, KeepsExpiry
  <2>3. CASE Remove(k)
    <3> DEFINE d == ctx[k].config
    <3>1. d \in Configs /\ Write({d}, [e \in {d} |-> {}])
      BY <2>3 DEF Remove, TypeOK, ContextOK
    <3> QED
      BY <3>1, WriteOneRow DEF RowStep, KeepsExpiry, Exists
  <2>4. CASE InstantUpdate(k)
    <3> DEFINE d == ctx[k].config
               new == InstantEffect(ctx[k].action, row[d])
    <3>1. d \in Configs
      BY <2>4 DEF InstantUpdate, TypeOK, ContextOK, Transiting
    <3>2. UNCHANGED <<row, fresh>> \/ Write({d}, [e \in {d} |-> new])
      BY <2>4 DEF InstantUpdate
    <3>3. row[d] \subseteq new
      BY DEF InstantEffect
    <3> HIDE DEF new
    <3> QED
      BY <3>1, <3>2, <3>3, SameRows, WriteOneRow DEF RowStep, KeepsExpiry
  <2>5. CASE Reactivate(k)
    <3> DEFINE d == ctx[k].config
    <3>1. d \in Configs
      BY <2>5 DEF Reactivate, TypeOK, ContextOK, Transiting
    <3>2. CASE StillThere(k)
      <4> DEFINE new == {"created"}
      <4>1. Write({d}, [e \in {d} |-> new]) /\ d \in fresh[k]
        BY <2>5, <3>2 DEF Reactivate, StillThere
      <4>2. \A i \in Transitions : trs'[i] # Nil => trs'[i].config # d
        BY <2>5, <3>2 DEF Reactivate, TypeOK
      <4>3. new = {"created"}
        OBVIOUS
      <4> HIDE DEF new
      <4>4. c = d => row'[c] = new /\ Written(c)
        BY <3>1, <4>1, WriteOneRow
      <4>5. c # d => RowStep(c)
        BY <3>1, <4>1, WriteOneRow
      <4> QED
        BY <4>1, <4>2, <4>3, <4>4, <4>5 DEF RowStep, Reset
    <3>3. CASE ~StillThere(k)
      BY <2>5, <3>3, SameRows DEF Reactivate
    <3> QED
      BY <3>2, <3>3
  <2>6. CASE Expire(k)
    <3> DEFINE d == ctx[k].config
    <3>1. d \in Configs /\ Write({d}, [e \in {d} |-> Marks])
      BY <2>6 DEF Expire, TypeOK, ContextOK, Transiting
    <3>2. c = d => row'[c] = Marks /\ Written(c)
      BY <3>1, WriteOneRow
    <3>3. c # d => RowStep(c)
      BY <3>1, WriteOneRow
    <3> QED
      BY <3>2, <3>3 DEF RowStep, KeepsExpiry, Marks
  <2> QED
    BY <1>1, <2>1, <2>2, <2>3, <2>4, <2>5, <2>6, SameRows
    DEF Request, CountConfigs, CheckDelete, ListTransitions, CreateTransition,
        CancelTransition
<1>2. ASSUME NEW p \in Processes, SweepPut(p)
      PROVE  RowStep(c)
  <2> DEFINE rows == ctx[p].rows
  <2>1. PICK S \in SUBSET {d \in Configs : "created" \in rows[d]} :
          Write(S, [d \in S |-> rows[d] \cup {"expired"}])
    BY <1>2 DEF SweepPut
  <2> DEFINE puts == [d \in S |-> rows[d] \cup {"expired"}]
  <2>2. c \in S => "expired" \in puts[c]
    OBVIOUS
  <2>3. S \in SUBSET Configs /\ Write(S, puts)
    BY <2>1
  <2> HIDE DEF puts
  <2> QED
    BY <2>2, <2>3, WriteRows DEF RowStep, KeepsExpiry
<1>3. CASE ChangeConfig
  <2> DEFINE d == ctx[Service].config
             new == Effect(ctx[Service].name, row[d])
  <2>1. ctx[Service] \in Running
    BY <1>3 DEF ChangeConfig, TypeOK, ContextOK, Processes
  <2>2. d \in Configs /\ ctx[Service].name \in Names
    BY <2>1 DEF Running
  <2>3. Write({d}, [e \in {d} |-> new])
    BY <1>3 DEF ChangeConfig
  <2>4. "expired" \in row[d] => "expired" \in new
    BY <2>2 DEF Effect, Names
  <2> HIDE DEF new
  <2> QED
    BY <2>2, <2>3, <2>4, WriteOneRow DEF RowStep, KeepsExpiry
<1> QED
  BY <1>1, <1>2, <1>3, SameRows
  DEF Next, vars, SweepList, Crash, TakeTransition, Stop, FinishTransition, Fail

LEMMA FreshStep ==
  ASSUME TypeOK, TypeOK', FreshIsExpired, [Next]_vars
  PROVE  FreshIsExpired'
<1> SUFFICES ASSUME NEW k \in Clients, NEW c \in fresh'[k]
             PROVE  State(row'[c]) = "expired"
  BY DEF FreshIsExpired, State
<1>1. c \in Configs
  BY DEF TypeOK
<1>2. Untouched(c)
  BY <1>1, EveryRowStep DEF RowStep, Written
<1> QED
  BY <1>2 DEF Untouched, FreshIsExpired

-----------------------------------------------------------------------------
(* A transition that is open after a step was open before it, and the same, *)
(* or it is the one that was just created.                                  *)
WasOpen(i) ==
  /\ Open(i)
  /\ trs'[i].config = trs[i].config
  /\ trs'[i].name = trs[i].name
  /\ trs'[i].by = trs[i].by

Creates(k, i) ==
  /\ pc[k] = "create" /\ pc'[k] # "create"
  /\ trs'[i].config = ctx[k].config
  /\ trs'[i].name = ctx[k].action
  /\ trs'[i].by = k
  /\ \A j \in Transitions \ {i} : trs'[j] = trs[j]
  /\ \A q \in Processes \ {k} : pc'[q] = pc[q] /\ ctx'[q] = ctx[q]

LEMMA OpenStep ==
  ASSUME TypeOK, [Next]_vars, NEW i \in Transitions, Open(i)'
  PROVE  WasOpen(i) \/ \E k \in Clients : Creates(k, i)
<1> USE NilAssumption
<1>1. CASE trs'[i] = trs[i]
  BY <1>1 DEF Open, WasOpen
<1>2. ASSUME NEW k \in Clients, CreateTransition(k)
      PROVE  WasOpen(i) \/ Creates(k, i)
  <2>1. PICK noTargets \in BOOLEAN :
          /\ trs' = [trs EXCEPT ![made + 1] =
                      [config |-> ctx[k].config, name |-> ctx[k].action,
                       finished |-> noTargets, aborted |-> FALSE, by |-> k]]
          /\ Await(k, "effect", ctx[k]) \/ Await(k, "idle", Nil)
    BY <1>2 DEF CreateTransition, Finish
  <2>2. pc[k] = "create" /\ k \in Processes
    BY <1>2 DEF CreateTransition, Processes
  <2>3. /\ pc'[k] # "create"
        /\ \A q \in Processes \ {k} : pc'[q] = pc[q] /\ ctx'[q] = ctx[q]
    BY <2>1, <2>2 DEF Await, TypeOK
  <2>4. CASE i # made + 1
    <3>1. trs'[i] = trs[i]
      BY <2>1, <2>4 DEF TypeOK
    <3> QED
      BY <3>1 DEF Open, WasOpen
  <2>5. CASE i = made + 1
    <3>1. trs'[i] = [config |-> ctx[k].config, name |-> ctx[k].action,
                     finished |-> noTargets, aborted |-> FALSE, by |-> k]
      BY <2>1, <2>5 DEF TypeOK
    <3>2. \A j \in Transitions \ {i} : trs'[j] = trs[j]
      BY <2>1, <2>5 DEF TypeOK
    <3> QED
      BY <2>2, <2>3, <3>1, <3>2 DEF Creates
  <2> QED
    BY <2>4, <2>5
<1>3. ASSUME NEW k \in Clients, Reactivate(k)
      PROVE  WasOpen(i)
  <2>1. trs'[i] \in {trs[i], Nil}
    BY <1>3 DEF Reactivate, TypeOK
  <2> QED
    BY <2>1 DEF Open, WasOpen
<1>4. ASSUME NEW k \in Clients, CancelTransition(k)
      PROVE  WasOpen(i)
  <2>1. trs'[i] = trs[i] \/ (trs[i] # Nil /\ trs'[i] = [trs[i] EXCEPT !.aborted = TRUE])
    BY <1>4 DEF CancelTransition, TypeOK
  <2>2. trs[i] # Nil => [trs[i] EXCEPT !.aborted = TRUE].aborted = TRUE
    BY DEF TypeOK, Transition
  <2> QED
    BY <2>1, <2>2 DEF Open, WasOpen
<1>5. ASSUME FinishTransition
      PROVE  WasOpen(i)
  <2>1. trs'[i] = trs[i] \/ (trs[i] # Nil /\ trs'[i] = [trs[i] EXCEPT !.finished = TRUE])
    BY <1>5 DEF FinishTransition, TypeOK
  <2>2. trs[i] # Nil => [trs[i] EXCEPT !.finished = TRUE].finished = TRUE
    BY DEF TypeOK, Transition
  <2> QED
    BY <2>1, <2>2 DEF Open, WasOpen
<1>6. ASSUME Fail
      PROVE  WasOpen(i)
  <2> DEFINE j == IF pc[Service] = "sweep" THEN ctx[Service].ctx.tr ELSE ctx[Service].tr
  <2>1. \/ trs' = [trs EXCEPT ![j].aborted = TRUE, ![j].finished = TRUE] /\ trs[j] # Nil
        \/ trs' = trs
    BY <1>6 DEF Fail
  <2> HIDE DEF j
  <2>2. \/ trs'[i] = trs[i]
        \/ trs[i] # Nil /\ trs'[i] = [trs[i] EXCEPT !.aborted = TRUE, !.finished = TRUE]
    BY <2>1 DEF TypeOK
  <2>3. trs[i] # Nil => [trs[i] EXCEPT !.aborted = TRUE, !.finished = TRUE].finished = TRUE
    BY DEF TypeOK, Transition
  <2> QED
    BY <2>2, <2>3 DEF Open, WasOpen
<1> QED
  BY <1>1, <1>2, <1>3, <1>4, <1>5, <1>6
  DEF Next, Request, vars, CountConfigs, CheckDelete, GetConfig, PutConfig, Remove,
      ListTransitions, InstantUpdate, Expire, SweepList, SweepPut, Crash,
      TakeTransition, Stop, ChangeConfig

(* A client that is about to create was about to, or has just seen that     *)
(* there is nothing like it.                                                *)
LEMMA WhoCreates ==
  ASSUME TypeOK, [Next]_vars, NEW k \in Clients, pc'[k] = "create"
  PROVE  \/ pc[k] = "create" /\ ctx'[k] = ctx[k]
         \/ /\ ctx'[k] = ctx[k] /\ ctx[k].action \in Names /\ trs' = trs
            /\ Pending(ctx[k].config, ctx[k].action) = {}
<1> USE ServiceAssumption
<1> /\ k \in Processes /\ Service \in Processes
    /\ DOMAIN pc = Processes /\ DOMAIN ctx = Processes
  BY DEF TypeOK, Processes
<1>1. CASE pc'[k] = pc[k] /\ ctx'[k] = ctx[k]
  BY <1>1
<1>2. ASSUME NEW p \in Processes, NEW label, NEW x, Await(p, label, x), label # "create"
      PROVE  pc'[k] = pc[k] /\ ctx'[k] = ctx[k]
  BY <1>2 DEF Await, TypeOK
<1>3. ASSUME NEW q \in Clients, ListTransitions(q)
      PROVE  \/ pc'[k] = pc[k] /\ ctx'[k] = ctx[k]
             \/ /\ ctx'[k] = ctx[k] /\ ctx[k].action \in Names /\ trs' = trs
                /\ Pending(ctx[k].config, ctx[k].action) = {}
  <2>1. q \in Processes
    BY DEF Processes
  <2>2. CASE ctx[q].action \in Names /\ Pending(ctx[q].config, ctx[q].action) = {}
             /\ Await(q, "create", ctx[q])
    <3>1. trs' = trs
      BY <1>3 DEF ListTransitions
    <3>2. ctx'[k] = ctx[k]
      BY <2>1, <2>2 DEF Await, TypeOK
    <3>3. CASE q = k
      BY <2>2, <3>1, <3>2, <3>3
    <3>4. CASE q # k
      BY <2>1, <2>2, <3>4 DEF Await, TypeOK
    <3> QED
      BY <3>3, <3>4
  <2>3. CASE \E label \in {"idle", "cancel", "expire", "reactivate"} : \E x : Await(q, label, x)
    BY <1>2, <2>1, <2>3
  <2> QED
    <3>1. \/ \E label \in {"idle"} : Await(q, label, Nil)
          \/ \E i \in Transitions : Await(q, "cancel", [config |-> ctx[q].config, tr |-> i])
          \/ /\ ctx[q].action \in Names /\ Pending(ctx[q].config, ctx[q].action) = {}
             /\ Await(q, "create", ctx[q])
          \/ \E label \in {"expire", "reactivate"} : Await(q, label, ctx[q])
      BY <1>3 DEF ListTransitions, Finish, Pending
    <3> QED
      BY <3>1, <2>2, <1>2, <2>1
<1>4. ASSUME NEW q \in Clients, Request(q), ~ListTransitions(q)
      PROVE  pc'[k] = pc[k] /\ ctx'[k] = ctx[k]
  <2>1. q \in Processes
    BY DEF Processes
  <2>2. ASSUME NEW c \in Configs, CountConfigs(q, c)
        PROVE  pc'[k] = pc[k] /\ ctx'[k] = ctx[k]
    BY <1>2, <2>1, <2>2 DEF CountConfigs
  <2>3. ASSUME NEW c \in Configs, CheckDelete(q, c)
        PROVE  pc'[k] = pc[k] /\ ctx'[k] = ctx[k]
    BY <1>2, <2>1, <2>3 DEF CheckDelete
  <2>4. ASSUME NEW c \in Configs, NEW action \in Asked, GetConfig(q, c, action)
        PROVE  pc'[k] = pc[k] /\ ctx'[k] = ctx[k]
    BY <1>2, <2>1, <2>4 DEF GetConfig
  <2>5. CASE CreateTransition(q)
    BY <1>2, <2>1, <2>5 DEF CreateTransition, Finish
  <2>6. CASE PutConfig(q) \/ Remove(q) \/ InstantUpdate(q) \/ Reactivate(q)
             \/ Expire(q) \/ CancelTransition(q)
    <3>1. Await(q, "idle", Nil)
      BY <2>6 DEF PutConfig, Remove, InstantUpdate, Reactivate, Expire,
                  CancelTransition, Finish
    <3> QED
      BY <1>2, <2>1, <3>1
  <2> QED
    BY <1>4, <2>2, <2>3, <2>4, <2>5, <2>6 DEF Request
<1>5. ASSUME NEW p \in Processes, SweepList(p) \/ SweepPut(p) \/ Crash(p)
      PROVE  pc'[k] = pc[k] /\ ctx'[k] = ctx[k]
  <2>1. \/ Await(p, "sweep", [ctx |-> ctx[p], rows |-> row])
        \/ Await(p, "idle", Nil)
    BY <1>5 DEF SweepList, SweepPut, Crash, Finish
  <2> QED
    BY <1>2, <2>1
<1>6. ASSUME TakeTransition \/ Stop \/ FinishTransition \/ ChangeConfig \/ Fail
      PROVE  pc'[k] = pc[k] /\ ctx'[k] = ctx[k]
  <2>1. \E label \in {"run", "idle", "config", "unused"} : \E x : Await(Service, label, x)
    BY <1>6 DEF TakeTransition, Stop, FinishTransition, ChangeConfig, Fail, Finish
  <2> QED
    BY <1>2, <2>1
<1>7. CASE UNCHANGED vars
  BY <1>7 DEF vars
<1> QED
  BY <1>1, <1>3, <1>4, <1>5, <1>6, <1>7 DEF Next

LEMMA CreatesFirstStep ==
  ASSUME TypeOK, CreatesFirst, [Next]_vars
  PROVE  CreatesFirst'
<1> SUFFICES ASSUME NEW k \in Clients, NEW i \in Transitions,
                    pc'[k] = "create", Open(i)', trs'[i].by = k,
                    trs'[i].config = ctx'[k].config, trs'[i].name = ctx'[k].action
             PROVE  FALSE
  BY DEF CreatesFirst, Open
<1> k \in Processes
  BY DEF Processes
<1>1. WasOpen(i)
  BY OpenStep DEF Creates
<1>2. CASE pc[k] = "create" /\ ctx'[k] = ctx[k]
  BY <1>1, <1>2 DEF WasOpen, CreatesFirst
<1>3. CASE /\ ctx'[k] = ctx[k]
           /\ Pending(ctx[k].config, ctx[k].action) = {}
  <2>1. i \in Pending(ctx[k].config, ctx[k].action)
    BY <1>1, <1>3 DEF WasOpen, Pending
  <2> QED
    BY <1>3, <2>1
<1> QED
  BY <1>2, <1>3, WhoCreates

LEMMA OnePerClientStep ==
  ASSUME TypeOK, CreatesFirst, OnePerClient, [Next]_vars
  PROVE  OnePerClient'
<1> SUFFICES ASSUME NEW i \in Transitions, NEW j \in Transitions,
                    Open(i)', Open(j)',
                    trs'[i].config = trs'[j].config, trs'[i].name = trs'[j].name,
                    trs'[i].by = trs'[j].by, i # j
             PROVE  FALSE
  BY DEF OnePerClient, Open
<1>1. CASE WasOpen(i) /\ WasOpen(j)
  BY <1>1 DEF WasOpen, OnePerClient
<1>2. ASSUME NEW k \in Clients, Creates(k, i)
      PROVE  FALSE
  <2>1. trs'[j] = trs[j]
    BY <1>2 DEF Creates
  <2>2. Open(j)
    BY <2>1 DEF Open
  <2>3. /\ pc[k] = "create" /\ trs[j].by = k
        /\ trs[j].config = ctx[k].config /\ trs[j].name = ctx[k].action
    BY <1>2, <2>1 DEF Creates
  <2> QED
    BY <2>2, <2>3 DEF CreatesFirst
<1>3. ASSUME NEW k \in Clients, Creates(k, j)
      PROVE  FALSE
  <2>1. trs'[i] = trs[i]
    BY <1>3 DEF Creates
  <2>2. Open(i)
    BY <2>1 DEF Open
  <2>3. /\ pc[k] = "create" /\ trs[i].by = k
        /\ trs[i].config = ctx[k].config /\ trs[i].name = ctx[k].action
    BY <1>3, <2>1 DEF Creates
  <2> QED
    BY <2>2, <2>3 DEF CreatesFirst
<1> QED
  BY <1>1, <1>2, <1>3, OpenStep

-----------------------------------------------------------------------------
LEMMA IInvInit ==
  ASSUME Init
  PROVE  IInv
BY MaxTransitionsAssumption
DEF Init, IInv, TypeOK, Rows, ContextOK, Labels, FreshIsExpired, CreatesFirst,
    OnePerClient, Open

LEMMA Inductive == Spec => []IInv
<1>1. IInv /\ [Next]_vars => IInv'
  BY TypeStep, FreshStep, CreatesFirstStep, OnePerClientStep DEF IInv
<1> QED
  BY <1>1, IInvInit, PTL DEF Spec

(* Types, in particular the name of a transition that is to be created      *)
(* (fsm-transition.js 454-466), for any number of clients.                  *)
THEOREM TypeCorrect == Spec => []TypeOK
<1>1. IInv => TypeOK
  BY DEF IInv
<1> QED
  BY <1>1, Inductive, PTL

(* No client has two transitions of a name pending for one configuration    *)
(* (fsm-transition.js 380-388), however many there are.                     *)
THEOREM OneTransitionPerClient == Spec => []OnePerClient
<1>1. IInv => OnePerClient
  BY DEF IInv
<1> QED
  BY <1>1, Inductive, PTL

(* With one request at a time there is one transition of a name pending, as *)
(* fsm-transition.js 380-388 says; TLC refutes it for two.                  *)
THEOREM NoTwinsAlone ==
  ASSUME \E k : Clients = {k}
  PROVE  Spec => []NoTwins
<1>1. IInv => NoTwins
  <2> SUFFICES ASSUME IInv, NEW i \in Transitions, NEW j \in Transitions,
                      Open(i), Open(j)
               PROVE  trs[i].by = trs[j].by
    BY DEF IInv, OnePerClient, NoTwins
  <2> QED
    BY DEF IInv, TypeOK, Open, Transition
<1> QED
  BY <1>1, Inductive, PTL

(* Nothing but a reactivation of an expired configuration takes its expiry  *)
(* back (fsm-transition.js 69-78), for any number of racing requests.       *)
THEOREM ExpiryIsFinal == Spec => ExpiredStays
<1> DEFINE Step(c) ==
      /\ Exists(c) /\ Exists(c)'
      /\ "expired" \in row[c] /\ "expired" \notin row'[c]
      => /\ State(row[c]) = "expired" /\ row'[c] = {"created"}
         /\ \A i \in Transitions : trs'[i] # Nil => trs'[i].config # c
<1>1. IInv /\ [Next]_vars => \A c \in Configs : Step(c)
  <2> SUFFICES ASSUME IInv, [Next]_vars, NEW c \in Configs
               PROVE  Step(c)
    OBVIOUS
  <2>1. RowStep(c)
    BY EveryRowStep DEF IInv
  <2> QED
    BY <2>1 DEF RowStep, Untouched, KeepsExpiry, Reset, IInv, FreshIsExpired
<1>2. IInv /\ [Next]_vars => [\A c \in Configs : Step(c)]_vars
  BY <1>1
<1> QED
  BY <1>2, Inductive, PTL DEF Spec, ExpiredStays
=============================================================================
