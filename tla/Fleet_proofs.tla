---------------------------- MODULE Fleet_proofs ----------------------------
(* The type invariant of Fleet, for any number of services, nodes, PIV      *)
(* tokens and transitions.  It is inductive as it stands; what the service  *)
(* does of itself is taken from the lemmas on Transitioner.                 *)
(*                                                                          *)
(* Then ConfigFollowsTokens, for one service: the transitions are carried   *)
(* out oldest first, what was fetched for one and what its tasks name is    *)
(* still the newest recovery token of every PIV token nobody else has       *)
(* touched, and a report on it leaves a mark that later ones do not remove. *)
EXTENDS Fleet, Transitioner_proofs, FiniteSetTheorems

TokenMarks == {"staged", "activated", "expired"}

Partial(S, T) == UNION {[D -> T] : D \in SUBSET S}

(* FleetTypeOK, part by part.                                               *)
ToksOK ==
  /\ toks \in [PivTokens -> Seq(SUBSET TokenMarks)]
  /\ \A g \in PivTokens : Len(toks[g]) <= MaxTokens

Views == [at : ViewStates, listed : SUBSET PivTokens, piv : Partial(Nodes, PivTokens),
          tok : Partial(PivTokens, 1 .. MaxTokens)]

ViewOK(v) == v \in Views /\ \A n \in DOMAIN v.piv : Cn[v.piv[n]] = n

ViewsOK == view \in [Services -> Views] /\ \A s \in Services : ViewOK(view[s])

Tasks == [piv : PivTokens, tok : 1 .. MaxTokens]

TasksOK ==
  /\ task \in [Transitions -> [Nodes -> Tasks \cup {Nil}]]
  /\ \A i \in Transitions, n \in Nodes : task[i][n] # Nil => Cn[task[i][n].piv] = n

LEMMA Parts ==
  FleetTypeOK <=>
    /\ TypeOK /\ ToksOK /\ ViewsOK /\ TasksOK
    /\ life \in [PivTokens -> {"new", "here", "gone"}]
    /\ req \in Requests \cup {Nil}
    /\ asked \in [Transitions -> SUBSET PivTokens]
    /\ steady \in [Transitions -> SUBSET PivTokens]
BY DEF FleetTypeOK, ToksOK, TokenMarks, ViewsOK, ViewOK, Views, Partial, TasksOK, Tasks

LEMMA PartsNext ==
  ASSUME TypeOK', ToksOK', ViewsOK', TasksOK',
         life' \in [PivTokens -> {"new", "here", "gone"}],
         req' \in Requests \cup {Nil},
         asked' \in [Transitions -> SUBSET PivTokens],
         steady' \in [Transitions -> SUBSET PivTokens]
  PROVE  FleetTypeOK'
BY DEF FleetTypeOK, ToksOK, TokenMarks, ViewsOK, ViewOK, Views, Partial, TasksOK, Tasks

LEMMA IsPartial ==
  ASSUME NEW S, NEW T, NEW D \in SUBSET S, NEW f \in [D -> T]
  PROVE  f \in Partial(S, T)
BY DEF Partial

LEMMA PartialType ==
  ASSUME NEW S, NEW T, NEW f \in Partial(S, T)
  PROVE  DOMAIN f \in SUBSET S /\ f \in [DOMAIN f -> T]
BY DEF Partial

-----------------------------------------------------------------------------
(* Recovery tokens *)

SomeTokens == Seq(SUBSET TokenMarks)

LEMMA WithNewType ==
  ASSUME NEW seq \in SomeTokens, NEW marks \in SUBSET {"staged", "activated"}
  PROVE  WithNew(seq, marks) \in SomeTokens /\ Len(WithNew(seq, marks)) = Len(seq) + 1
<1> DEFINE old == [k \in DOMAIN seq |-> IF seq[k] = {} THEN {"expired"} ELSE seq[k]]
<1>1. old \in SomeTokens /\ Len(old) = Len(seq)
  <2>1. DOMAIN seq = 1 .. Len(seq) /\ Len(seq) \in Nat
    BY DEF SomeTokens
  <2>2. \A k \in 1 .. Len(seq) : old[k] \in SUBSET TokenMarks
    BY <2>1 DEF SomeTokens, TokenMarks
  <2>. QED  BY <2>1, <2>2 DEF SomeTokens
<1>. QED  BY <1>1 DEF WithNew, SomeTokens, TokenMarks

LEMMA SetStagedType ==
  ASSUME NEW seq \in SomeTokens, NEW k
  PROVE  SetStaged(seq, k) \in SomeTokens /\ Len(SetStaged(seq, k)) = Len(seq)
<1>1. DOMAIN seq = 1 .. Len(seq) /\ Len(seq) \in Nat
  BY DEF SomeTokens
<1>2. \A j \in 1 .. Len(seq) : SetStaged(seq, k)[j] \in SUBSET TokenMarks
  BY <1>1 DEF SetStaged, SomeTokens, TokenMarks
<1>. QED  BY <1>1, <1>2 DEF SetStaged, SomeTokens

LEMMA SetActiveType ==
  ASSUME NEW seq \in SomeTokens
  PROVE  SetActive(seq) \in SomeTokens /\ Len(SetActive(seq)) = Len(seq)
<1>1. DOMAIN seq = 1 .. Len(seq) /\ Len(seq) \in Nat
  BY DEF SomeTokens
<1>2. \A j \in 1 .. Len(seq) : SetActive(seq)[j] \in SUBSET TokenMarks
  BY <1>1 DEF SetActive, SomeTokens, TokenMarks
<1>. QED  BY <1>1, <1>2 DEF SetActive, SomeTokens

LEMMA FirstTokens ==
  ASSUME NEW marks \in SUBSET {"staged", "activated"}
  PROVE  /\ <<>> \in SomeTokens /\ Len(<<>>) = 0
         /\ <<marks>> \in SomeTokens /\ Len(<<marks>>) = 1
<1>1. marks \in SUBSET TokenMarks
  BY DEF TokenMarks
<1>. QED  BY <1>1 DEF SomeTokens

(* One PIV token's recovery tokens change.                                  *)
LEMMA ToksChange ==
  ASSUME ToksOK, NEW g \in PivTokens, NEW seq \in SomeTokens, Len(seq) <= MaxTokens,
         toks' = [toks EXCEPT ![g] = seq]
  PROVE  ToksOK'
BY DEF ToksOK, SomeTokens

LEMMA MarksOfConfig ==
  ASSUME TypeOK, NEW c \in Configs
  PROVE  config[c] \in SUBSET {"staged", "activated"}
BY DEF TypeOK

-----------------------------------------------------------------------------
(* What services fetch *)

LEMMA ViewChange ==
  ASSUME ViewsOK, NEW s \in Services, NEW v, ViewOK(v), View(s, v)
  PROVE  ViewsOK'
BY DEF ViewsOK, View, ViewOK

LEMMA NoViewType == ViewOK(NoView) /\ ViewOK([NoView EXCEPT !.at = "pivtokens"])
<1>1. <<>> \in Partial(Nodes, PivTokens) /\ <<>> \in Partial(PivTokens, 1 .. MaxTokens)
  <2>1. \A T : <<>> \in [{} -> T]
    OBVIOUS
  <2>. QED  BY <2>1, IsPartial
<1>. QED  BY <1>1 DEF ViewOK, Views, NoView, ViewStates

LEMMA ListedType ==
  ASSUME NEW v, ViewOK(v)
  PROVE  v.listed \in SUBSET PivTokens
BY DEF ViewOK, Views

(* Only what the service has fetched, and which tokens it is to create.     *)
LEMMA ViewFrom ==
  ASSUME NEW v, ViewOK(v), NEW at \in ViewStates,
         NEW G \in SUBSET PivTokens, NEW tok \in [G -> 1 .. MaxTokens]
  PROVE  ViewOK([v EXCEPT !.at = at, !.tok = tok])
<1>1. tok \in Partial(PivTokens, 1 .. MaxTokens)
  BY IsPartial
<1>. QED  BY <1>1 DEF ViewOK, Views

-----------------------------------------------------------------------------
(* The steps, first those of nodes and requests *)

LEMMA FleetInitType == FleetInit => FleetTypeOK
<1> SUFFICES ASSUME FleetInit PROVE FleetTypeOK
  OBVIOUS
<1>1. TypeOK
  BY TypeOKInit DEF FleetInit
<1>2. ToksOK
  BY FleetAssumption DEF FleetInit, ToksOK
<1>3. ViewsOK
  BY NoViewType DEF FleetInit, ViewsOK, ViewOK
<1>4. TasksOK
  BY DEF FleetInit, TasksOK
<1>. QED  BY <1>1, <1>2, <1>3, <1>4, Parts DEF FleetInit

(* What leaves the variables of Transitioner alone keeps their types.       *)
LEMMA VarsKept ==
  ASSUME TypeOK, UNCHANGED vars
  PROVE  TypeOK'
BY TypeOKNext

LEMMA PivStep ==
  ASSUME FleetTypeOK, NEW g \in PivTokens, NEW c,
         (c \in Configs /\ (PivAppears(g, c) \/ TokenAdded(g, c))) \/ PivLeaves(g)
  PROVE  FleetTypeOK'
<1>0. /\ TypeOK /\ ToksOK /\ ViewsOK /\ TasksOK
      /\ life \in [PivTokens -> {"new", "here", "gone"}]
      /\ req \in Requests \cup {Nil}
      /\ asked \in [Transitions -> SUBSET PivTokens]
      /\ steady \in [Transitions -> SUBSET PivTokens]
  BY Parts
<1>1. /\ UNCHANGED vars /\ UNCHANGED <<req, asked, view, task>>
      /\ life' \in [PivTokens -> {"new", "here", "gone"}]
      /\ steady' \in [Transitions -> SUBSET PivTokens]
  BY <1>0 DEF PivAppears, TokenAdded, PivLeaves, Without
<1>2. c \in Configs => config[c] \in SUBSET {"staged", "activated"}
  BY <1>0, MarksOfConfig
<1>3. ToksOK'
  <2>1. CASE c \in Configs /\ PivAppears(g, c)
    <3>1. PICK first \in {<<>>, <<config[c]>>} : toks' = [toks EXCEPT ![g] = first]
      BY <2>1 DEF PivAppears
    <3>2. first \in SomeTokens /\ Len(first) <= MaxTokens
      <4>1. 0 <= MaxTokens /\ 1 <= MaxTokens
        BY FleetAssumption
      <4>. QED  BY <1>2, <2>1, <3>1, <4>1, FirstTokens
    <3>. QED  BY <1>0, <3>1, <3>2, ToksChange
  <2>2. CASE c \in Configs /\ TokenAdded(g, c)
    <3>1. toks[g] \in SomeTokens /\ Len(toks[g]) \in Nat
      BY <1>0 DEF ToksOK, SomeTokens
    <3>2. /\ WithNew(toks[g], config[c]) \in SomeTokens
          /\ Len(WithNew(toks[g], config[c])) = Len(toks[g]) + 1
      BY <1>2, <2>2, <3>1, WithNewType
    <3>3. /\ toks' = [toks EXCEPT ![g] = WithNew(toks[g], config[c])]
          /\ Len(toks[g]) < MaxTokens - 1
      BY <2>2, <1>0 DEF TokenAdded, ToksOK
    <3>4. Len(toks[g]) + 1 <= MaxTokens
      BY <3>1, <3>3, FleetAssumption
    <3>. QED  BY <1>0, <3>2, <3>3, <3>4, ToksChange
  <2>3. CASE PivLeaves(g)
    <3>1. toks' = [toks EXCEPT ![g] = <<>>]
      BY <2>3 DEF PivLeaves
    <3>2. <<>> \in SomeTokens /\ Len(<<>>) = 0
      BY FirstTokens
    <3>3. 0 <= MaxTokens
      BY FleetAssumption
    <3>. QED  BY <1>0, <3>1, <3>2, <3>3, ToksChange
  <2>. QED  BY <2>1, <2>2, <2>3
<1>4. ViewsOK' /\ TasksOK'
  BY <1>0, <1>1 DEF ViewsOK, ViewOK, TasksOK
<1>5. TypeOK' /\ req' \in Requests \cup {Nil}
  BY <1>0, <1>1, VarsKept
<1>. QED  BY <1>0, <1>1, <1>3, <1>4, <1>5, PartsNext

LEMMA AskStep ==
  ASSUME FleetTypeOK, NEW c \in Configs, NEW name \in Names,
         NEW node \in Nodes \cup {Nil}, NEW forced \in BOOLEAN,
         Ask(c, name, node, forced)
  PROVE  FleetTypeOK'
<1>1. TypeOK'
  BY VarsKept DEF Ask, FleetTypeOK
<1>2. req' \in Requests
  BY DEF Ask, Requests
<1>3. UNCHANGED <<life, toks, asked, view, task, steady>>
  BY DEF Ask
<1>. QED  BY <1>1, <1>2, <1>3 DEF FleetTypeOK

LEMMA CreateStep ==
  ASSUME FleetTypeOK, NEW i \in Transitions, CreateTransition(i)
  PROVE  FleetTypeOK'
<1> DEFINE targets(some) == IF req.node = Nil THEN {Cn[g] : g \in some} ELSE {req.node}
<1>0. req \in Requests
  BY DEF CreateTransition, FleetTypeOK
<1>1. PICK some \in IF req.node = Nil THEN Listed(Here) ELSE {{}} :
        /\ asked' = [asked EXCEPT ![i] = some]
        /\ steady' = [steady EXCEPT ![i] = Concerned(req.name, targets(some))]
        /\ trs' = [trs EXCEPT ![i] =
                    [config |-> req.config, name |-> req.name, targets |-> targets(some),
                     standalone |-> req.node # Nil, started |-> targets(some) = {},
                     finished |-> targets(some) = {}, aborted |-> FALSE,
                     completed |-> {}, errs |-> {}, lockedBy |-> Nil]]
        /\ req' = IF targets(some) = {} THEN [req EXCEPT !.update = TRUE] ELSE Nil
  BY DEF CreateTransition
<1>2. some \in SUBSET PivTokens /\ targets(some) \in SUBSET Nodes
  BY <1>0, FleetAssumption DEF Listed, Here, Requests
<1> HIDE DEF targets
<1>3. [config |-> req.config, name |-> req.name, targets |-> targets(some),
       standalone |-> req.node # Nil, started |-> targets(some) = {},
       finished |-> targets(some) = {}, aborted |-> FALSE,
       completed |-> {}, errs |-> {}, lockedBy |-> Nil] \in Row
  BY <1>0, <1>2 DEF Row, Requests
<1>4. TypeOK'
  <2>1. /\ trs' \in [Transitions -> Row \cup {Nil}]
        /\ \A j \in Transitions : trs[j] # Nil => trs'[j] # Nil
    BY <1>1, <1>3, NilAssumption DEF FleetTypeOK, TypeOK
  <2>2. UNCHANGED <<etag, config, agent, cancelling, pc, curr, ctx, crashes, faults, late>>
    BY DEF CreateTransition
  <2>3. TypeOK
    BY DEF FleetTypeOK
  <2>. QED  BY <2>1, <2>2, <2>3 DEF TypeOK, Running, Context
<1>5. req' \in Requests \cup {Nil}
  BY <1>0, <1>1 DEF Requests
<1>6. asked' \in [Transitions -> SUBSET PivTokens] /\ steady' \in [Transitions -> SUBSET PivTokens]
  BY <1>1, <1>2 DEF FleetTypeOK, Concerned, Here
<1>. QED  BY <1>4, <1>5, <1>6 DEF FleetTypeOK, CreateTransition

LEMMA UpdateStep ==
  ASSUME FleetTypeOK, UpdateWithoutTargets
  PROVE  FleetTypeOK'
<1>1. config' \in [Configs -> SUBSET {"staged", "activated"}]
  BY DEF UpdateWithoutTargets, InstantEffect, FleetTypeOK, TypeOK, Requests
<1>2. TypeOK'
  BY <1>1 DEF UpdateWithoutTargets, FleetTypeOK, TypeOK, Running, Context
<1>. QED  BY <1>2 DEF UpdateWithoutTargets, FleetTypeOK

LEMMA AgentStep ==
  ASSUME FleetTypeOK, NEW i \in Transitions, NEW n \in Nodes, AgentReports(i, n)
  PROVE  FleetTypeOK'
<1> DEFINE g == task[i][n].piv
<1>1. TypeOK'
  BY TypeOKAgentDoes DEF AgentReports, FleetTypeOK
<1>2. g \in PivTokens /\ ToksOK /\ task[i][n] # Nil
  BY Parts DEF AgentReports, TasksOK, Tasks
<1>3. toks[g] \in SomeTokens /\ Len(toks[g]) <= MaxTokens
  BY <1>2 DEF ToksOK, SomeTokens
<1>4. PICK seq \in {toks[g], SetStaged(toks[g], task[i][n].tok), SetActive(toks[g])} :
        toks' = [toks EXCEPT ![g] = seq]
  BY <1>2 DEF AgentReports
<1>5. seq \in SomeTokens /\ Len(seq) <= MaxTokens
  BY <1>3, <1>4, SetStagedType, SetActiveType
<1>6. ToksOK'
  BY <1>2, <1>4, <1>5, ToksChange
<1>. QED  BY <1>1, <1>6 DEF AgentReports, FleetTypeOK, ToksOK, TokenMarks

-----------------------------------------------------------------------------
(* The steps of a service *)

LEMMA ServiceType ==
  ASSUME FleetTypeOK, NEW s \in Services
  PROVE  /\ TypeOK /\ ToksOK /\ ViewsOK /\ TasksOK
         /\ view[s] \in Views /\ ViewOK(view[s])
         /\ Running(s) => ctx[s] \in Context
BY Parts DEF ViewsOK, TypeOK

LEMMA ListStep ==
  ASSUME FleetTypeOK, NEW s \in Services, FleetList(s)
  PROVE  FleetTypeOK'
<1>1. TypeOK'
  BY TypeOKStep DEF FleetList, Step, FleetTypeOK
<1>2. ViewsOK'
  BY ServiceType, NoViewType, ViewChange DEF FleetList
<1>. QED  BY <1>1, <1>2, Parts, PartsNext DEF FleetList, ToksOK, TasksOK

LEMMA FetchPivTokensStep ==
  ASSUME FleetTypeOK, NEW s \in Services, FetchPivTokens(s)
  PROVE  FleetTypeOK'
<1>1. TypeOK'
  BY VarsKept DEF FetchPivTokens, FleetTypeOK
<1>a. PICK some \in Listed(PivsAt(ctx[s].pending)) : \E piv \in ByCn(some) :
        View(s, [at |-> "tokens", listed |-> some, piv |-> piv, tok |-> <<>>])
  BY DEF FetchPivTokens
<1>2. PICK piv \in ByCn(some) :
        View(s, [at |-> "tokens", listed |-> some, piv |-> piv, tok |-> <<>>])
  BY <1>a
<1> DEFINE v == [at |-> "tokens", listed |-> some, piv |-> piv, tok |-> <<>>]
<1>3. some \in SUBSET PivTokens
  BY DEF Listed, PivsAt, Here
<1>4. /\ DOMAIN piv \in SUBSET Nodes /\ piv \in [DOMAIN piv -> PivTokens]
      /\ \A n \in DOMAIN piv : Cn[piv[n]] = n
  BY <1>3, FleetAssumption DEF ByCn
<1>5. piv \in Partial(Nodes, PivTokens)
  BY <1>4, IsPartial
<1>6. ViewOK(v)
  <2>1. <<>> \in Partial(PivTokens, 1 .. MaxTokens)
    BY NoViewType DEF ViewOK, Views, NoView
  <2>2. v \in Views
    BY <1>3, <1>5, <2>1 DEF Views, ViewStates
  <2>. QED  BY <1>4, <2>2 DEF ViewOK
<1>7. ViewsOK'
  BY <1>2, <1>6, ServiceType, ViewChange
<1>. QED  BY <1>1, <1>7, Parts, PartsNext DEF FetchPivTokens, ToksOK, TasksOK

(* Of each PIV token as many recovery tokens are shown as it has, or fewer. *)
LEMMA ShownTokens ==
  ASSUME ToksOK, NEW S \in SUBSET PivTokens, NEW shown \in ListedTokens(S)
  PROVE  /\ DOMAIN shown = S
         /\ \A g \in S : /\ shown[g] \in 0 .. MaxTokens /\ Len(toks[g]) \in Nat
                         /\ shown[g] <= Len(toks[g])
         /\ [g \in {h \in S : shown[h] > 0} |-> shown[g]] \in
              [{h \in S : shown[h] > 0} -> 1 .. MaxTokens]
<1>1. shown \in [S -> 0 .. MaxTokens] /\ \A g \in S : shown[g] <= Len(toks[g])
  BY DEF ListedTokens
<1>2. \A g \in {h \in S : shown[h] > 0} : shown[g] \in 1 .. MaxTokens
  BY <1>1, FleetAssumption
<1>. QED  BY <1>1, <1>2 DEF ToksOK

(* What a service knows after it has listed recovery tokens.                *)
LEMMA FetchedShown ==
  ASSUME FleetTypeOK, NEW s \in Services, FetchTokens(s), pc'[s] # "abort"
  PROVE  \E shown \in ListedTokens(view[s].listed), at \in {"ready", "create"} :
           /\ View(s, [view[s] EXCEPT
                        !.at = at,
                        !.tok = [g \in {h \in view[s].listed : shown[h] > 0} |-> shown[g]]])
           /\ steady' = Without({g \in view[s].listed : shown[g] < Len(toks[g])})
BY DEF FetchTokens, Goto, FleetTypeOK, TypeOK

LEMMA FetchTokensStep ==
  ASSUME FleetTypeOK, NEW s \in Services, FetchTokens(s)
  PROVE  FleetTypeOK'
<1>0. TypeOK /\ ToksOK /\ ViewsOK /\ ViewOK(view[s]) /\ view[s].listed \in SUBSET PivTokens
  BY ServiceType, ListedType
<1>1. TypeOK'
  <2>1. /\ pc' = pc \/ pc' = [pc EXCEPT ![s] = "abort"]
        /\ UNCHANGED <<trs, etag, config, agent, cancelling, curr, ctx, crashes, faults, late>>
    BY DEF FetchTokens, Goto
  <2>. QED  BY <1>0, <2>1 DEF TypeOK, Running, Labels, Context
<1>2. PICK v : View(s, v) /\ ViewOK(v)
  <2>1. CASE View(s, NoView)
    BY <2>1, NoViewType
  <2>2. CASE ~View(s, NoView)
    <3>a. PICK shown \in ListedTokens(view[s].listed) :
            View(s, [view[s] EXCEPT
                      !.at = IF Cardinality(Oldest(shown)) = CountOf(ctx[s].tr, ctx[s].pending)
                             THEN "ready" ELSE "create",
                      !.tok = [g \in {h \in view[s].listed : shown[h] > 0} |-> shown[g]]])
      BY <2>2 DEF FetchTokens
    <3> DEFINE at == IF Cardinality(Oldest(shown)) = CountOf(ctx[s].tr, ctx[s].pending)
                     THEN "ready" ELSE "create"
               G == {h \in view[s].listed : shown[h] > 0}
               tok == [g \in G |-> shown[g]]
    <3>1. G \in SUBSET PivTokens /\ at \in ViewStates /\ tok \in [G -> 1 .. MaxTokens]
      BY <1>0, ShownTokens DEF ViewStates
    <3>2. View(s, [view[s] EXCEPT !.at = at, !.tok = tok])
      BY <3>a
    <3> HIDE DEF tok, G, at
    <3>3. ViewOK([view[s] EXCEPT !.at = at, !.tok = tok])
      BY <1>0, <3>1, ViewFrom
    <3>. QED  BY <3>2, <3>3
  <2>. QED  BY <2>1, <2>2
<1>3. ViewsOK'
  BY <1>0, <1>2, ViewChange
<1>4. steady' \in [Transitions -> SUBSET PivTokens]
  <2>1. PICK G : steady' = steady \/ steady' = Without(G)
    BY DEF FetchTokens
  <2>2. steady \in [Transitions -> SUBSET PivTokens]
    BY DEF FleetTypeOK
  <2>. QED  BY <2>1, <2>2 DEF Without
<1>. QED  BY <1>1, <1>3, <1>4, Parts, PartsNext DEF FetchTokens, ToksOK, TasksOK

LEMMA CreateTokensStep ==
  ASSUME FleetTypeOK, NEW s \in Services, CreateTokens(s)
  PROVE  FleetTypeOK'
<1> DEFINE missing == Missing(view[s])
           marks == config[trs[ctx[s].tr].config]
           old == view[s].tok
           tok == [g \in missing \cup DOMAIN old |->
                     IF g \in missing THEN Len(toks[g]) + 1 ELSE old[g]]
           v == [view[s] EXCEPT !.at = "ready", !.tok = tok]
<1>0. TypeOK /\ ToksOK /\ ViewsOK /\ ViewOK(view[s])
  BY ServiceType
<1>1. TypeOK'
  BY <1>0, VarsKept DEF CreateTokens
<1>2. /\ View(s, v) /\ \A g \in missing : Len(toks[g]) < MaxTokens
      /\ toks' = [g \in PivTokens |-> IF g \in missing THEN WithNew(toks[g], marks)
                                      ELSE toks[g]]
      /\ pc[s] = "lock"
  BY DEF CreateTokens
<1>3. marks \in SUBSET {"staged", "activated"}
  <2>1. trs[ctx[s].tr] \in Row
    BY <1>0, <1>2 DEF TypeOK, Running, Labels, Context
  <2>. QED  BY <1>0, <2>1, MarksOfConfig DEF Row
<1>4. missing \in SUBSET PivTokens
  BY <1>0, ListedType DEF Missing
<1>5. \A g \in PivTokens : /\ toks[g] \in SomeTokens /\ Len(toks[g]) \in Nat
                          /\ Len(toks[g]) <= MaxTokens
  BY <1>0 DEF ToksOK, SomeTokens
<1>6. ToksOK'
  <2> HIDE DEF missing, marks
  <2>1. ASSUME NEW g \in missing
        PROVE  /\ WithNew(toks[g], marks) \in SomeTokens
               /\ Len(WithNew(toks[g], marks)) <= MaxTokens
    <3>1. /\ WithNew(toks[g], marks) \in SomeTokens
          /\ Len(WithNew(toks[g], marks)) = Len(toks[g]) + 1
      BY <1>3, <1>4, <1>5, WithNewType
    <3>. QED  BY <1>2, <1>4, <1>5, <3>1, FleetAssumption
  <2>. QED  BY <1>2, <1>5, <2>1 DEF ToksOK, SomeTokens
<1>7. ViewOK(v)
  <2>1. DOMAIN old \in SUBSET PivTokens /\ old \in [DOMAIN old -> 1 .. MaxTokens]
    BY <1>0, PartialType DEF ViewOK, Views
  <2>2. tok \in [missing \cup DOMAIN old -> 1 .. MaxTokens]
    <3>1. \A g \in missing : Len(toks[g]) + 1 \in 1 .. MaxTokens
      BY <1>2, <1>4, <1>5, FleetAssumption
    <3> HIDE DEF missing
    <3>. QED  BY <2>1, <3>1
  <2>3. missing \cup DOMAIN old \in SUBSET PivTokens /\ "ready" \in ViewStates
    BY <1>4, <2>1 DEF ViewStates
  <2> HIDE DEF tok, missing, old
  <2>. QED  BY <1>0, <2>2, <2>3, ViewFrom
<1>8. ViewsOK'
  <2> HIDE DEF v
  <2>. QED  BY <1>0, <1>2, <1>7, ViewChange
<1>. QED  BY <1>1, <1>6, <1>8, Parts, PartsNext DEF CreateTokens, TasksOK

(* A batch gives the nodes of prepared PIV tokens only.                     *)
LEMMA BatchStep ==
  ASSUME FleetTypeOK, NEW s \in Services, FleetBatch(s)
  PROVE  FleetTypeOK'
<1> DEFINE i == ctx[s].tr
           t(n) == [piv |-> view[s].piv[n], tok |-> view[s].tok[view[s].piv[n]]]
<1>0. TypeOK /\ ToksOK /\ ViewsOK /\ TasksOK /\ ViewOK(view[s])
  BY ServiceType
<1>1. TypeOK'
  BY <1>0, TypeOKStep DEF FleetBatch, Step
<1>2. ctx[s] \in Context /\ i \in Transitions
  BY <1>0 DEF FleetBatch, StartBatch, TypeOK, Running, Labels, Context
<1>3. PICK batch \in SUBSET ctx[s].pending : \E given \in SUBSET batch :
        /\ agent' = [agent EXCEPT ![i] =
                      [n \in Nodes |-> IF n \in given /\ @[n] = "none"
                                       THEN "given" ELSE @[n]]]
        /\ ctx' = [ctx EXCEPT ![s] = [ctx[s] EXCEPT !.batch = batch, !.pending = @ \ batch]]
  BY DEF FleetBatch, StartBatch, NewCtx
<1>4. ctx'[s].batch = batch
  BY <1>0, <1>2, <1>3 DEF TypeOK, Context
<1>5. PICK again \in SUBSET batch :
        task' = [task EXCEPT ![i] = [n \in Nodes |->
                   IF n \in again \/ agent[i][n] # agent'[i][n] THEN t(n) ELSE @[n]]]
  BY <1>4 DEF FleetBatch
<1>6. \A n \in batch : Prepared(s, n)
  BY <1>4 DEF FleetBatch
<1>7. \A n \in Nodes : agent[i][n] # agent'[i][n] => n \in batch
  BY <1>0, <1>2, <1>3 DEF TypeOK
<1>8. \A n \in batch : t(n) \in Tasks /\ Cn[t(n).piv] = n
  <2>1. /\ view[s].piv \in [DOMAIN view[s].piv -> PivTokens]
        /\ view[s].tok \in [DOMAIN view[s].tok -> 1 .. MaxTokens]
    BY <1>0, PartialType DEF ViewOK, Views
  <2>. QED  BY <1>0, <1>6, <2>1 DEF Prepared, ViewOK, Tasks
<1>9. TasksOK'
  <2> HIDE DEF t, i
  <2>. QED  BY <1>0, <1>2, <1>5, <1>7, <1>8 DEF TasksOK
<1>. QED  BY <1>1, <1>9, Parts, PartsNext DEF FleetBatch, ToksOK, ViewsOK, ViewOK

(* The steps that are those of Transitioner and nothing else.               *)
LEMMA PlainStep ==
  ASSUME FleetTypeOK, NEW s \in Services, Step(s) \/ Crash(s), UNCHANGED fleetVars
  PROVE  FleetTypeOK'
<1>1. TypeOK'
  BY TypeOKStep DEF FleetTypeOK
<1>. QED  BY <1>1 DEF fleetVars, FleetTypeOK

LEMMA FleetServiceStep ==
  ASSUME FleetTypeOK, NEW s \in Services, FleetStep(s)
  PROVE  FleetTypeOK'
<1>1. CASE FleetLock(s) \/ Throw(s)
  BY <1>1, PlainStep DEF FleetLock, Throw, Step
<1>2. CASE /\ \/ BatchEnds(s) \/ RecordBatch(s) \/ CompleteGet(s) \/ CompletePut(s)
              \/ ChangeConfig(s) \/ ExpireUnused(s) \/ AbortGet(s) \/ AbortPut(s)
           /\ UNCHANGED fleetVars
  BY <1>2, PlainStep DEF Step
<1>. QED  BY <1>1, <1>2, ListStep, FetchPivTokensStep, FetchTokensStep, CreateTokensStep,
             BatchStep DEF FleetStep

-----------------------------------------------------------------------------
LEMMA FleetTypeNext == FleetTypeOK /\ [FleetNext]_<<vars, fleetVars>> => FleetTypeOK'
<1> SUFFICES ASSUME FleetTypeOK, [FleetNext]_<<vars, fleetVars>>
             PROVE  FleetTypeOK'
  OBVIOUS
<1>1. CASE UNCHANGED <<vars, fleetVars>>
  BY <1>1, VarsKept DEF fleetVars, FleetTypeOK
<1>2. CASE FleetNext
  <2>1. ASSUME NEW g \in PivTokens, NEW c \in Configs, PivAppears(g, c) \/ TokenAdded(g, c)
        PROVE  FleetTypeOK'
    BY <2>1, PivStep
  <2>2. ASSUME NEW g \in PivTokens, PivLeaves(g) PROVE FleetTypeOK'
    BY <2>2, PivStep
  <2>3. ASSUME NEW c \in Configs, NEW name \in Names, NEW node \in Nodes \cup {Nil},
               NEW forced \in BOOLEAN, Ask(c, name, node, forced)
        PROVE  FleetTypeOK'
    BY <2>3, AskStep
  <2>4. ASSUME NEW i \in Transitions, CreateTransition(i) PROVE FleetTypeOK'
    BY <2>4, CreateStep
  <2>5. ASSUME NEW i \in Transitions, NEW n \in Nodes, AgentReports(i, n)
        PROVE  FleetTypeOK'
    BY <2>5, AgentStep
  <2>6. ASSUME NEW s \in Services, FleetStep(s) PROVE FleetTypeOK'
    BY <2>6, FleetServiceStep
  <2>. QED  BY <1>2, <2>1, <2>2, <2>3, <2>4, <2>5, <2>6, UpdateStep DEF FleetNext
<1>. QED  BY <1>1, <1>2

(* FleetTypeOK, for any number of services, nodes, PIV tokens and           *)
(* transitions (transitioner.js 376-517, 655-680): every task names a PIV   *)
(* token of its node and a recovery token which that PIV token had.         *)
THEOREM FleetTypeCorrect == FleetSpec => []FleetTypeOK
BY FleetInitType, FleetTypeNext, PTL DEF FleetSpec

-----------------------------------------------------------------------------
(* The configuration follows the recovery tokens *)

(* Some agent has had a task of transition i.                               *)
Begun(i) == \E n \in Nodes : agent[i][n] # "none"

NotOvertaken(i) == \A j \in Transitions : i < j => ~Begun(j)

Working(s) ==
  pc[s] \in {"lock", "batch", "tasks", "record", "complete", "finish", "config"}

(* Transitions are carried out in the order of their creation, and a name   *)
(* is not pending twice.                                                    *)
RowsInv ==
  /\ \A i, j \in Transitions : j < i /\ trs[i] # Nil =>
       trs[j] # Nil /\ (Open(j) => trs[j].name # trs[i].name)
  /\ \A i \in Transitions : trs[i] = Nil => steady[i] = {} /\ ~Begun(i)
  /\ \A i, j \in Transitions : i < j /\ Begun(j) => ~Open(i)
  /\ req # Nil /\ ~req.update => \A i \in Transitions : Open(i) => trs[i].name # req.name

WorkInv(s) ==
  Working(s) =>
    /\ \A i \in Transitions : i < ctx[s].tr => ~Open(i)
    /\ NotOvertaken(ctx[s].tr)
    /\ pc[s] # "config" => Open(ctx[s].tr)

(* A transition targets the node of each PIV token that it is about, which  *)
(* is the only one of that node.                                            *)
PivsInv ==
  /\ \A i \in Transitions : steady[i] \subseteq Here
  /\ \A i \in Transitions : \A g \in steady[i], h \in Here : Cn[h] = Cn[g] => h = g
  /\ \A i \in Transitions : \A g \in steady[i] : Cn[g] \in trs[i].targets
  /\ req # Nil /\ req.update => \A i \in Transitions : steady[i] = {}

(* What a service has fetched is still so, for the PIV tokens that nobody   *)
(* else has touched.                                                        *)
FetchedInv(s) ==
  LET k == ctx[s].tr
      v == view[s]
  IN /\ pc[s] = "lock" /\ v.at = "create" =>
          \A i \in Transitions, g \in Missing(v) :
            i <= k /\ g \in steady[i] => Len(toks[g]) = 0
     /\ pc[s] \in {"lock", "batch", "tasks", "record"} =>
          \A g \in DOMAIN v.tok : g \in steady[k] => v.tok[g] = Len(toks[g])

(* A task names the newest recovery token, and no older one to stage is     *)
(* around.                                                                  *)
TaskInv(i) ==
  /\ \A n \in Nodes : agent[i][n] = "none" => task[i][n] = Nil
  /\ \A n \in Nodes : task[i][n] # Nil /\ task[i][n].piv \in steady[i] =>
       task[i][n].tok = Len(toks[task[i][n].piv])
  /\ \A j \in Transitions, g \in steady[i] :
       j < i /\ trs[i].name = "stage" /\ agent[j][Cn[g]] = "given" => trs[j].name # "stage"

(* A recovery token that is staged and active.                              *)
Both(seq) ==
  \E k \in DOMAIN seq : {"staged", "activated"} \subseteq seq[k] /\ "expired" \notin seq[k]

Stageable(seq) ==
  \/ seq = <<>>
  \/ "expired" \notin seq[Len(seq)]
  \/ Both(seq)

MarkInv(i, g) ==
  g \in steady[i] =>
    /\ trs[i].name = "stage" /\ NotOvertaken(i) =>
         /\ Stageable(toks[g])
         /\ agent[i][Cn[g]] = "done" => Marked(g, "staged")
    /\ trs[i].name = "activate" /\ agent[i][Cn[g]] = "done" => Marked(g, "activated")

FollowInv ==
  /\ RowsInv /\ PivsInv
  /\ \A s \in Services : WorkInv(s) /\ FetchedInv(s)
  /\ \A i \in Transitions : TaskInv(i) /\ \A g \in PivTokens : MarkInv(i, g)

-----------------------------------------------------------------------------
(* What becomes of marks *)

Has(seq, mark) ==
  \E k \in DOMAIN seq : mark \in seq[k] /\ "expired" \notin seq[k]

LEMMA MarkedHas == \A g, mark : Marked(g, mark) <=> Has(toks[g], mark)
BY DEF Marked, Has

LEMMA BothHas ==
  ASSUME NEW seq, Both(seq)
  PROVE  Has(seq, "staged") /\ Has(seq, "activated") /\ Stageable(seq)
BY DEF Both, Has, Stageable

(* A new token takes no mark from an older one, and has not expired.        *)
LEMMA WithNewMarks ==
  ASSUME NEW seq \in SomeTokens, NEW marks \in SUBSET {"staged", "activated"}
  PROVE  /\ Stageable(WithNew(seq, marks))
         /\ \A mark \in {"staged", "activated"} :
              Has(seq, mark) => Has(WithNew(seq, marks), mark)
<1> DEFINE old == [k \in DOMAIN seq |-> IF seq[k] = {} THEN {"expired"} ELSE seq[k]]
           new == WithNew(seq, marks)
<1>1. DOMAIN seq = 1 .. Len(seq) /\ Len(seq) \in Nat
  BY DEF SomeTokens
<1>2. old \in Seq(SUBSET TokenMarks) /\ Len(old) = Len(seq)
  <2>1. \A k \in 1 .. Len(seq) : old[k] \in SUBSET TokenMarks
    BY <1>1 DEF SomeTokens, TokenMarks
  <2>. QED  BY <1>1, <2>1
<1>3. marks \in SUBSET TokenMarks
  BY DEF TokenMarks
<1>4. /\ new = Append(old, marks)
      /\ Len(new) = Len(seq) + 1 /\ new[Len(new)] = marks
      /\ DOMAIN new = 1 .. Len(seq) + 1
      /\ \A k \in 1 .. Len(seq) : new[k] = old[k]
  <2> HIDE DEF old
  <2>. QED  BY <1>1, <1>2, <1>3 DEF WithNew, old
<1>5. Stageable(new)
  BY <1>4 DEF Stageable
<1>6. ASSUME NEW mark \in {"staged", "activated"}, Has(seq, mark) PROVE Has(new, mark)
  <2>1. PICK k \in 1 .. Len(seq) : mark \in seq[k] /\ "expired" \notin seq[k]
    BY <1>1, <1>6 DEF Has
  <2>2. new[k] = seq[k] /\ k \in DOMAIN new
    BY <1>1, <1>4, <2>1
  <2>. QED  BY <2>1, <2>2 DEF Has
<1>. QED  BY <1>5, <1>6

(* Staging expires no active token, and stages the newest one, unless       *)
(* another one is active already.                                           *)
LEMMA SetStagedMarks ==
  ASSUME NEW seq \in SomeTokens, NEW k
  PROVE  /\ Has(seq, "activated") => Has(SetStaged(seq, k), "activated")
         /\ Both(seq) => Both(SetStaged(seq, k))
         /\ k = Len(seq) /\ k # 0 /\ Stageable(seq) =>
              Stageable(SetStaged(seq, k)) /\ Has(SetStaged(seq, k), "staged")
<1> DEFINE new == SetStaged(seq, k)
<1>1. /\ DOMAIN seq = 1 .. Len(seq) /\ Len(seq) \in Nat /\ DOMAIN new = DOMAIN seq
      /\ Len(new) = Len(seq)
  BY SetStagedType DEF SomeTokens, SetStaged
<1>2. ASSUME NEW j \in DOMAIN seq, "activated" \in seq[j], "expired" \notin seq[j]
      PROVE  seq[j] \subseteq new[j] /\ "expired" \notin new[j]
  BY <1>2 DEF SetStaged
<1>3. Has(seq, "activated") => Has(new, "activated")
  <2> SUFFICES ASSUME Has(seq, "activated") PROVE Has(new, "activated")
    OBVIOUS
  <2>1. PICK j \in DOMAIN seq : "activated" \in seq[j] /\ "expired" \notin seq[j]
    BY DEF Has
  <2>. QED  BY <1>1, <1>2, <2>1 DEF Has
<1>4. Both(seq) => Both(new)
  <2> SUFFICES ASSUME Both(seq) PROVE Both(new)
    OBVIOUS
  <2>1. PICK j \in DOMAIN seq : {"staged", "activated"} \subseteq seq[j] /\ "expired" \notin seq[j]
    BY DEF Both
  <2>2. seq[j] \subseteq new[j] /\ "expired" \notin new[j]
    BY <1>2, <2>1
  <2>. QED  BY <1>1, <2>1, <2>2 DEF Both
<1>5. ASSUME k = Len(seq), k # 0, Stageable(seq)
      PROVE  Stageable(new) /\ Has(new, "staged")
  <2>1. CASE Both(seq)
    BY <1>4, <2>1, BothHas
  <2>2. CASE "expired" \notin seq[k]
    <3>1. k \in DOMAIN seq
      BY <1>1, <1>5
    <3>2. "staged" \in new[k] /\ "expired" \notin new[k]
      BY <2>2, <3>1 DEF SetStaged
    <3>. QED  BY <1>1, <1>5, <3>1, <3>2 DEF Stageable, Has
  <2>3. CASE seq = <<>>
    BY <1>5, <2>3
  <2>. QED  BY <1>5, <2>1, <2>2, <2>3 DEF Stageable
<1>. QED  BY <1>3, <1>4, <1>5

(* Activating the one token that is staged leaves it staged and active.     *)
LEMMA SetActiveMarks ==
  ASSUME NEW seq \in SomeTokens, Cardinality(Candidates(seq)) = 1
  PROVE  Both(SetActive(seq))
<1>1. Candidates(seq) # {}
  BY FS_EmptySet
<1>2. PICK k \in DOMAIN seq : seq[k] = {"staged"}
  BY <1>1 DEF Candidates
<1>3. k \in DOMAIN SetActive(seq) /\ SetActive(seq)[k] = {"staged", "activated"}
  BY <1>2 DEF SetActive, Candidates
<1>. QED  BY <1>3 DEF Both

-----------------------------------------------------------------------------
(* What the steps do to the rows *)

(* No row is created, none is opened again, and what was asked for stays.   *)
RowsKept ==
  \A i \in Transitions :
    /\ trs[i] = Nil => trs'[i] = Nil
    /\ trs[i] # Nil =>
         /\ trs'[i] # Nil
         /\ trs'[i].name = trs[i].name /\ trs'[i].targets = trs[i].targets
         /\ trs'[i].standalone = trs[i].standalone
    /\ Open(i)' => Open(i)

LEMMA RowsStay ==
  ASSUME UNCHANGED trs
  PROVE  RowsKept
BY DEF RowsKept, Open

LEMMA ServiceRows ==
  ASSUME TypeOK, Progress, NEW s \in Services, Step(s) \/ Crash(s)
  PROVE  RowsKept
<1>1. ASSUME NEW i \in Transitions, trs[i] # Nil
      PROVE  /\ trs'[i] # Nil
             /\ trs'[i].name = trs[i].name /\ trs'[i].targets = trs[i].targets
             /\ trs'[i].standalone = trs[i].standalone
             /\ Open(i)' => Open(i)
  <2>1. trs[i] \in Row /\ RowStep(i)
    BY <1>1, RowSteps DEF TypeOK, Next
  <2>2. trs'[i] \in Row
    BY <2>1 DEF RowStep, Row
  <2>3. /\ trs'[i].name = trs[i].name /\ trs'[i].targets = trs[i].targets
        /\ trs'[i].standalone = trs[i].standalone
        /\ trs[i].finished => trs'[i].finished
        /\ trs[i].aborted => trs'[i].aborted
    BY <2>1 DEF RowStep, Row
  <2>. QED  BY <1>1, <2>2, <2>3, NilAssumption DEF Open
<1>2. ASSUME NEW i \in Transitions, trs[i] = Nil PROVE trs'[i] = Nil
  <2>1. Running(s) => ctx[s].tr \in Transitions /\ trs[ctx[s].tr] # Nil
    BY DEF TypeOK, Context
  <2>2. Lock(s) \/ RecordBatch(s) \/ CompletePut(s) \/ AbortPut(s) => Running(s)
    BY DEF Lock, RecordBatch, CompletePut, AbortPut, Running, Labels
  <2>3. Lock(s) \/ RecordBatch(s) \/ CompletePut(s) \/ AbortPut(s) =>
          trs' = trs \/ \E row : trs' = [trs EXCEPT ![ctx[s].tr] = row]
    BY DEF Lock, RecordBatch, CompletePut, AbortPut, Put
  <2>4. CASE Lock(s) \/ RecordBatch(s) \/ CompletePut(s) \/ AbortPut(s)
    BY <1>2, <2>1, <2>2, <2>3, <2>4 DEF TypeOK
  <2>5. CASE UNCHANGED trs
    BY <1>2, <2>5
  <2>. QED  BY <2>4, <2>5
       DEF Step, List, StartBatch, BatchEnds, CompleteGet, ChangeConfig, ExpireUnused,
           AbortGet, Crash
<1>3. ASSUME NEW i \in Transitions, Open(i)' PROVE trs[i] # Nil
  BY <1>2, <1>3 DEF Open
<1>. QED  BY <1>1, <1>2, <1>3 DEF RowsKept

(* A list that is cut has rows.                                             *)
LEMMA NoneListed ==
  ASSUME {} \in Listed(Here)
  PROVE  Here = {}
<1>1. CASE Cardinality(Here) <= Limit
  BY <1>1 DEF Listed
<1>2. CASE ~(Cardinality(Here) <= Limit)
  BY <1>2, FS_EmptySet, FleetAssumption DEF Listed
<1>. QED  BY <1>1, <1>2

(* A row that is created is the next one, and asks for what no open row     *)
(* does.                                                                    *)
LEMMA CreatedRow ==
  ASSUME FleetTypeOK, NEW i \in Transitions, CreateTransition(i)
  PROVE  /\ req \in Requests /\ ~req.update
         /\ trs[i] = Nil /\ \A j \in Transitions : j < i => trs[j] # Nil
         /\ \A j \in Transitions \ {i} : trs'[j] = trs[j]
         /\ trs'[i] \in Row /\ trs'[i] # Nil
         /\ trs'[i].name = req.name /\ (~trs'[i].standalone => req.node = Nil)
         /\ trs'[i].completed = {} /\ ~trs'[i].aborted
         /\ trs'[i].finished => trs'[i].targets = {}
         /\ steady' = [steady EXCEPT ![i] = Concerned(req.name, trs'[i].targets)]
         /\ req' # Nil => req'.update /\ Here = {}
<1> DEFINE targets(some) == IF req.node = Nil THEN {Cn[g] : g \in some} ELSE {req.node}
           row(some) == [config |-> req.config, name |-> req.name, targets |-> targets(some),
                         standalone |-> req.node # Nil, started |-> targets(some) = {},
                         finished |-> targets(some) = {}, aborted |-> FALSE,
                         completed |-> {}, errs |-> {}, lockedBy |-> Nil]
<1>0. req \in Requests /\ ~req.update
  BY DEF CreateTransition, FleetTypeOK
<1>1. PICK some \in IF req.node = Nil THEN Listed(Here) ELSE {{}} :
        /\ steady' = [steady EXCEPT ![i] = Concerned(req.name, targets(some))]
        /\ trs' = [trs EXCEPT ![i] = row(some)]
        /\ req' = IF targets(some) = {} THEN [req EXCEPT !.update = TRUE] ELSE Nil
  BY DEF CreateTransition
<1>2. targets(some) \in SUBSET Nodes
  BY <1>0, FleetAssumption DEF Listed, Here, Requests
<1>3. row(some) \in Row
  <2> HIDE DEF targets
  <2>. QED  BY <1>0, <1>2 DEF Row, Requests
<1>4. trs'[i] = row(some) /\ \A j \in Transitions \ {i} : trs'[j] = trs[j]
  <2> HIDE DEF row
  <2>. QED  BY <1>1 DEF FleetTypeOK, TypeOK
<1>5. trs'[i] \in Row /\ trs'[i] # Nil
  BY <1>3, <1>4, NilAssumption
<1>6. req' # Nil => req'.update /\ Here = {}
  <2>1. CASE targets(some) = {}
    <3>1. req' = [req EXCEPT !.update = TRUE] /\ req'.update
      BY <1>0, <1>1, <2>1 DEF Requests
    <3>2. req.node = Nil /\ some = {}
      BY <2>1
    <3>. QED  BY <1>1, <3>1, <3>2, NoneListed
  <2>2. CASE targets(some) # {}
    BY <1>1, <2>2
  <2>. QED  BY <2>1, <2>2
<1>7. trs[i] = Nil /\ \A j \in Transitions : j < i => trs[j] # Nil
  BY DEF CreateTransition
<1> HIDE DEF targets
<1>8. /\ trs'[i].name = req.name /\ trs'[i].completed = {} /\ ~trs'[i].aborted
      /\ trs'[i].finished => trs'[i].targets = {}
      /\ ~trs'[i].standalone => req.node = Nil
  <2>1. row(some).name = req.name /\ row(some).completed = {} /\ row(some).aborted = FALSE
    OBVIOUS
  <2>2. row(some).finished => row(some).targets = {}
    OBVIOUS
  <2>3. ~row(some).standalone => req.node = Nil
    OBVIOUS
  <2> HIDE DEF row
  <2>. QED  BY <1>4, <2>1, <2>2, <2>3
<1>9. trs'[i].targets = targets(some)
  BY <1>4
<1>. QED  BY <1>0, <1>1, <1>4, <1>5, <1>6, <1>7, <1>8, <1>9

LEMMA FleetProgressInit == FleetInit => Progress
BY ProgressInit DEF FleetInit

LEMMA FleetProgressNext ==
  ASSUME OneService, Droppable = {}, FleetTypeOK, Progress,
         [FleetNext]_<<vars, fleetVars>>
  PROVE  Progress'
<1>0. TypeOK
  BY DEF FleetTypeOK
<1>1. CASE UNCHANGED vars
  BY <1>0, <1>1, ProgressNext
<1>2. ASSUME NEW i \in Transitions, CreateTransition(i) PROVE Progress'
  <2>1. /\ trs[i] = Nil /\ \A j \in Transitions \ {i} : trs'[j] = trs[j]
        /\ trs'[i] # Nil /\ trs'[i].completed = {} /\ ~trs'[i].aborted
        /\ trs'[i].finished => trs'[i].targets = {}
        /\ UNCHANGED <<etag, agent, pc, ctx>>
    BY <1>2, CreatedRow DEF CreateTransition
  <2>2. \A j \in Transitions : RowInv(j)'
    BY <2>1 DEF Progress, RowInv, Settled
  <2>3. ASSUME NEW s \in Services PROVE CtxInv(s)'
    <3>1. CASE ~Running(s)
      BY <2>1, <3>1 DEF Running, Labels, CtxInv
    <3>2. CASE Running(s)
      <4>1. ctx[s].tr \in Transitions \ {i}
        BY <1>0, <2>1, <3>2 DEF TypeOK, Context
      <4>. QED  BY <2>1, <4>1 DEF Progress, CtxInv, Open, Settled
    <3>. QED  BY <3>1, <3>2
  <2>. QED  BY <2>2, <2>3 DEF Progress
<1>3. CASE UpdateWithoutTargets
  BY <1>3 DEF UpdateWithoutTargets, Progress, RowInv, CtxInv, Open, Settled
<1>4. ASSUME NEW i \in Transitions, NEW n \in Nodes, AgentReports(i, n) PROVE Progress'
  BY <1>0, <1>4, ProgressAgentDoes DEF AgentReports
<1>5. ASSUME NEW s \in Services, FleetStep(s) PROVE Progress'
  <2>1. CASE FetchTokens(s)
    <3>1. \A u \in Services : u = s
      BY DEF OneService
    <3>2. /\ UNCHANGED <<trs, etag, agent, ctx>>
          /\ pc' = pc \/ pc' = [pc EXCEPT ![s] = "abort"]
      BY <2>1 DEF FetchTokens, Goto
    <3>3. \A j \in Transitions : RowInv(j)'
      BY <3>2 DEF Progress, RowInv, Settled
    <3>4. CtxInv(s)'
      <4>1. CASE pc' = pc
        BY <3>2, <4>1 DEF Progress, CtxInv, Open, Settled
      <4>2. CASE pc'[s] = "abort"
        BY <4>2 DEF CtxInv
      <4>. QED  BY <1>0, <3>2, <4>1, <4>2 DEF TypeOK
    <3>. QED  BY <3>1, <3>3, <3>4 DEF Progress
  <2>2. CASE Step(s) \/ Crash(s)
    BY <1>0, <2>2, ProgressStep
  <2>3. CASE FetchPivTokens(s) \/ CreateTokens(s)
    BY <1>1, <2>3 DEF FetchPivTokens, CreateTokens
  <2>. QED  BY <1>5, <2>1, <2>2, <2>3
       DEF FleetStep, FleetList, FleetLock, FleetBatch, Throw, Step
<1>. QED  BY <1>1, <1>2, <1>3, <1>4, <1>5
     DEF FleetNext, fleetVars, PivAppears, TokenAdded, PivLeaves, Ask

-----------------------------------------------------------------------------
(* The order of the transitions *)

NoneBegins == \A i \in Transitions : Begun(i)' => Begun(i)

SteadyKept == \A i \in Transitions : steady'[i] \subseteq steady[i]

LEMMA AgentsStay ==
  ASSUME UNCHANGED agent
  PROVE  NoneBegins
BY DEF NoneBegins, Begun

LEMMA AgentBegins ==
  ASSUME TypeOK, NEW i \in Transitions, NEW n \in Nodes, AgentDoes(i, n)
  PROVE  NoneBegins
BY DEF NoneBegins, Begun, AgentDoes, TypeOK

LEMMA RowsInvKept ==
  ASSUME RowsInv, RowsKept, NoneBegins, SteadyKept, req' \in {req, Nil}
  PROVE  RowsInv'
<1>1. \A i, j \in Transitions : j < i /\ trs'[i] # Nil =>
        trs'[j] # Nil /\ (Open(j)' => trs'[j].name # trs'[i].name)
  BY DEF RowsInv, RowsKept
<1>2. \A i \in Transitions : trs'[i] = Nil => steady'[i] = {} /\ ~Begun(i)'
  BY DEF RowsInv, RowsKept, SteadyKept, NoneBegins
<1>3. \A i, j \in Transitions : i < j /\ Begun(j)' => ~Open(i)'
  BY DEF RowsInv, RowsKept, NoneBegins
<1>4. req' # Nil /\ ~req'.update =>
        \A i \in Transitions : Open(i)' => trs'[i].name # req'.name
  BY DEF RowsInv, RowsKept, Open
<1>. QED  BY <1>1, <1>2, <1>3, <1>4 DEF RowsInv

LEMMA RowsInvAsk ==
  ASSUME RowsInv, NEW c \in Configs, NEW name \in Names, NEW node \in Nodes \cup {Nil},
         NEW forced \in BOOLEAN, Ask(c, name, node, forced)
  PROVE  RowsInv'
<1>1. /\ \A i \in Transitions : Open(i) => trs[i].name # name
      /\ req'.name = name
      /\ UNCHANGED <<trs, agent, steady>>
  BY DEF Ask, vars
<1>. QED  BY <1>1 DEF RowsInv, Open, Begun

LEMMA RowsInvCreate ==
  ASSUME FleetTypeOK, RowsInv, NEW i \in Transitions, CreateTransition(i)
  PROVE  RowsInv'
<1>1. /\ trs[i] = Nil /\ \A j \in Transitions : j < i => trs[j] # Nil
      /\ \A j \in Transitions \ {i} : trs'[j] = trs[j]
      /\ trs'[i] # Nil /\ trs'[i].name = req.name
      /\ req # Nil /\ ~req.update
      /\ req' = Nil \/ req'.update
  BY CreatedRow DEF CreateTransition
<1>2. /\ UNCHANGED agent /\ \A j \in Transitions \ {i} : steady'[j] = steady[j]
  BY DEF CreateTransition, FleetTypeOK
<1>3. \A j \in Transitions : i < j => trs[j] = Nil /\ ~Begun(j)
  BY <1>1 DEF RowsInv
<1>4. \A j, l \in Transitions : l < j /\ trs'[j] # Nil =>
        trs'[l] # Nil /\ (Open(l)' => trs'[l].name # trs'[j].name)
  <2> SUFFICES ASSUME NEW j \in Transitions, NEW l \in Transitions, l < j, trs'[j] # Nil
               PROVE  trs'[l] # Nil /\ (Open(l)' => trs'[l].name # trs'[j].name)
    OBVIOUS
  <2>1. l # i
    BY <1>1, <1>3
  <2>2. Open(l)' => Open(l)
    BY <1>1, <2>1 DEF Open
  <2>3. CASE j = i
    BY <1>1, <2>1, <2>2, <2>3 DEF RowsInv
  <2>4. CASE j # i
    BY <1>1, <2>1, <2>2, <2>4 DEF RowsInv
  <2>. QED  BY <2>3, <2>4
<1>5. \A j \in Transitions : trs'[j] = Nil => steady'[j] = {} /\ ~Begun(j)'
  BY <1>1, <1>2 DEF RowsInv, Begun
<1>6. \A j, l \in Transitions : l < j /\ Begun(j)' => ~Open(l)'
  <2> SUFFICES ASSUME NEW j \in Transitions, NEW l \in Transitions, l < j, Begun(j)'
               PROVE  ~Open(l)'
    OBVIOUS
  <2>1. Begun(j)
    BY <1>2 DEF Begun
  <2>2. l # i
    BY <1>3, <2>1
  <2>. QED  BY <1>1, <2>1, <2>2 DEF RowsInv, Open
<1>. QED  BY <1>1, <1>4, <1>5, <1>6 DEF RowsInv

(* A batch is of the oldest transition that is open.                        *)
LEMMA RowsInvBatch ==
  ASSUME FleetTypeOK, RowsInv, NEW s \in Services, WorkInv(s), FleetBatch(s)
  PROVE  RowsInv'
<1> DEFINE k == ctx[s].tr
<1>0. /\ pc[s] = "batch" /\ UNCHANGED <<trs, req, steady>>
  BY DEF FleetBatch, StartBatch
<1>1. k \in Transitions /\ trs[k] # Nil
  BY <1>0 DEF FleetTypeOK, TypeOK, Running, Labels, Context
<1>2. \A j \in Transitions \ {k} : agent'[j] = agent[j]
  BY <1>1 DEF FleetBatch, StartBatch, FleetTypeOK, TypeOK
<1>3. \A i \in Transitions : i < k => ~Open(i)
  BY <1>0 DEF WorkInv, Working
<1>. QED  BY <1>0, <1>1, <1>2, <1>3 DEF RowsInv, Begun, Open

-----------------------------------------------------------------------------
(* The service works on the oldest open transition *)

(* What a step of the service that does not list transitions does.          *)
Onward(s) ==
  Working(s)' =>
    /\ Working(s) /\ ctx'[s].tr = ctx[s].tr
    /\ pc'[s] = "lock" => pc[s] = "lock"
    /\ pc'[s] \in {"batch", "tasks", "record"} => pc[s] \in {"lock", "batch", "tasks", "record"}
    /\ pc'[s] # "config" => pc[s] # "config" /\ (Open(ctx[s].tr) => Open(ctx[s].tr)')

LEMMA StaysOnward ==
  ASSUME UNCHANGED <<pc, ctx, trs>>, NEW s \in Services
  PROVE  Onward(s)
BY DEF Onward, Working, Open

LEMMA StepOnward ==
  ASSUME TypeOK, NEW s \in Services, ~List(s), Step(s) \/ Crash(s)
  PROVE  Onward(s)
<1> DEFINE k == ctx[s].tr
<1> USE DEF Goto, NewCtx
<1>0. pc \in [Services -> Labels] /\ DOMAIN ctx = Services
  BY DEF TypeOK
<1>a. pc[s] \in Labels \ {"idle", "abort", "stuck"} =>
        ctx[s] \in Context /\ k \in Transitions /\ trs[k] \in Row
  BY DEF TypeOK, Running, Context
<1>1. CASE Lock(s)
  <2>1. ctx[s] \in Context /\ k \in Transitions /\ trs[k] \in Row /\ pc[s] = "lock"
    BY <1>1, <1>a DEF Lock, Labels
  <2>2. CASE pc'[s] = "abort"
    BY <2>2 DEF Onward, Working
  <2>3. CASE /\ trs' = [trs EXCEPT ![k] = [trs[k] EXCEPT !.lockedBy = s, !.started = TRUE]]
             /\ ctx' = [ctx EXCEPT ![s] = [ctx[s] EXCEPT !.completed = trs[k].completed,
                                                         !.errs = KnownErrors(trs[k])]]
             /\ pc' = [pc EXCEPT ![s] = "batch"]
    <3>1. ctx'[s].tr = k
      BY <1>0, <2>1, <2>3 DEF Context
    <3>2. trs'[k] = [trs[k] EXCEPT !.lockedBy = s, !.started = TRUE] /\ trs'[k] \in Row
      BY <2>1, <2>3, RowType DEF TypeOK
    <3>3. Open(k) => Open(k)'
      BY <2>1, <3>1, <3>2, NilAssumption DEF Open, Row
    <3>. QED  BY <1>0, <2>1, <2>3, <3>1, <3>3 DEF Onward, Working
  <2>. QED  BY <1>0, <1>1, <2>2, <2>3 DEF Lock, Put
<1>2. CASE StartBatch(s)
  <2>1. ctx[s] \in Context /\ pc[s] = "batch" /\ UNCHANGED trs
    BY <1>2, <1>a DEF StartBatch, Labels
  <2>2. ctx'[s].tr = k /\ pc'[s] = "tasks"
    BY <1>0, <1>2, <2>1 DEF StartBatch, Context
  <2>. QED  BY <2>1, <2>2 DEF Onward, Working, Open
<1>3. CASE BatchEnds(s)
  <2>1. ctx[s] \in Context /\ pc[s] = "tasks" /\ UNCHANGED trs
    BY <1>3, <1>a DEF BatchEnds, Labels
  <2>2. ctx'[s].tr = k /\ pc'[s] = "record"
    BY <1>0, <1>3, <2>1 DEF BatchEnds, Context
  <2>. QED  BY <2>1, <2>2 DEF Onward, Working, Open
<1>4. CASE RecordBatch(s)
  <2>1. ctx[s] \in Context /\ k \in Transitions /\ trs[k] \in Row /\ pc[s] = "record"
    BY <1>4, <1>a DEF RecordBatch, Labels
  <2>2. CASE pc'[s] \in {"abort", "idle"}
    BY <2>2 DEF Onward, Working
  <2>3. CASE pc'[s] \notin {"abort", "idle"}
    <3>1. /\ trs' = [trs EXCEPT ![k] = [trs[k] EXCEPT !.completed = Recorded(ctx[s]),
                                                      !.errs = ctx[s].errs]]
          /\ ctx' = [ctx EXCEPT ![s] = [ctx[s] EXCEPT !.completed = Recorded(ctx[s])]]
          /\ pc'[s] \in {"complete", "batch"}
      BY <1>0, <1>4, <2>3 DEF RecordBatch, Put
    <3>2. ctx'[s].tr = k
      BY <1>0, <2>1, <3>1 DEF Context
    <3>3. /\ trs'[k] = [trs[k] EXCEPT !.completed = Recorded(ctx[s]), !.errs = ctx[s].errs]
          /\ trs'[k] \in Row
      BY <2>1, <3>1, RowType DEF TypeOK, Recorded, Context
    <3>4. Open(k) => Open(k)'
      BY <2>1, <3>2, <3>3, NilAssumption DEF Open, Row
    <3>. QED  BY <2>1, <3>1, <3>2, <3>4 DEF Onward, Working
  <2>. QED  BY <2>2, <2>3
<1>5. CASE CompleteGet(s)
  <2>1. ctx[s] \in Context /\ pc[s] = "complete" /\ UNCHANGED trs
    BY <1>5, <1>a DEF CompleteGet, Labels
  <2>2. ctx'[s].tr = k /\ pc'[s] = "finish"
    BY <1>0, <1>5, <2>1 DEF CompleteGet, Context
  <2>. QED  BY <2>1, <2>2 DEF Onward, Working, Open
<1>6. CASE CompletePut(s)
  <2>1. ctx[s] \in Context /\ pc[s] = "finish"
    BY <1>6, <1>a DEF CompletePut, Labels
  <2>2. pc'[s] = "abort" \/ (pc'[s] = "config" /\ ctx'[s].tr = k)
    BY <1>0, <1>6, <2>1 DEF CompletePut, Context
  <2>. QED  BY <2>1, <2>2 DEF Onward, Working
<1>7. CASE ChangeConfig(s) \/ ExpireUnused(s) \/ AbortGet(s) \/ AbortPut(s) \/ Crash(s)
  <2>1. ~Working(s)'
    BY <1>0, <1>7
       DEF ChangeConfig, ExpireUnused, AbortGet, AbortPut, Crash, StartOver, Working
  <2>. QED  BY <2>1 DEF Onward
<1>. QED  BY <1>1, <1>2, <1>3, <1>4, <1>5, <1>6, <1>7 DEF Step

LEMMA WorkInvKept ==
  ASSUME TypeOK, NEW s \in Services, WorkInv(s), RowsKept, NoneBegins, Onward(s)
  PROVE  WorkInv(s)'
<1>1. Working(s) => ctx[s].tr \in Transitions
  BY DEF Working, TypeOK, Running, Labels, Context
<1>. QED  BY <1>1 DEF WorkInv, Onward, RowsKept, NoneBegins, NotOvertaken

LEMMA WorkInvCreate ==
  ASSUME FleetTypeOK, RowsInv, NEW i \in Transitions, CreateTransition(i),
         NEW s \in Services, WorkInv(s)
  PROVE  WorkInv(s)'
<1>1. /\ trs[i] = Nil /\ \A j \in Transitions : j < i => trs[j] # Nil
      /\ \A j \in Transitions \ {i} : trs'[j] = trs[j]
      /\ UNCHANGED <<agent, pc, ctx>>
  BY CreatedRow DEF CreateTransition
<1>2. Working(s) => ctx[s].tr \in Transitions /\ trs[ctx[s].tr] # Nil
  BY DEF Working, FleetTypeOK, TypeOK, Running, Labels, Context
<1>3. Working(s) => ctx[s].tr < i
  BY <1>1, <1>2 DEF RowsInv, Transitions
<1> SUFFICES ASSUME Working(s)
             PROVE  /\ \A j \in Transitions : j < ctx[s].tr => ~Open(j)'
                    /\ \A j \in Transitions : ctx[s].tr < j => ~Begun(j)'
                    /\ pc[s] # "config" => trs'[ctx[s].tr] = trs[ctx[s].tr]
  BY <1>1 DEF WorkInv, Working, NotOvertaken, Open
<1>4. \A j \in Transitions : j < ctx[s].tr => j # i
  BY <1>2, <1>3 DEF Transitions
<1>. QED  BY <1>1, <1>2, <1>3, <1>4 DEF WorkInv, NotOvertaken, Begun, Open, Transitions

LEMMA WorkInvList ==
  ASSUME FleetTypeOK, RowsInv, NEW s \in Services, List(s)
  PROVE  WorkInv(s)'
<1>0. pc \in [Services -> Labels] /\ DOMAIN ctx = Services
  BY DEF FleetTypeOK, TypeOK
<1>1. PICK i \in Transitions :
        /\ Open(i) /\ \A j \in Transitions : Open(j) => i <= j
        /\ \/ StartOver(s)
           \/ /\ NewCtx(s, [tr |-> i, etag |-> etag[i], batch |-> {},
                            pending |-> PendingTargets(trs[i]),
                            completed |-> {}, errs |-> {}])
              /\ Goto(s, "lock")
  BY DEF List
<1>2. UNCHANGED <<trs, agent>>
  BY DEF List
<1>3. \A j \in Transitions : i < j => ~Begun(j)
  BY <1>1 DEF RowsInv
<1>4. \A j \in Transitions : j < i => ~Open(j)
  BY <1>1 DEF Transitions
<1>5. CASE StartOver(s)
  BY <1>0, <1>5 DEF StartOver, Goto, WorkInv, Working
<1>6. CASE ~StartOver(s)
  <2>1. ctx'[s].tr = i
    BY <1>0, <1>1, <1>6 DEF NewCtx
  <2>. QED  BY <1>1, <1>2, <1>3, <1>4, <2>1 DEF WorkInv, NotOvertaken, Begun, Open
<1>. QED  BY <1>5, <1>6

-----------------------------------------------------------------------------
(* PIV tokens, and the rows about them *)

LEMMA PivsInvKept ==
  ASSUME FleetTypeOK, RowsInv, PivsInv, RowsKept, SteadyKept, UNCHANGED life,
         req' \in {req, Nil}
  PROVE  PivsInv'
<1>1. Here' = Here
  BY DEF Here
<1>2. \A i \in Transitions : \A g \in steady'[i] : Cn[g] \in trs'[i].targets
  <2> SUFFICES ASSUME NEW i \in Transitions, NEW g \in steady'[i]
               PROVE  Cn[g] \in trs'[i].targets
    OBVIOUS
  <2>1. g \in steady[i] /\ trs[i] # Nil
    BY DEF SteadyKept, RowsInv
  <2>. QED  BY <2>1 DEF RowsKept, PivsInv
<1>3. req' # Nil /\ req'.update => \A i \in Transitions : steady'[i] = {}
  BY DEF PivsInv, SteadyKept
<1>4. \A i \in Transitions : steady'[i] \subseteq Here'
  BY <1>1 DEF PivsInv, SteadyKept
<1>5. \A i \in Transitions : \A g \in steady'[i], h \in Here' : Cn[h] = Cn[g] => h = g
  BY <1>1 DEF PivsInv, SteadyKept
<1>. QED  BY <1>2, <1>3, <1>4, <1>5 DEF PivsInv

(* What happens to a PIV token takes it out of steady, and a new one also   *)
(* takes out those of the same node.                                        *)
LEMMA PivLeavesSteady ==
  ASSUME FleetTypeOK, PivsInv, NEW g \in PivTokens, NEW c,
         (c \in Configs /\ (PivAppears(g, c) \/ TokenAdded(g, c))) \/ PivLeaves(g)
  PROVE  /\ UNCHANGED <<vars, req, view, task>> /\ SteadyKept
         /\ \A i \in Transitions : g \notin steady'[i]
         /\ PivAppears(g, c) =>
              \A i \in Transitions : \A h \in steady'[i] : Cn[h] # Cn[g]
         /\ \A h \in PivTokens \ {g} : toks'[h] = toks[h] /\ life'[h] = life[h]
<1>1. PivAppears(g, c) => \A i \in Transitions : \A h \in steady'[i] : Cn[h] # Cn[g]
  BY DEF PivAppears, Without, FleetTypeOK
<1>2. SteadyKept
  BY DEF PivAppears, TokenAdded, PivLeaves, Without, SteadyKept
<1>3. \A i \in Transitions : g \notin steady'[i]
  BY <1>1 DEF TokenAdded, PivLeaves, Without
<1>4. \A h \in PivTokens \ {g} : toks'[h] = toks[h] /\ life'[h] = life[h]
  BY DEF PivAppears, TokenAdded, PivLeaves, FleetTypeOK
<1>. QED  BY <1>1, <1>2, <1>3, <1>4 DEF PivAppears, TokenAdded, PivLeaves

LEMMA PivsInvPiv ==
  ASSUME FleetTypeOK, PivsInv, NEW g \in PivTokens, NEW c,
         (c \in Configs /\ (PivAppears(g, c) \/ TokenAdded(g, c))) \/ PivLeaves(g)
  PROVE  PivsInv'
<1>1. /\ UNCHANGED <<vars, req, view, task>> /\ SteadyKept
      /\ \A i \in Transitions : g \notin steady'[i]
      /\ \A h \in PivTokens \ {g} : life'[h] = life[h]
  BY PivLeavesSteady
<1>2. \A i \in Transitions : \A h \in steady'[i], l \in Here' : Cn[l] = Cn[h] => l = h
  <2>1. PivAppears(g, c) => \A i \in Transitions : \A h \in steady'[i] : Cn[h] # Cn[g]
    BY PivLeavesSteady
  <2>2. ~PivAppears(g, c) => Here' \subseteq Here
    BY DEF TokenAdded, PivLeaves, Here, FleetTypeOK
  <2>3. Here' \subseteq Here \cup {g}
    BY <1>1 DEF Here
  <2>. QED  BY <1>1, <2>1, <2>2, <2>3 DEF PivsInv, SteadyKept
<1>3. \A i \in Transitions : steady'[i] \subseteq Here'
  BY <1>1 DEF SteadyKept, PivsInv, Here
<1>4. UNCHANGED trs
  BY <1>1 DEF vars
<1>. QED  BY <1>1, <1>2, <1>3, <1>4 DEF PivsInv, SteadyKept

LEMMA PivsInvAsk ==
  ASSUME PivsInv, NEW c \in Configs, NEW name \in Names, NEW node \in Nodes \cup {Nil},
         NEW forced \in BOOLEAN, Ask(c, name, node, forced)
  PROVE  PivsInv'
<1>1. UNCHANGED <<trs, life, steady>> /\ ~req'.update
  BY DEF Ask, vars
<1>. QED  BY <1>1 DEF PivsInv, Here

LEMMA PivsInvCreate ==
  ASSUME FleetTypeOK, RowsInv, PivsInv, NEW i \in Transitions, CreateTransition(i)
  PROVE  PivsInv'
<1>1. /\ \A j \in Transitions \ {i} : trs'[j] = trs[j] /\ steady'[j] = steady[j]
      /\ steady'[i] = Concerned(req.name, trs'[i].targets)
      /\ req' # Nil => Here = {}
      /\ Here' = Here
  <2>1. UNCHANGED life
    BY DEF CreateTransition
  <2>2. steady' = [steady EXCEPT ![i] = Concerned(req.name, trs'[i].targets)]
    BY CreatedRow
  <2>3. \A j \in Transitions \ {i} : trs'[j] = trs[j]
    BY CreatedRow
  <2>4. req' # Nil => Here = {}
    BY CreatedRow
  <2>5. steady \in [Transitions -> SUBSET PivTokens]
    BY DEF FleetTypeOK
  <2>. QED  BY <2>1, <2>2, <2>3, <2>4, <2>5 DEF Here
<1>2. /\ steady'[i] \subseteq Here
      /\ \A g \in steady'[i] : Cn[g] \in trs'[i].targets
      /\ \A g \in steady'[i], h \in Here : Cn[h] = Cn[g] => h = g
  BY <1>1 DEF Concerned
<1>3. \A j \in Transitions :
        /\ steady'[j] \subseteq Here
        /\ \A g \in steady'[j] : Cn[g] \in trs'[j].targets
        /\ \A g \in steady'[j], h \in Here : Cn[h] = Cn[g] => h = g
  BY <1>1, <1>2 DEF PivsInv
<1>. QED  BY <1>1, <1>3 DEF PivsInv

-----------------------------------------------------------------------------
(* Recovery tokens: how many there are, and what a task or a service knows  *)
(* of that                                                                  *)

(* Of the PIV tokens in question none gets another recovery token.          *)
LensKept == \A i \in Transitions : \A g \in steady'[i] : Len(toks'[g]) = Len(toks[g])

AgentsGrow ==
  \A j \in Transitions, n \in Nodes :
    /\ agent[j][n] # "none" => agent'[j][n] # "none"
    /\ agent'[j][n] = "given" => agent[j][n] = "given"

LEMMA FetchedKept ==
  ASSUME FleetTypeOK, NEW s \in Services, FetchedInv(s), Onward(s), UNCHANGED view, LensKept,
         \A i \in Transitions : i <= ctx[s].tr => steady'[i] \subseteq steady[i]
  PROVE  FetchedInv(s)'
<1>0. Working(s) => ctx[s].tr \in Transitions
  BY DEF Working, FleetTypeOK, TypeOK, Running, Labels, Context
<1>1. Working(s) => ctx[s].tr \in Transitions /\ ctx[s].tr <= ctx[s].tr
  BY <1>0 DEF Transitions
<1>2. pc'[s] \in {"lock", "batch", "tasks", "record"} => Working(s)'
  BY DEF Working
<1>3. ASSUME pc'[s] = "lock", view[s].at = "create",
             NEW i \in Transitions, NEW g \in Missing(view[s]),
             i <= ctx'[s].tr, g \in steady'[i]
      PROVE  Len(toks'[g]) = 0
  BY <1>2, <1>3 DEF Onward, FetchedInv, LensKept
<1>4. ASSUME pc'[s] \in {"lock", "batch", "tasks", "record"},
             NEW g \in DOMAIN view[s].tok, g \in steady'[ctx'[s].tr]
      PROVE  view[s].tok[g] = Len(toks'[g])
  BY <1>1, <1>2, <1>4 DEF Onward, FetchedInv, LensKept
<1>5. Missing(view[s])' = Missing(view[s])
  BY DEF Missing
<1>. QED  BY <1>3, <1>4, <1>5 DEF FetchedInv

LEMMA TaskInvKept ==
  ASSUME FleetTypeOK, RowsInv, RowsKept, SteadyKept, LensKept, AgentsGrow, UNCHANGED task,
         NEW i \in Transitions, TaskInv(i)
  PROVE  TaskInv(i)'
<1>1. \A n \in Nodes : agent'[i][n] = "none" => task'[i][n] = Nil
  BY DEF AgentsGrow, TaskInv
<1>2. \A n \in Nodes : task'[i][n] # Nil /\ task'[i][n].piv \in steady'[i] =>
        task'[i][n].tok = Len(toks'[task'[i][n].piv])
  BY DEF SteadyKept, LensKept, TaskInv
<1>3. ASSUME NEW j \in Transitions, NEW g \in steady'[i],
             j < i, trs'[i].name = "stage", agent'[j][Cn[g]] = "given"
      PROVE  trs'[j].name # "stage"
  <2>1. g \in steady[i] /\ trs[i] # Nil /\ Cn[g] \in Nodes
    BY FleetAssumption DEF SteadyKept, RowsInv, FleetTypeOK
  <2>2. agent[j][Cn[g]] = "given"
    BY <1>3, <2>1 DEF AgentsGrow
  <2>3. trs[j] # Nil
    BY <2>1, <2>2 DEF RowsInv, Begun
  <2>. QED  BY <1>3, <2>1, <2>2, <2>3 DEF TaskInv, RowsKept
<1>. QED  BY <1>1, <1>2, <1>3 DEF TaskInv

LEMMA TaskInvCreate ==
  ASSUME FleetTypeOK, RowsInv, NEW i \in Transitions, CreateTransition(i),
         NEW j \in Transitions, TaskInv(j)
  PROVE  TaskInv(j)'
<1>1. /\ \A l \in Transitions \ {i} : trs'[l] = trs[l] /\ steady'[l] = steady[l]
      /\ UNCHANGED <<agent, task, toks>> /\ trs[i] = Nil
      /\ \A g \in steady'[i] : \A l \in Transitions : agent[l][Cn[g]] # "given"
  BY CreatedRow DEF CreateTransition, FleetTypeOK, Concerned
<1>2. \A n \in Nodes : agent[i][n] = "none"
  BY <1>1 DEF RowsInv, Begun
<1>3. CASE j = i
  BY <1>1, <1>2, <1>3 DEF TaskInv
<1>4. CASE j # i
  <2>1. \A g \in steady[j] : Cn[g] \in Nodes
    BY FleetAssumption DEF FleetTypeOK
  <2>. QED  BY <1>1, <1>2, <1>4, <2>1 DEF TaskInv
<1>. QED  BY <1>3, <1>4

(* The tasks of a batch name the newest token, and none is about to name an *)
(* older one: the transitions before this one are not open.                 *)
LEMMA TaskInvBatch ==
  ASSUME FleetTypeOK, RowsInv, NEW s \in Services, WorkInv(s), FetchedInv(s), FleetBatch(s),
         NEW i \in Transitions, TaskInv(i)
  PROVE  TaskInv(i)'
<1> DEFINE k == ctx[s].tr
           t(n) == [piv |-> view[s].piv[n], tok |-> view[s].tok[view[s].piv[n]]]
<1>0. /\ TypeOK /\ TasksOK
      /\ pc[s] = "batch" /\ UNCHANGED <<trs, view, steady, toks>>
  BY Parts DEF FleetBatch, StartBatch
<1>1. ctx[s] \in Context /\ k \in Transitions /\ trs[k] # Nil
  BY <1>0 DEF TypeOK, Running, Labels, Context
<1>2. PICK batch \in SUBSET ctx[s].pending : \E given \in SUBSET batch :
        /\ agent' = [agent EXCEPT ![k] =
                      [n \in Nodes |-> IF n \in given /\ @[n] = "none"
                                       THEN "given" ELSE @[n]]]
        /\ ctx' = [ctx EXCEPT ![s] = [ctx[s] EXCEPT !.batch = batch, !.pending = @ \ batch]]
  BY DEF FleetBatch, StartBatch, NewCtx
<1>3. ctx'[s].batch = batch
  BY <1>0, <1>1, <1>2 DEF TypeOK, Context
<1>4. PICK again \in SUBSET {n \in batch : agent[k][n] = "given"} :
        task' = [task EXCEPT ![k] = [n \in Nodes |->
                   IF n \in again \/ agent[k][n] # agent'[k][n] THEN t(n) ELSE @[n]]]
  BY <1>3 DEF FleetBatch
<1>5. \A n \in batch : Prepared(s, n)
  BY <1>3 DEF FleetBatch
<1>6. /\ \A j \in Transitions \ {k} : agent'[j] = agent[j] /\ task'[j] = task[j]
      /\ \A n \in Nodes : agent'[k][n] # agent[k][n] =>
           n \in batch /\ agent[k][n] = "none" /\ agent'[k][n] = "given"
  BY <1>0, <1>1, <1>2, <1>4 DEF TypeOK, TasksOK
<1>7. \A n \in batch : t(n).piv \in steady[k] => t(n).tok = Len(toks[t(n).piv])
  BY <1>0, <1>5 DEF Prepared, FetchedInv
<1>8. \A n \in Nodes : task'[k][n] # task[k][n] =>
        n \in batch /\ task'[k][n] = t(n) /\ agent'[k][n] # "none"
  <2> HIDE DEF t, k
  <2>. QED  BY <1>0, <1>1, <1>4, <1>6 DEF TasksOK
<1>9. /\ \A n \in Nodes : agent'[i][n] = "none" => task'[i][n] = Nil
      /\ \A n \in Nodes : task'[i][n] # Nil /\ task'[i][n].piv \in steady'[i] =>
           task'[i][n].tok = Len(toks'[task'[i][n].piv])
  <2>1. CASE i # k
    BY <1>0, <1>6, <2>1 DEF TaskInv
  <2>2. CASE i = k
    <3> SUFFICES ASSUME NEW n \in Nodes
                 PROVE  /\ agent'[i][n] = "none" => task'[i][n] = Nil
                        /\ task'[i][n] # Nil /\ task'[i][n].piv \in steady'[i] =>
                             task'[i][n].tok = Len(toks'[task'[i][n].piv])
      OBVIOUS
    <3> HIDE DEF t, k
    <3>1. CASE task'[k][n] = task[k][n]
      BY <1>0, <1>6, <2>2, <3>1 DEF TaskInv
    <3>2. CASE task'[k][n] # task[k][n]
      BY <1>0, <1>7, <1>8, <2>2, <3>2
    <3>. QED  BY <3>1, <3>2
  <2>. QED  BY <2>1, <2>2
<1>10. ASSUME NEW j \in Transitions, NEW g \in steady[i],
              j < i, trs[i].name = "stage", agent'[j][Cn[g]] = "given"
       PROVE  trs[j].name # "stage"
  <2>1. Cn[g] \in Nodes /\ trs[i] # Nil
    BY <1>10, FleetAssumption DEF FleetTypeOK, RowsInv
  <2>2. CASE agent[j][Cn[g]] = "given"
    BY <1>10, <2>2 DEF TaskInv
  <2>3. CASE agent[j][Cn[g]] # "given"
    <3>1. j = k
      BY <1>6, <1>10, <2>3
    <3>2. Open(j)
      BY <1>0, <3>1 DEF WorkInv, Working
    <3>. QED  BY <1>10, <2>1, <3>2 DEF RowsInv
  <2>. QED  BY <2>2, <2>3
<1>. QED  BY <1>0, <1>9, <1>10 DEF TaskInv

(* The PIV tokens that get a recovery token from the service had none.      *)
LEMMA TaskInvTokens ==
  ASSUME FleetTypeOK, RowsInv, NEW s \in Services, WorkInv(s), FetchedInv(s), CreateTokens(s),
         NEW i \in Transitions, TaskInv(i)
  PROVE  TaskInv(i)'
<1>1. /\ UNCHANGED <<trs, agent, task, steady>> /\ pc[s] = "lock" /\ view[s].at = "create"
      /\ \A g \in PivTokens : g \notin Missing(view[s]) => toks'[g] = toks[g]
  BY DEF CreateTokens, vars
<1>2. ASSUME NEW n \in Nodes, task[i][n] # Nil, task[i][n].piv \in steady[i]
      PROVE  task[i][n].tok = Len(toks'[task[i][n].piv])
  <2> DEFINE g == task[i][n].piv
  <2>1. g \in PivTokens /\ task[i][n].tok \in 1 .. MaxTokens
    BY <1>2 DEF FleetTypeOK
  <2>2. task[i][n].tok = Len(toks[g])
    BY <1>2 DEF TaskInv
  <2>3. g \notin Missing(view[s])
    <3>1. Begun(i)
      BY <1>2 DEF TaskInv, Begun
    <3>2. ctx[s].tr \in Transitions /\ ~(ctx[s].tr < i)
      BY <1>1, <3>1 DEF WorkInv, Working, NotOvertaken, FleetTypeOK, TypeOK, Running, Labels,
                        Context
    <3>3. i <= ctx[s].tr
      BY <3>2 DEF Transitions
    <3>4. Len(toks[g]) # 0
      BY <2>1, <2>2
    <3>. QED  BY <1>1, <1>2, <3>3, <3>4 DEF FetchedInv
  <2>. QED  BY <1>1, <2>1, <2>2, <2>3
<1>. QED  BY <1>1, <1>2 DEF TaskInv

(* The service knows the newest token, listed or created.                   *)
LEMMA FetchedList ==
  ASSUME FleetTypeOK, NEW s \in Services, FleetList(s)
  PROVE  FetchedInv(s)'
<1>1. view'[s] = [NoView EXCEPT !.at = "pivtokens"]
  BY DEF FleetList, View, FleetTypeOK
<1>2. view'[s].at = "pivtokens" /\ DOMAIN view'[s].tok = {}
  BY <1>1 DEF NoView
<1>. QED  BY <1>2 DEF FetchedInv

LEMMA FetchedPivTokens ==
  ASSUME FleetTypeOK, NEW s \in Services, FetchPivTokens(s)
  PROVE  FetchedInv(s)'
<1>1. PICK some, piv :
        view' = [view EXCEPT ![s] = [at     |-> "tokens", listed |-> some,
                                     piv    |-> piv, tok |-> <<>>]]
  BY DEF FetchPivTokens, View
<1>2. view'[s].at = "tokens" /\ DOMAIN view'[s].tok = {}
  BY <1>1 DEF FleetTypeOK
<1>. QED  BY <1>2 DEF FetchedInv

LEMMA FetchedTokens ==
  ASSUME FleetTypeOK, NEW s \in Services, FetchTokens(s)
  PROVE  FetchedInv(s)'
<1>0. /\ ToksOK /\ view[s] \in Views /\ ViewOK(view[s]) /\ DOMAIN view = Services
      /\ view[s].listed \in SUBSET PivTokens
  BY ServiceType, ListedType DEF ViewsOK
<1>1. CASE pc'[s] = "abort"
  BY <1>1 DEF FetchedInv
<1>2. CASE pc'[s] # "abort"
  <2>1. PICK shown \in ListedTokens(view[s].listed), at \in {"ready", "create"} :
          /\ View(s, [view[s] EXCEPT
                       !.at = at,
                       !.tok = [g \in {h \in view[s].listed : shown[h] > 0} |-> shown[g]]])
          /\ steady' = Without({g \in view[s].listed : shown[g] < Len(toks[g])})
    BY <1>2, FetchedShown
  <2> DEFINE tok == [g \in {h \in view[s].listed : shown[h] > 0} |-> shown[g]]
  <2>2. view'[s] = [view[s] EXCEPT !.at = at, !.tok = tok]
    BY <1>0, <2>1 DEF View
  <2>3. DOMAIN tok = {h \in view[s].listed : shown[h] > 0} /\ \A g \in DOMAIN tok : tok[g] = shown[g]
    OBVIOUS
  <2> HIDE DEF tok
  <2>4. view'[s].tok = tok /\ view'[s].listed = view[s].listed
    BY <1>0, <2>2 DEF Views
  <2>5. UNCHANGED <<ctx, toks>> /\ ctx[s].tr \in Transitions
    BY DEF FetchTokens, FleetTypeOK, TypeOK, Running, Labels, Context
  <2>6. \A i \in Transitions : \A g \in view[s].listed :
          g \in steady'[i] => shown[g] = Len(toks[g])
    BY <1>0, <2>1, ShownTokens DEF Without
  <2>7. \A i \in Transitions : \A g \in Missing(view'[s]) : g \in steady'[i] => Len(toks[g]) = 0
    BY <1>0, <2>1, <2>3, <2>4, <2>6, ShownTokens DEF Missing
  <2>. QED  BY <2>3, <2>4, <2>5, <2>6, <2>7 DEF FetchedInv
<1>. QED  BY <1>1, <1>2

LEMMA FetchedCreate ==
  ASSUME FleetTypeOK, NEW s \in Services, FetchedInv(s), CreateTokens(s)
  PROVE  FetchedInv(s)'
<1> DEFINE missing == Missing(view[s])
           old == view[s].tok
           tok == [g \in missing \cup DOMAIN old |->
                     IF g \in missing THEN Len(toks[g]) + 1 ELSE old[g]]
<1>0. ToksOK /\ view[s] \in Views /\ ViewOK(view[s]) /\ DOMAIN view = Services
  BY ServiceType DEF ViewsOK
<1>1. /\ pc[s] = "lock" /\ UNCHANGED <<pc, ctx, steady, trs, config>>
      /\ toks' = [g \in PivTokens |->
                    IF g \in missing THEN WithNew(toks[g], config[trs[ctx[s].tr].config])
                    ELSE toks[g]]
      /\ view' = [view EXCEPT ![s] = [view[s] EXCEPT !.at = "ready", !.tok = tok]]
  BY DEF CreateTokens, View, vars
<1>2. view'[s].at = "ready" /\ view'[s].tok = tok
  <2> HIDE DEF tok
  <2>. QED  BY <1>0, <1>1 DEF Views
<1>3. missing \subseteq PivTokens /\ DOMAIN old \subseteq PivTokens
  BY <1>0, ListedType, PartialType DEF Missing, ViewOK, Views
<1>4. config[trs[ctx[s].tr].config] \in SUBSET {"staged", "activated"}
  <2>1. TypeOK /\ trs[ctx[s].tr] \in Row
    BY <1>1 DEF FleetTypeOK, TypeOK, Running, Labels, Context
  <2>. QED  BY <2>1, MarksOfConfig DEF Row
<1>5. ASSUME NEW g \in missing PROVE Len(toks'[g]) = Len(toks[g]) + 1
  <2>1. toks[g] \in SomeTokens
    BY <1>0, <1>3 DEF ToksOK, SomeTokens
  <2>. QED  BY <1>1, <1>3, <1>4, <2>1, WithNewType
<1>6. ASSUME NEW g \in DOMAIN tok, g \in steady[ctx[s].tr] PROVE tok[g] = Len(toks'[g])
  <2>1. CASE g \in missing
    BY <1>5, <2>1
  <2>2. CASE g \notin missing
    BY <1>1, <1>3, <1>6, <2>2 DEF FetchedInv
  <2>. QED  BY <2>1, <2>2
<1> HIDE DEF tok
<1>. QED  BY <1>1, <1>2, <1>6 DEF FetchedInv

-----------------------------------------------------------------------------
(* Marks *)

MarksKept(g) ==
  /\ Stageable(toks[g]) => Stageable(toks'[g])
  /\ \A mark \in {"staged", "activated"} : Has(toks[g], mark) => Has(toks'[g], mark)

DoneKept == \A j \in Transitions, n \in Nodes : agent'[j][n] = "done" => agent[j][n] = "done"

NoneEnds == \A j \in Transitions, n \in Nodes : agent[j][n] # "none" => agent'[j][n] # "none"

LEMMA MarkInvKept ==
  ASSUME FleetTypeOK, RowsInv, RowsKept, SteadyKept, NoneEnds, DoneKept,
         NEW i \in Transitions, NEW g \in PivTokens, MarkInv(i, g),
         g \in steady'[i] => MarksKept(g)
  PROVE  MarkInv(i, g)'
<1> SUFFICES ASSUME g \in steady'[i] PROVE MarkInv(i, g)'
  BY DEF MarkInv
<1>1. g \in steady[i] /\ trs[i] # Nil /\ Cn[g] \in Nodes
  BY FleetAssumption DEF SteadyKept, RowsInv
<1>2. NotOvertaken(i)' => NotOvertaken(i)
  BY DEF NotOvertaken, Begun, NoneEnds
<1>3. \A mark \in {"staged", "activated"} : Marked(g, mark) => Marked(g, mark)'
  BY DEF MarksKept, Marked, Has
<1>. QED  BY <1>1, <1>2, <1>3 DEF MarkInv, RowsKept, DoneKept, MarksKept

LEMMA MarkInvCreate ==
  ASSUME FleetTypeOK, RowsInv, NEW i \in Transitions, CreateTransition(i),
         NEW j \in Transitions, NEW g \in PivTokens, MarkInv(j, g)
  PROVE  MarkInv(j, g)'
<1>1. /\ \A l \in Transitions \ {i} : trs'[l] = trs[l] /\ steady'[l] = steady[l]
      /\ UNCHANGED <<agent, toks>> /\ trs[i] = Nil /\ trs'[i].name = req.name
      /\ steady'[i] = Concerned(req.name, trs'[i].targets)
  <2>1. UNCHANGED <<agent, toks>>
    BY DEF CreateTransition
  <2>2. steady' = [steady EXCEPT ![i] = Concerned(req.name, trs'[i].targets)]
    BY CreatedRow
  <2>3. /\ trs[i] = Nil /\ trs'[i].name = req.name
        /\ \A l \in Transitions \ {i} : trs'[l] = trs[l]
    BY CreatedRow
  <2>4. steady \in [Transitions -> SUBSET PivTokens]
    BY DEF FleetTypeOK
  <2>. QED  BY <2>1, <2>2, <2>3, <2>4
<1>2. CASE j = i
  <2>1. agent[i][Cn[g]] = "none"
    BY <1>1, FleetAssumption DEF RowsInv, Begun
  <2>2. g \in steady'[i] /\ trs'[i].name = "stage" => Stageable(toks[g])
    BY <1>1 DEF Concerned, Spent, Stageable
  <2>. QED  BY <1>1, <1>2, <2>1, <2>2 DEF MarkInv
<1>3. CASE j # i
  BY <1>1, <1>3 DEF MarkInv, Marked, NotOvertaken, Begun
<1>. QED  BY <1>2, <1>3

(* A report of the transition marks the token of its task; one of an older  *)
(* transition takes no mark away that counts.                               *)
LEMMA MarkInvReports ==
  ASSUME FleetTypeOK, RowsInv, PivsInv, NEW j \in Transitions, NEW n \in Nodes,
         AgentReports(j, n), NEW i \in Transitions, TaskInv(i),
         NEW g \in PivTokens, MarkInv(i, g)
  PROVE  MarkInv(i, g)'
<1> DEFINE h == task[j][n].piv
           k == task[j][n].tok
<1>0. /\ UNCHANGED <<trs, steady, life, task>> /\ agent[j][n] = "given"
      /\ agent' = [agent EXCEPT ![j][n] = "done"]
      /\ task[j][n] # Nil /\ h \in Here
      /\ trs[j].name = "activate" => Cardinality(Candidates(toks[h])) = 1
  BY DEF AgentReports, AgentDoes, FleetTypeOK, Here
<1>1. h \in PivTokens /\ Cn[h] = n /\ k \in 1 .. MaxTokens
  BY <1>0 DEF FleetTypeOK
<1>2. toks' = [toks EXCEPT ![h] = CASE trs[j].name = "stage"    -> SetStaged(@, k)
                                    [] trs[j].name = "activate" -> SetActive(@)
                                    [] OTHER                    -> @]
  BY DEF AgentReports
<1>3. toks[g] \in SomeTokens /\ DOMAIN toks = PivTokens
  BY DEF FleetTypeOK, SomeTokens, TokenMarks
<1>4. /\ \A l \in Transitions, m \in Nodes : l # j \/ m # n => agent'[l][m] = agent[l][m]
      /\ \A l \in Transitions : Begun(l)' <=> Begun(l)
  BY <1>0 DEF FleetTypeOK, TypeOK, Begun
<1>5. NotOvertaken(i)' => NotOvertaken(i)
  BY <1>4 DEF NotOvertaken
<1> SUFFICES ASSUME g \in steady[i] PROVE MarkInv(i, g)'
  BY <1>0 DEF MarkInv
<1>6. g \in Here /\ Cn[g] \in Nodes
  BY FleetAssumption DEF PivsInv
<1>7. CASE g # h
  <2>1. toks'[g] = toks[g]
    BY <1>2, <1>3, <1>7
  <2>2. agent'[i][Cn[g]] = agent[i][Cn[g]]
    BY <1>0, <1>1, <1>4, <1>6, <1>7 DEF PivsInv
  <2>. QED  BY <1>0, <1>5, <2>1, <2>2 DEF MarkInv, Marked
<1>8. CASE g = h
  <2>0. Cn[g] = n
    BY <1>1, <1>8
  <2>1. CASE trs[j].name = "activate"
    <3>1. toks'[g] = SetActive(toks[g])
      BY <1>1, <1>2, <1>3, <1>8, <2>1
    <3>2. Both(toks'[g])
      BY <1>0, <1>3, <1>8, <2>1, <3>1, SetActiveMarks
    <3>3. Has(toks'[g], "staged") /\ Has(toks'[g], "activated") /\ Stageable(toks'[g])
      BY <3>2, BothHas
    <3>4. Marked(g, "staged")' /\ Marked(g, "activated")'
      BY <3>3 DEF Has, Marked
    <3>. QED  BY <3>3, <3>4 DEF MarkInv
  <2>2. CASE trs[j].name = "stage"
    <3>0. toks'[g] = SetStaged(toks[g], k)
      BY <1>1, <1>2, <1>3, <1>8, <2>2
    <3>1. Has(toks[g], "activated") => Has(toks'[g], "activated")
      BY <1>3, <3>0, SetStagedMarks
    <3>2. CASE j = i
      <4>1. k = Len(toks[g]) /\ k # 0
        <5>1. k = Len(toks[g])
          BY <1>0, <1>8, <3>2 DEF TaskInv
        <5>. QED  BY <1>1, <5>1
      <4>2. Stageable(toks[g]) => Stageable(toks'[g]) /\ Has(toks'[g], "staged")
        BY <1>3, <3>0, <4>1, SetStagedMarks
      <4>3. Has(toks'[g], "staged") => Marked(g, "staged")'
        BY DEF Has, Marked
      <4>. QED  BY <1>0, <1>5, <2>2, <3>2, <4>2, <4>3 DEF MarkInv
    <3>3. CASE j # i
      <4>1. ~(trs[i].name = "stage" /\ NotOvertaken(i))
        <5> SUFFICES ASSUME trs[i].name = "stage", NotOvertaken(i) PROVE FALSE
          OBVIOUS
        <5>1. ~(i < j)
          BY <1>0 DEF NotOvertaken, Begun
        <5>2. j < i
          BY <3>3, <5>1 DEF Transitions
        <5>. QED  BY <1>0, <2>0, <2>2, <5>2 DEF TaskInv
      <4>2. agent'[i][Cn[g]] = agent[i][Cn[g]]
        BY <1>4, <1>6, <3>3
      <4>3. Marked(g, "activated") => Marked(g, "activated")'
        BY <3>1 DEF Has, Marked
      <4>. QED  BY <1>0, <1>5, <4>1, <4>2, <4>3 DEF MarkInv
    <3>. QED  BY <3>2, <3>3
  <2>3. CASE trs[j].name \notin {"stage", "activate"}
    <3>1. toks'[g] = toks[g]
      BY <1>1, <1>2, <1>3, <1>8, <2>3
    <3>2. agent'[i][Cn[g]] = agent[i][Cn[g]] \/ trs[i].name \notin {"stage", "activate"}
      BY <1>4, <1>6, <2>3
    <3>. QED  BY <1>0, <1>5, <3>1, <3>2 DEF MarkInv, Marked
  <2>. QED  BY <2>1, <2>2, <2>3
<1>. QED  BY <1>7, <1>8

(* A report leaves the number of tokens alone.                              *)
LEMMA ReportsKeepLens ==
  ASSUME FleetTypeOK, NEW j \in Transitions, NEW n \in Nodes, AgentReports(j, n)
  PROVE  LensKept
<1>1. /\ UNCHANGED steady /\ task[j][n].piv \in PivTokens
  BY DEF AgentReports, FleetTypeOK
<1>2. \A g \in PivTokens : toks[g] \in SomeTokens
  BY DEF FleetTypeOK, SomeTokens, TokenMarks
<1>3. \A g \in PivTokens :
        toks'[g] \in {toks[g], SetStaged(toks[g], task[j][n].tok), SetActive(toks[g])}
  BY <1>1 DEF AgentReports, FleetTypeOK
<1>4. \A g \in PivTokens : Len(toks'[g]) = Len(toks[g])
  BY <1>2, <1>3, SetStagedType, SetActiveType
<1>. QED  BY <1>1, <1>4 DEF LensKept, FleetTypeOK

(* What the service creates expires no token that is staged or active.      *)
LEMMA CreateKeepsMarks ==
  ASSUME FleetTypeOK, NEW s \in Services, CreateTokens(s), NEW g \in PivTokens
  PROVE  MarksKept(g)
<1>1. pc[s] = "lock" /\ toks[g] \in SomeTokens
  BY DEF CreateTokens, FleetTypeOK, SomeTokens, TokenMarks
<1>2. config[trs[ctx[s].tr].config] \in SUBSET {"staged", "activated"}
  <2>1. TypeOK /\ trs[ctx[s].tr] \in Row
    BY <1>1 DEF FleetTypeOK, TypeOK, Running, Labels, Context
  <2>. QED  BY <2>1, MarksOfConfig DEF Row
<1>3. \/ toks'[g] = toks[g]
      \/ toks'[g] = WithNew(toks[g], config[trs[ctx[s].tr].config])
  BY DEF CreateTokens
<1>. QED  BY <1>1, <1>2, <1>3, WithNewMarks DEF MarksKept

-----------------------------------------------------------------------------
(* Every step preserves FollowInv *)

LEMMA FollowInit == FleetInit => FollowInv
<1> SUFFICES ASSUME FleetInit PROVE FollowInv
  OBVIOUS
<1>1. /\ \A i \in Transitions : trs[i] = Nil /\ steady[i] = {} /\ ~Begun(i)
      /\ \A s \in Services : pc[s] = "idle"
      /\ Here = {} /\ req = Nil
      /\ \A i \in Transitions, n \in Nodes : task[i][n] = Nil
  BY DEF FleetInit, Init, Begun, Here
<1>2. RowsInv /\ PivsInv
  BY <1>1 DEF RowsInv, PivsInv
<1>3. \A s \in Services : WorkInv(s) /\ FetchedInv(s)
  BY <1>1 DEF WorkInv, Working, FetchedInv
<1>4. \A i \in Transitions : TaskInv(i) /\ \A g \in PivTokens : MarkInv(i, g)
  BY <1>1 DEF TaskInv, MarkInv
<1>. QED  BY <1>2, <1>3, <1>4 DEF FollowInv

LEMMA FollowPiv ==
  ASSUME FleetTypeOK, FollowInv, NEW g \in PivTokens, NEW c,
         (c \in Configs /\ (PivAppears(g, c) \/ TokenAdded(g, c))) \/ PivLeaves(g)
  PROVE  FollowInv'
<1>1. /\ UNCHANGED vars /\ UNCHANGED <<req, view, task>> /\ SteadyKept
      /\ \A i \in Transitions : g \notin steady'[i]
      /\ \A h \in PivTokens \ {g} : toks'[h] = toks[h]
  BY PivLeavesSteady DEF FollowInv
<1>2. /\ UNCHANGED <<trs, agent, pc, ctx>> /\ RowsKept /\ NoneBegins
      /\ AgentsGrow /\ NoneEnds /\ DoneKept
  BY <1>1, RowsStay, AgentsStay DEF vars, AgentsGrow, NoneEnds, DoneKept
<1>3. \A h \in PivTokens, i \in Transitions : h \in steady'[i] => toks'[h] = toks[h]
  BY <1>1
<1>4. LensKept
  BY <1>1, <1>3 DEF LensKept, SteadyKept, FleetTypeOK
<1>5. RowsInv'
  BY <1>1, <1>2, RowsInvKept DEF FollowInv
<1>6. PivsInv'
  BY PivsInvPiv DEF FollowInv
<1>7. ASSUME NEW s \in Services PROVE WorkInv(s)' /\ FetchedInv(s)'
  <2>1. Onward(s)
    BY <1>2, StaysOnward
  <2>2. WorkInv(s) /\ FetchedInv(s) /\ TypeOK
    BY DEF FollowInv, FleetTypeOK
  <2>3. \A i \in Transitions : i <= ctx[s].tr => steady'[i] \subseteq steady[i]
    BY <1>1 DEF SteadyKept
  <2>. QED  BY <1>1, <1>2, <1>4, <2>1, <2>2, <2>3, WorkInvKept, FetchedKept
<1>8. ASSUME NEW i \in Transitions PROVE TaskInv(i)'
  BY <1>1, <1>2, <1>4, TaskInvKept DEF FollowInv
<1>9. ASSUME NEW i \in Transitions, NEW h \in PivTokens PROVE MarkInv(i, h)'
  <2>1. h \in steady'[i] => MarksKept(h)
    BY <1>3 DEF MarksKept
  <2>. QED  BY <1>1, <1>2, <2>1, MarkInvKept DEF FollowInv
<1>. QED  BY <1>5, <1>6, <1>7, <1>8, <1>9 DEF FollowInv

LEMMA FollowAsk ==
  ASSUME FleetTypeOK, FollowInv, NEW c \in Configs, NEW name \in Names,
         NEW node \in Nodes \cup {Nil}, NEW forced \in BOOLEAN, Ask(c, name, node, forced)
  PROVE  FollowInv'
<1>1. UNCHANGED vars /\ UNCHANGED <<life, toks, view, task, steady>>
  BY DEF Ask
<1>2. RowsInv' /\ PivsInv'
  BY RowsInvAsk, PivsInvAsk DEF FollowInv
<1>3. UNCHANGED <<trs, agent, pc, ctx>>
  BY <1>1 DEF vars
<1>4. \A s \in Services : WorkInv(s)' /\ FetchedInv(s)'
  BY <1>1, <1>3 DEF FollowInv, WorkInv, Working, NotOvertaken, Begun, Open, FetchedInv,
                    Missing
<1>5. \A i \in Transitions : TaskInv(i)' /\ \A g \in PivTokens : MarkInv(i, g)'
  BY <1>1, <1>3 DEF FollowInv, TaskInv, MarkInv, NotOvertaken, Begun, Marked
<1>. QED  BY <1>2, <1>4, <1>5 DEF FollowInv

LEMMA FollowCreate ==
  ASSUME FleetTypeOK, FollowInv,
         NEW i \in Transitions, CreateTransition(i)
  PROVE  FollowInv'
<1>1. /\ UNCHANGED <<agent, pc, ctx, toks, view, task>>
      /\ \A j \in Transitions \ {i} : trs'[j] = trs[j] /\ steady'[j] = steady[j]
      /\ trs[i] = Nil /\ \A j \in Transitions : j < i => trs[j] # Nil
  BY CreatedRow DEF CreateTransition, FleetTypeOK
<1>2. RowsInv' /\ PivsInv'
  BY RowsInvCreate, PivsInvCreate DEF FollowInv
<1>3. ASSUME NEW s \in Services PROVE WorkInv(s)' /\ FetchedInv(s)'
  <2>1. WorkInv(s)'
    BY WorkInvCreate DEF FollowInv
  <2>2. CASE ~Working(s)
    BY <1>1, <2>1, <2>2 DEF FetchedInv, Working
  <2>3. CASE Working(s)
    <3>1. ctx[s].tr \in Transitions /\ trs[ctx[s].tr] # Nil
      BY <2>3 DEF Working, FleetTypeOK, TypeOK, Running, Labels, Context
    <3>2. ctx[s].tr < i
      BY <1>1, <3>1 DEF FollowInv, RowsInv, Transitions
    <3>3. \A j \in Transitions : j <= ctx[s].tr => steady'[j] = steady[j]
      BY <1>1, <3>1, <3>2 DEF Transitions
    <3>4. steady'[ctx[s].tr] = steady[ctx[s].tr]
      BY <1>1, <3>1
    <3>. QED  BY <1>1, <2>1, <3>3, <3>4 DEF FollowInv, FetchedInv, Missing
  <2>. QED  BY <2>1, <2>2, <2>3
<1>4. \A j \in Transitions : TaskInv(j)' /\ \A g \in PivTokens : MarkInv(j, g)'
  BY TaskInvCreate, MarkInvCreate DEF FollowInv
<1>. QED  BY <1>2, <1>3, <1>4 DEF FollowInv

LEMMA FollowUpdate ==
  ASSUME FleetTypeOK, FollowInv, UpdateWithoutTargets
  PROVE  FollowInv'
<1>1. /\ UNCHANGED <<trs, agent, pc, ctx>> /\ UNCHANGED <<life, toks, view, task, steady>>
      /\ req' = Nil
  BY DEF UpdateWithoutTargets
<1>2. RowsInv' /\ PivsInv'
  BY <1>1 DEF FollowInv, RowsInv, PivsInv, Open, Begun, Here
<1>3. \A s \in Services : WorkInv(s)' /\ FetchedInv(s)'
  BY <1>1 DEF FollowInv, WorkInv, Working, NotOvertaken, Begun, Open, FetchedInv,
              Missing
<1>4. \A i \in Transitions : TaskInv(i)' /\ \A g \in PivTokens : MarkInv(i, g)'
  BY <1>1 DEF FollowInv, TaskInv, MarkInv, NotOvertaken, Begun, Marked
<1>. QED  BY <1>2, <1>3, <1>4 DEF FollowInv

LEMMA FollowReports ==
  ASSUME FleetTypeOK, FollowInv, NEW j \in Transitions, NEW n \in Nodes, AgentReports(j, n)
  PROVE  FollowInv'
<1>1. /\ UNCHANGED <<trs, pc, ctx, life, req, view, task, steady>> /\ AgentDoes(j, n)
      /\ TypeOK
  BY DEF AgentReports, AgentDoes, FleetTypeOK
<1>2. RowsKept /\ NoneBegins /\ SteadyKept /\ LensKept /\ AgentsGrow
  <2>1. AgentsGrow
    BY <1>1 DEF AgentDoes, AgentsGrow, TypeOK
  <2>. QED  BY <1>1, <2>1, RowsStay, AgentBegins, ReportsKeepLens DEF SteadyKept
<1>3. RowsInv' /\ PivsInv'
  BY <1>1, <1>2, RowsInvKept, PivsInvKept DEF FollowInv
<1>4. ASSUME NEW s \in Services PROVE WorkInv(s)' /\ FetchedInv(s)'
  <2>1. Onward(s)
    BY <1>1, StaysOnward
  <2>2. WorkInv(s) /\ FetchedInv(s)
    BY DEF FollowInv
  <2>3. \A i \in Transitions : i <= ctx[s].tr => steady'[i] \subseteq steady[i]
    BY <1>1
  <2>. QED  BY <1>1, <1>2, <2>1, <2>2, <2>3, WorkInvKept, FetchedKept
<1>5. \A i \in Transitions : TaskInv(i)'
  BY <1>1, <1>2, TaskInvKept DEF FollowInv
<1>6. \A i \in Transitions : \A g \in PivTokens : MarkInv(i, g)'
  BY MarkInvReports DEF FollowInv
<1>. QED  BY <1>3, <1>4, <1>5, <1>6 DEF FollowInv

(* A step of the only service.                                              *)
LEMMA FollowService ==
  ASSUME OneService, FleetTypeOK, Progress, FollowInv, NEW s \in Services, FleetStep(s)
  PROVE  FollowInv'
<1>0. /\ \A u \in Services : u = s
      /\ TypeOK /\ RowsInv /\ PivsInv /\ WorkInv(s) /\ FetchedInv(s)
      /\ \A i \in Transitions : TaskInv(i) /\ \A g \in PivTokens : MarkInv(i, g)
  BY DEF OneService, FollowInv, FleetTypeOK
<1>a. /\ UNCHANGED <<life, req>> /\ SteadyKept
      /\ \A i \in Transitions : i <= ctx[s].tr => steady'[i] \subseteq steady[i]
  BY DEF Without, FleetStep, FleetList, FetchPivTokens, FetchTokens, CreateTokens, FleetLock,
         FleetBatch, Throw, fleetVars, SteadyKept
<1>b. RowsKept
  <2>1. CASE Step(s) \/ Crash(s)
    BY <1>0, <2>1, ServiceRows
  <2>2. CASE UNCHANGED trs
    BY <2>2, RowsStay
  <2>. QED  BY <2>1, <2>2
       DEF FleetStep, FleetList, FetchPivTokens, FetchTokens, CreateTokens, FleetLock,
           FleetBatch, Throw, vars, Step
<1>c. AgentsGrow \/ FleetBatch(s)
  BY DEF FleetStep, FleetList, FetchPivTokens, FetchTokens, CreateTokens, FleetLock, Throw,
         List, Lock, BatchEnds, RecordBatch, CompleteGet, CompletePut, ChangeConfig,
         ExpireUnused, AbortGet, AbortPut, Crash, vars, AgentsGrow
<1>d. UNCHANGED agent \/ FleetBatch(s)
  BY DEF FleetStep, FleetList, FetchPivTokens, FetchTokens, CreateTokens, FleetLock, Throw,
         List, Lock, BatchEnds, RecordBatch, CompleteGet, CompletePut, ChangeConfig,
         ExpireUnused, AbortGet, AbortPut, Crash, vars
<1>e. ASSUME FleetBatch(s)
      PROVE  /\ NoneEnds /\ DoneKept
             /\ \A i \in Transitions : i # ctx[s].tr => agent'[i] = agent[i]
  <2>1. ctx[s].tr \in Transitions
    BY <1>0, <1>e DEF FleetBatch, StartBatch, TypeOK, Running, Labels, Context
  <2>2. PICK given : agent' = [agent EXCEPT ![ctx[s].tr] =
                                [n \in Nodes |-> IF n \in given /\ @[n] = "none"
                                                 THEN "given" ELSE @[n]]]
    BY <1>e DEF FleetBatch, StartBatch
  <2>. QED  BY <1>0, <2>1, <2>2 DEF TypeOK, NoneEnds, DoneKept
<1>1. RowsInv'
  <2>1. CASE FleetBatch(s)
    BY <1>0, <2>1, RowsInvBatch
  <2>2. CASE UNCHANGED agent
    BY <1>0, <1>a, <1>b, <2>2, AgentsStay, RowsInvKept
  <2>. QED  BY <1>d, <2>1, <2>2
<1>2. PivsInv'
  BY <1>0, <1>a, <1>b, PivsInvKept
<1>3. Onward(s) \/ FleetList(s)
  <2>1. CASE FetchPivTokens(s) \/ CreateTokens(s)
    BY <2>1, StaysOnward DEF FetchPivTokens, CreateTokens, vars
  <2>2. CASE FetchTokens(s)
    <3>1. /\ UNCHANGED <<trs, ctx>>
          /\ pc' = pc \/ pc' = [pc EXCEPT ![s] = "abort"]
      BY <2>2 DEF FetchTokens, Goto
    <3>2. pc' = pc \/ pc'[s] = "abort"
      BY <1>0, <3>1 DEF TypeOK
    <3>3. CASE pc' = pc
      BY <3>1, <3>3, StaysOnward
    <3>4. CASE pc'[s] = "abort"
      BY <3>4 DEF Onward, Working
    <3>. QED  BY <3>2, <3>3, <3>4
  <2>3. CASE ~List(s) /\ (Step(s) \/ Crash(s))
    BY <1>0, <2>3, StepOnward
  <2>4. CASE List(s)
    <3>1. pc[s] = "idle"
      BY <2>4 DEF List
    <3>. QED  BY <3>1 DEF FleetStep, FetchPivTokens, FetchTokens, CreateTokens, FleetLock,
           FleetBatch, Throw, Lock, StartBatch, BatchEnds, RecordBatch, CompleteGet,
           CompletePut, ChangeConfig, ExpireUnused, AbortGet, AbortPut
  <2>. QED  BY <2>1, <2>2, <2>3, <2>4
       DEF FleetStep, FleetList, FleetLock, FleetBatch, Throw, Step
<1>4. WorkInv(s)'
  <2>1. CASE FleetList(s)
    BY <1>0, <2>1, WorkInvList DEF FleetList
  <2>2. CASE UNCHANGED agent /\ Onward(s)
    BY <1>0, <1>b, <2>2, AgentsStay, WorkInvKept
  <2>3. CASE FleetBatch(s) /\ Onward(s)
    <3>1. pc[s] = "batch" /\ ctx[s].tr \in Transitions /\ UNCHANGED trs
      BY <1>0, <2>3 DEF FleetBatch, StartBatch, TypeOK, Running, Labels, Context
    <3>2. \A j \in Transitions : ctx[s].tr < j => ~Begun(j)'
      <4>1. \A j \in Transitions : ctx[s].tr < j => j # ctx[s].tr
        BY <3>1 DEF Transitions
      <4>. QED  BY <1>0, <1>e, <2>3, <3>1, <4>1 DEF WorkInv, Working, NotOvertaken, Begun
    <3>. QED  BY <1>0, <2>3, <3>1, <3>2 DEF WorkInv, Working, Onward, NotOvertaken, Open
  <2>. QED  BY <1>3, <1>d, <2>1, <2>2, <2>3
<1>5. LensKept \/ CreateTokens(s)
  BY <1>a DEF FleetStep, FleetList, FetchPivTokens, FetchTokens, FleetLock, FleetBatch,
              Throw, fleetVars, LensKept
<1>6. FetchedInv(s)'
  <2>1. CASE FleetList(s) \/ FetchPivTokens(s) \/ FetchTokens(s) \/ CreateTokens(s)
    BY <1>0, <2>1, FetchedList, FetchedPivTokens, FetchedTokens, FetchedCreate
  <2>2. CASE ~(FleetList(s) \/ FetchPivTokens(s) \/ FetchTokens(s) \/ CreateTokens(s))
    <3>1. UNCHANGED view
      BY <2>2 DEF FleetStep, FleetLock, FleetBatch, Throw, fleetVars
    <3>. QED  BY <1>0, <1>3, <1>5, <1>a, <2>2, <3>1, FetchedKept
  <2>. QED  BY <2>1, <2>2
<1>7. ASSUME NEW i \in Transitions PROVE TaskInv(i)'
  <2>1. CASE FleetBatch(s)
    BY <1>0, <2>1, TaskInvBatch
  <2>2. CASE CreateTokens(s)
    BY <1>0, <2>2, TaskInvTokens
  <2>3. CASE ~FleetBatch(s) /\ ~CreateTokens(s)
    <3>1. UNCHANGED task
      BY <2>3 DEF FleetStep, FleetList, FetchPivTokens, FetchTokens, FleetLock, Throw, fleetVars
    <3>. QED  BY <1>0, <1>5, <1>a, <1>b, <1>c, <2>3, <3>1, TaskInvKept
  <2>. QED  BY <2>1, <2>2, <2>3
<1>8. ASSUME NEW i \in Transitions, NEW g \in PivTokens PROVE MarkInv(i, g)'
  <2>1. MarksKept(g)
    <3>1. CASE CreateTokens(s)
      BY <3>1, CreateKeepsMarks
    <3>2. CASE UNCHANGED toks
      BY <3>2 DEF MarksKept
    <3>. QED  BY <3>1, <3>2 DEF FleetStep, FleetList, FetchPivTokens, FetchTokens,
           FleetLock, FleetBatch, Throw, fleetVars
  <2>2. CASE UNCHANGED agent
    BY <1>0, <1>a, <1>b, <2>1, <2>2, MarkInvKept DEF NoneEnds, DoneKept
  <2>3. CASE FleetBatch(s)
    BY <1>0, <1>a, <1>b, <1>e, <2>1, <2>3, MarkInvKept
  <2>. QED  BY <1>d, <2>2, <2>3
<1>. QED  BY <1>0, <1>1, <1>2, <1>4, <1>6, <1>7, <1>8 DEF FollowInv

LEMMA FollowNext ==
  ASSUME OneService, FleetTypeOK, Progress, FollowInv,
         [FleetNext]_<<vars, fleetVars>>
  PROVE  FollowInv'
<1>1. CASE UNCHANGED <<vars, fleetVars>>
  <2>1. UNCHANGED <<trs, agent, pc, ctx, life, toks, req, view, task, steady>>
    BY <1>1 DEF vars, fleetVars
  <2>2. RowsInv' /\ PivsInv'
    BY <2>1 DEF FollowInv, RowsInv, PivsInv, Open, Begun, Here
  <2>3. \A s \in Services : WorkInv(s)' /\ FetchedInv(s)'
    BY <2>1 DEF FollowInv, WorkInv, Working, NotOvertaken, Begun, Open, FetchedInv,
                Missing
  <2>4. \A i \in Transitions : TaskInv(i)' /\ \A g \in PivTokens : MarkInv(i, g)'
    BY <2>1 DEF FollowInv, TaskInv, MarkInv, NotOvertaken, Begun, Marked
  <2>. QED  BY <2>2, <2>3, <2>4 DEF FollowInv
<1>2. CASE FleetNext
  <2>1. ASSUME NEW g \in PivTokens, NEW c \in Configs, PivAppears(g, c) \/ TokenAdded(g, c)
        PROVE  FollowInv'
    BY <2>1, FollowPiv
  <2>2. ASSUME NEW g \in PivTokens, PivLeaves(g) PROVE FollowInv'
    BY <2>2, FollowPiv
  <2>3. ASSUME NEW c \in Configs, NEW name \in Names, NEW node \in Nodes \cup {Nil},
               NEW forced \in BOOLEAN, Ask(c, name, node, forced)
        PROVE  FollowInv'
    BY <2>3, FollowAsk
  <2>4. ASSUME NEW i \in Transitions, CreateTransition(i) PROVE FollowInv'
    BY <2>4, FollowCreate
  <2>5. ASSUME NEW i \in Transitions, NEW n \in Nodes, AgentReports(i, n) PROVE FollowInv'
    BY <2>5, FollowReports
  <2>6. ASSUME NEW s \in Services, FleetStep(s) PROVE FollowInv'
    BY <2>6, FollowService
  <2>. QED  BY <1>2, <2>1, <2>2, <2>3, <2>4, <2>5, <2>6, FollowUpdate DEF FleetNext
<1>. QED  BY <1>1, <1>2

(* The nodes of a transition that changes its configuration are done, and   *)
(* their reports have marked the tokens.                                    *)
LEMMA FollowConfig ==
  ASSUME OneService, FleetTypeOK, Progress, FollowInv, FleetNext,
         NEW s \in Services, pc[s] = "config", config' # config,
         NEW g \in steady[ctx[s].tr]
  PROVE  /\ trs[ctx[s].tr].name = "stage"    => Marked(g, "staged")
         /\ trs[ctx[s].tr].name = "activate" => Marked(g, "activated")
<1> DEFINE k == ctx[s].tr
<1>1. TypeOK /\ k \in Transitions /\ trs[k] # Nil
  BY DEF FleetTypeOK, TypeOK, Running, Labels, Context
<1>2. g \in PivTokens /\ Cn[g] \in Nodes
  BY <1>1, FleetAssumption DEF FleetTypeOK
<1>3. ChangeConfig(s)
  <2>1. ~UpdateWithoutTargets
    BY <1>1 DEF UpdateWithoutTargets, FollowInv, PivsInv
  <2>2. PICK u \in Services : ChangeConfig(u)
    BY <2>1 DEF FleetNext, PivAppears, TokenAdded, PivLeaves, Ask, CreateTransition,
         AgentReports, AgentDoes, FleetStep, FleetList, FetchPivTokens, FetchTokens,
         CreateTokens, FleetLock, FleetBatch, Throw, List, Lock, StartBatch, BatchEnds,
         RecordBatch, CompleteGet, CompletePut, ExpireUnused, AbortGet, AbortPut, Crash, vars
  <2>. QED  BY <2>2 DEF OneService
<1>4. ~trs[k].standalone /\ ctx[s].errs = {}
  BY <1>3 DEF ChangeConfig, MayChange
<1>5. trs[k].completed = trs[k].targets /\ trs[k].errs = {}
  BY <1>4 DEF Progress, CtxInv
<1>6. Cn[g] \in trs[k].targets
  BY <1>1, <1>2, <1>4 DEF FollowInv, PivsInv
<1>7. agent[k][Cn[g]] = "done"
  BY <1>1, <1>5, <1>6 DEF Progress, RowInv, Settled
<1>8. NotOvertaken(k) /\ MarkInv(k, g)
  BY <1>1, <1>2 DEF FollowInv, WorkInv, Working
<1>. QED  BY <1>7, <1>8 DEF MarkInv

(* ConfigFollowsTokens, for any number of nodes, PIV tokens, recovery       *)
(* tokens, transitions and deaths (fsm-transition.js 289-294,               *)
(* transitioner.js 376-517, 655-700, 811-826), wherever lists are cut, with *)
(* one service.                                                             *)
THEOREM ConfigFollowsMarks ==
  ASSUME OneService, Droppable = {}
  PROVE  FleetSpec => ConfigFollowsTokens
<1> DEFINE Inv == FleetTypeOK /\ Progress /\ FollowInv
<1>1. FleetInit => Inv
  BY FleetInitType, FleetProgressInit, FollowInit
<1>2. Inv /\ [FleetNext]_<<vars, fleetVars>> => Inv'
  BY FleetTypeNext, FleetProgressNext, FollowNext
<1>3. Inv /\ [FleetNext]_<<vars, fleetVars>> =>
        [\A s \in Services :
           LET row == trs[ctx[s].tr]
           IN pc[s] = "config" /\ config' # config =>
                \A g \in steady[ctx[s].tr] :
                  /\ row.name = "stage"    => Marked(g, "staged")
                  /\ row.name = "activate" => Marked(g, "activated")]_<<vars, fleetVars>>
  BY FollowConfig
<1> HIDE DEF Inv
<1>. QED  BY <1>1, <1>2, <1>3, PTL DEF FleetSpec, ConfigFollowsTokens
=============================================================================
