--------------------------- MODULE Lifecycle_proofs ---------------------------
(***************************************************************************)
(* The safety of start-up and of the polling loop, for any number of       *)
(* servers, buckets, runs and failures.  A server remembers only the       *)
(* buckets of its current attempt; the service has no run while its timer  *)
(* is set or its process is not up, and its current transition is open as  *)
(* long as a run works on it only because no other run can settle it.      *)
(***************************************************************************)
EXTENDS Lifecycle, TLAPS

ServerStates == {"down", "connecting", "unconnected", "backoff", "init", "running"}

RunStates == {"free", "listing", "working", "aborting"}

MadeIsThere ==
  \A k \in Servers, b \in Buckets :
    server[k] = "init" /\ made[k][b] = "ok" => b \in buckets

ServerInv ==
  /\ buckets \subseteq Buckets
  /\ server \in [Servers -> ServerStates]
  /\ made \in [Servers -> [Buckets -> {"get", "create", "ok", "failed"}]]
  /\ ServesFromBuckets
  /\ MadeIsThere

ServiceInv ==
  /\ proc \in {"down", "connecting", "up"}
  /\ run \in [Runs -> RunStates]
  /\ timer \in BOOLEAN
  /\ currTr \in {"none", "open", "settled"}
  /\ prune \in {"off", "history", "tokens", "wait"}
  /\ \A r \in Runs : run[r] = "working" => currTr = "open"
  /\ currTr = "open" => open > 0
  /\ \A r, q \in Runs : run[r] # "free" /\ run[q] # "free" => r = q
  /\ timer \/ proc # "up" => \A r \in Runs : run[r] = "free"
  /\ timer => proc = "up"

Counts == open \in Nat /\ faults \in Nat /\ starts \in Nat

IInv == ServerInv /\ ServiceInv /\ Counts

LEMMA InvImplies ==
  ASSUME IInv
  PROVE  TypeOK /\ ServesFromBuckets /\ OneRun
BY DEF IInv, ServerInv, ServiceInv, Counts, ServerStates, RunStates, TypeOK, OneRun, Busy

LEMMA CountsStep ==
  ASSUME Counts, Works \/ Fails \/ UNCHANGED faults
  PROVE  faults' \in Nat
BY DEF Counts, Works, Fails

-----------------------------------------------------------------------------
(* A step of a server leaves the service alone.                             *)
LEMMA ServersApart ==
  ASSUME ServiceInv, Counts, UNCHANGED transitionerVars, open' \in Nat, open' >= open
  PROVE  ServiceInv'
BY DEF ServiceInv, Counts, transitionerVars

(* A server that neither begins to create buckets nor to serve.             *)
LEMMA ServerMoves ==
  ASSUME ServerInv, NEW k \in Servers, NEW state \in ServerStates \ {"init", "running"},
         Enter(k, state), UNCHANGED <<buckets, made, open>>
  PROVE  ServerInv'
BY DEF ServerInv, Enter, ServesFromBuckets, MadeIsThere

(* A server that goes on with one of its buckets.                           *)
LEMMA BucketMoves ==
  ASSUME ServerInv, NEW k \in Servers, NEW b \in Buckets,
         NEW state \in {"get", "create", "ok", "failed"}, Progress(k, b, state),
         buckets \subseteq buckets', buckets' \subseteq Buckets,
         state = "ok" => b \in buckets', UNCHANGED <<server, open>>
  PROVE  ServerInv'
<1>1. made' \in [Servers -> [Buckets -> {"get", "create", "ok", "failed"}]]
  BY DEF ServerInv, Progress
<1>2. \A j \in Servers, c \in Buckets :
        made'[j][c] = IF j = k /\ c = b THEN state ELSE made[j][c]
  BY DEF ServerInv, Progress
<1>3. MadeIsThere'
  BY <1>2 DEF ServerInv, MadeIsThere
<1>4. ServesFromBuckets'
  BY DEF ServerInv, ServesFromBuckets
<1> QED
  BY <1>1, <1>3, <1>4 DEF ServerInv

LEMMA ServerStep ==
  ASSUME IInv, NEW k \in Servers,
         ServerStarts(k) \/ Initialize(k) \/ Request(k) \/ ServerDies(k)
  PROVE  IInv'
<1>0. ServerInv /\ ServiceInv /\ Counts
  BY DEF IInv
<1>a. ASSUME UNCHANGED <<open, transitionerVars>>
      PROVE  ServiceInv'
  BY <1>0, <1>a, ServersApart DEF Counts
<1>1. CASE ServerStarts(k)
  <2>1. ServerInv'
    BY <1>0, <1>1, ServerMoves DEF ServerStarts, ServerStates
  <2> QED
    BY <1>0, <1>a, <1>1, <2>1 DEF ServerStarts, IInv, Counts
<1>2. CASE ServerConnects(k)
  <2>1. ServerInv'
    BY <1>0, <1>2, ServerMoves DEF ServerConnects, ServerStates
  <2>2. faults' \in Nat
    BY <1>0, <1>2, CountsStep DEF ServerConnects
  <2> QED
    BY <1>0, <1>a, <1>2, <2>1, <2>2 DEF ServerConnects, IInv, Counts
<1>3. CASE InitModels(k)
  <2>1. ServerInv'
    BY <1>0, <1>3
    DEF InitModels, Enter, ServerInv, ServerStates, ServesFromBuckets, MadeIsThere
  <2> QED
    BY <1>0, <1>a, <1>3, <2>1 DEF InitModels, IInv, Counts
<1>4. ASSUME NEW b \in Buckets, GetBucket(k, b)
      PROVE  IInv'
  <2>1. ServerInv'
    <3>1. \E state \in {"get", "create", "ok", "failed"} :
            Progress(k, b, state) /\ (state = "ok" => b \in buckets)
      BY <1>4 DEF GetBucket
    <3> QED
      BY <1>0, <1>4, <3>1, BucketMoves DEF GetBucket, ServerInv
  <2>2. faults' \in Nat
    BY <1>0, <1>4, CountsStep DEF GetBucket
  <2> QED
    BY <1>0, <1>a, <1>4, <2>1, <2>2 DEF GetBucket, IInv, Counts
<1>5. ASSUME NEW b \in Buckets, CreateBucket(k, b)
      PROVE  IInv'
  <2>1. ServerInv'
    <3>1. buckets \subseteq buckets' /\ buckets' \subseteq Buckets
      BY <1>0, <1>5 DEF CreateBucket, ServerInv
    <3>2. \E state \in {"get", "create", "ok", "failed"} :
            Progress(k, b, state) /\ (state = "ok" => b \in buckets')
      BY <1>5 DEF CreateBucket
    <3> QED
      BY <1>0, <1>5, <3>1, <3>2, BucketMoves DEF CreateBucket
  <2>2. faults' \in Nat
    BY <1>0, <1>5, CountsStep DEF CreateBucket
  <2> QED
    BY <1>0, <1>a, <1>5, <2>1, <2>2 DEF CreateBucket, IInv, Counts
<1>6. CASE InitDone(k)
  <2>1. ServerInv'
    <3>1. CASE AllMade(k) /\ Enter(k, "running")
      <4>1. buckets = Buckets
        BY <1>0, <1>6, <3>1 DEF InitDone, AllMade, ServerInv, MadeIsThere
      <4> QED
        BY <1>0, <1>6, <3>1, <4>1
        DEF InitDone, Enter, ServerInv, ServerStates, ServesFromBuckets, MadeIsThere
    <3>2. CASE Enter(k, "backoff")
      BY <1>0, <1>6, <3>2, ServerMoves DEF InitDone, ServerStates
    <3> QED
      BY <1>6, <3>1, <3>2 DEF InitDone, Retry
  <2> QED
    BY <1>0, <1>a, <1>6, <2>1 DEF InitDone, IInv, Counts
<1>7. CASE Request(k)
  <2>1. open' \in Nat /\ open' >= open
    BY <1>0, <1>7 DEF Request, Counts
  <2>2. ServerInv'
    BY <1>0, <1>7 DEF Request, serverVars, ServerInv, ServesFromBuckets, MadeIsThere
  <2>3. ServiceInv'
    BY <1>0, <1>7, <2>1, ServersApart DEF Request
  <2> QED
    BY <1>0, <1>7, <2>1, <2>2, <2>3 DEF Request, IInv, Counts
<1>8. CASE ServerDies(k)
  <2>1. ServerInv'
    BY <1>0, <1>8, ServerMoves DEF ServerDies, ServerStates
  <2> QED
    BY <1>0, <1>a, <1>8, <2>1 DEF ServerDies, IInv, Counts
<1> QED
  BY <1>1, <1>2, <1>3, <1>4, <1>5, <1>6, <1>7, <1>8 DEF Initialize

-----------------------------------------------------------------------------
(* A step of the service leaves the servers alone, and opens no transition. *)
LEMMA ServiceApart ==
  ASSUME ServerInv, Counts, UNCHANGED <<buckets, serverVars>>, open' \in Nat, open' <= open
  PROVE  ServerInv'
BY DEF ServerInv, Counts, serverVars, ServesFromBuckets, MadeIsThere

LEMMA GoneStep ==
  ASSUME Gone
  PROVE  ServiceInv'
BY DEF Gone, NoRuns, ServiceInv, RunStates

(* The only run there is goes on, or ends.                                  *)
LEMMA RunMoves ==
  ASSUME ServiceInv, NEW r \in Runs, NEW state \in RunStates,
         Busy(r), To(r, state), UNCHANGED <<proc, prune>>,
         timer' = timer \/ (timer' = TRUE /\ state = "free"),
         currTr' \in {"none", "open", "settled"},
         state = "working" => currTr' = "open", currTr' = "open" => open' > 0
  PROVE  ServiceInv'
<1>1. /\ timer = FALSE /\ proc = "up"
      /\ \A q \in Runs : q # r => run[q] = "free"
  BY DEF ServiceInv, Busy
<1>2. run' \in [Runs -> RunStates]
  BY DEF To, ServiceInv
<1>3. \A q \in Runs : run'[q] = IF q = r THEN state ELSE "free"
  BY <1>1 DEF To, ServiceInv
<1> QED
  BY <1>1, <1>2, <1>3 DEF ServiceInv

LEMMA RunStepKeeps ==
  ASSUME IInv, NEW r \in Runs, RunStep(r)
  PROVE  IInv'
<1>0. ServerInv /\ ServiceInv /\ Counts
  BY DEF IInv
<1>a. run[r] = "working" => currTr = "open"
  BY <1>0 DEF ServiceInv
<1>b. (currTr = "open" => open > 0) /\ currTr \in {"none", "open", "settled"} /\ open \in Nat
  BY <1>0 DEF ServiceInv, Counts
<1>1. CASE ListTransitions(r)
  <2>1. Busy(r)
    BY <1>1 DEF ListTransitions, Busy
  <2>2. faults' \in Nat
    BY <1>0, <1>1, CountsStep DEF ListTransitions
  <2>3. UNCHANGED <<buckets, serverVars, open, proc, prune, starts>>
    BY <1>1 DEF ListTransitions
  <2>4. \/ To(r, "free") /\ SetTimer /\ UNCHANGED currTr
        \/ To(r, "working") /\ currTr' = "open" /\ UNCHANGED timer /\ open # 0
        \/ To(r, "free") /\ UNCHANGED <<timer, currTr>>
        \/ To(r, "aborting") /\ UNCHANGED <<timer, currTr>>
    BY <1>1 DEF ListTransitions
  <2>5. ServiceInv'
    <3>1. CASE To(r, "free") /\ SetTimer /\ UNCHANGED currTr
      BY <1>0, <1>b, <2>1, <2>3, <3>1, RunMoves DEF SetTimer, RunStates
    <3>2. CASE To(r, "working") /\ currTr' = "open" /\ UNCHANGED timer /\ open # 0
      BY <1>0, <1>b, <2>1, <2>3, <3>2, RunMoves DEF RunStates
    <3>3. CASE To(r, "free") /\ UNCHANGED <<timer, currTr>>
      BY <1>0, <1>b, <2>1, <2>3, <3>3, RunMoves DEF RunStates
    <3>4. CASE To(r, "aborting") /\ UNCHANGED <<timer, currTr>>
      BY <1>0, <1>b, <2>1, <2>3, <3>4, RunMoves DEF RunStates
    <3> QED
      BY <2>4, <3>1, <3>2, <3>3, <3>4
  <2>6. ServerInv'
    BY <1>0, <1>b, <2>3, ServiceApart
  <2> QED
    BY <1>0, <2>2, <2>3, <2>5, <2>6 DEF IInv, Counts
<1>2. CASE Work(r)
  <2>1. Busy(r) /\ open > 0
    BY <1>a, <1>b, <1>2 DEF Work, Busy
  <2>2. faults' \in Nat
    BY <1>0, <1>2, CountsStep DEF Work
  <2>3. UNCHANGED <<buckets, serverVars, starts>>
    BY <1>2 DEF Work
  <2>4. open' \in Nat /\ open' <= open
    BY <1>b, <1>2, <2>1 DEF Work
  <2>5. ServiceInv'
    <3>1. CASE /\ To(r, "listing") /\ currTr' = "settled"
               /\ UNCHANGED <<proc, timer, prune>>
      BY <1>0, <2>1, <3>1, RunMoves DEF RunStates
    <3>2. CASE To(r, "aborting") /\ UNCHANGED <<open, proc, timer, currTr, prune>>
      BY <1>0, <1>b, <2>1, <3>2, RunMoves DEF RunStates
    <3>3. CASE Gone
      BY <3>3, GoneStep
    <3> QED
      BY <1>2, <3>1, <3>2, <3>3 DEF Work
  <2>6. ServerInv'
    BY <1>0, <2>3, <2>4, ServiceApart
  <2> QED
    BY <1>0, <2>2, <2>3, <2>4, <2>5, <2>6 DEF IInv, Counts
<1>3. CASE Abort(r)
  <2>1. Busy(r)
    BY <1>3 DEF Abort, Busy
  <2>2. faults' \in Nat
    BY <1>0, <1>3, CountsStep DEF Abort
  <2>3. UNCHANGED <<buckets, serverVars, proc, prune, starts>>
    BY <1>3 DEF Abort
  <2>4. open' \in Nat /\ open' <= open
    BY <1>b, <1>3 DEF Abort
  <2>5. ServiceInv'
    BY <1>0, <1>3, <2>1, <2>3, RunMoves DEF Abort, SetTimer, ForgetCurrent, RunStates
  <2>6. ServerInv'
    BY <1>0, <2>3, <2>4, ServiceApart
  <2> QED
    BY <1>0, <2>2, <2>3, <2>4, <2>5, <2>6 DEF IInv, Counts
<1> QED
  BY <1>1, <1>2, <1>3 DEF RunStep

(* A run begins when there is none.                                         *)
LEMMA LaunchKeeps ==
  ASSUME ServiceInv, Launch, \A r \in Runs : run[r] = "free", proc' = "up", timer' = FALSE,
         prune' \in {"off", "history", "tokens", "wait"}, UNCHANGED <<open, currTr>>
  PROVE  ServiceInv'
<1>1. PICK r \in Runs : To(r, "listing")
  BY DEF Launch
<1>2. \A q \in Runs : run'[q] = IF q = r THEN "listing" ELSE "free"
  BY <1>1 DEF To, ServiceInv
<1>3. run' \in [Runs -> RunStates]
  BY <1>1 DEF To, ServiceInv, RunStates
<1> QED
  BY <1>2, <1>3 DEF ServiceInv

LEMMA InvStep ==
  ASSUME IInv, [Next]_vars
  PROVE  IInv'
<1>0. ServerInv /\ ServiceInv /\ Counts
  BY DEF IInv
<1>a. ASSUME UNCHANGED <<buckets, serverVars, open>>
      PROVE  ServerInv'
  BY <1>0, <1>a, ServiceApart DEF Counts
<1>1. CASE TransitionerStarts
  <2>1. ServiceInv'
    BY <1>0, <1>1 DEF TransitionerStarts, ServiceInv
  <2> QED
    BY <1>0, <1>a, <1>1, <2>1 DEF TransitionerStarts, IInv, Counts
<1>2. CASE TransitionerConnects
  <2>1. faults' \in Nat
    BY <1>0, <1>2, CountsStep DEF TransitionerConnects
  <2>2. ServiceInv'
    <3>1. CASE Launch /\ proc' = "up" /\ prune' = "history" /\ UNCHANGED <<timer, currTr>>
      <4>1. timer = FALSE /\ \A r \in Runs : run[r] = "free"
        BY <1>0, <1>2 DEF TransitionerConnects, ServiceInv
      <4> QED
        BY <1>0, <1>2, <3>1, <4>1, LaunchKeeps DEF TransitionerConnects
    <3>2. CASE Gone
      BY <3>2, GoneStep
    <3> QED
      BY <1>2, <3>1, <3>2 DEF TransitionerConnects
  <2> QED
    BY <1>0, <1>a, <1>2, <2>1, <2>2 DEF TransitionerConnects, IInv, Counts
<1>3. CASE TransitionerDies
  BY <1>0, <1>a, <1>3, GoneStep DEF TransitionerDies, IInv, Counts
<1>4. CASE Poll
  <2>1. proc = "up" /\ \A r \in Runs : run[r] = "free"
    BY <1>0, <1>4 DEF Poll, ServiceInv
  <2>2. prune' \in {"off", "history", "tokens", "wait"}
    BY <1>0, <1>4 DEF Poll, ServiceInv
  <2>3. ServiceInv'
    BY <1>0, <1>4, <2>1, <2>2, LaunchKeeps DEF Poll, ClearTimer
  <2> QED
    BY <1>0, <1>a, <1>4, <2>3 DEF Poll, IInv, Counts
<1>5. CASE Prune
  <2>1. faults' \in Nat
    BY <1>0, <1>5, CountsStep DEF Prune
  <2>2. prune' \in {"off", "history", "tokens", "wait"}
    BY <1>5 DEF Prune, NextPrune
  <2>3. ServiceInv'
    BY <1>0, <1>5, <2>2 DEF Prune, ServiceInv
  <2> QED
    BY <1>0, <1>a, <1>5, <2>1, <2>3 DEF Prune, IInv, Counts
<1>6. CASE UNCHANGED vars
  <2>1. ServiceInv'
    BY <1>0, <1>6 DEF vars, transitionerVars, ServiceInv
  <2> QED
    BY <1>0, <1>a, <1>6, <2>1 DEF vars, IInv, Counts
<1> QED
  BY <1>1, <1>2, <1>3, <1>4, <1>5, <1>6, ServerStep, RunStepKeeps DEF Next

LEMMA Invariant == Spec => []IInv
<1>1. Init => IInv
  <2> SUFFICES ASSUME Init
               PROVE  IInv
    OBVIOUS
  <2>1. ServerInv
    BY DEF Init, ServerInv, ServerStates, ServesFromBuckets, MadeIsThere
  <2>2. ServiceInv
    BY DEF Init, NoRuns, ServiceInv, RunStates
  <2> QED
    BY <2>1, <2>2 DEF Init, IInv, Counts
<1>2. IInv /\ [Next]_vars => IInv'
  BY InvStep
<1> QED
  BY <1>1, <1>2, PTL DEF Spec

(* Types of the life-cycle model: a run works on an open transition only.   *)
THEOREM TypeCorrect == Spec => []TypeOK
BY Invariant, InvImplies, PTL

(* Whatever fails and whoever creates them, nothing is served without its   *)
(* buckets.                                                                 *)
THEOREM BucketsBeforeService == Spec => []ServesFromBuckets
BY Invariant, InvImplies, PTL

(* Timers, hangups and errors never give the service two runs.              *)
THEOREM OneRunAtATime == Spec => []OneRun
BY Invariant, InvImplies, PTL
=============================================================================
