--------------------------- MODULE PivTokens_proofs ---------------------------
(***************************************************************************)
(* The pins are kept, for any number of PIV tokens, requests and crashes.  *)
(* A row that waits to be archived may be stale; it is not as long as the  *)
(* history has no entry for its guid, because nobody retires a PIV token   *)
(* without leaving one.                                                    *)
(***************************************************************************)
EXTENDS PivTokens, TLAPS

StillThere ==
  \A h \in Handlers :
    pc[h] = "archive" /\ history[ctx[h].old] = Nil => piv[ctx[h].old] = ctx[h].row

IInv == TypeOK /\ StillThere /\ OneRetirement

-----------------------------------------------------------------------------
(* What a handler moves on to, it is typed for: the others keep what they   *)
(* had.                                                                     *)
LEMMA GotoTypes ==
  ASSUME TypeOK, NEW h \in Handlers, NEW label, NEW c, Goto(h, label, c),
         label \in {"idle", "archive", "delete", "config", "create"},
         label \in {"archive", "delete"} => c \in Retirement,
         label \in {"config", "create"} => c \in NewToken
  PROVE  /\ pc' \in [Handlers -> {"idle", "archive", "delete", "config", "create"}]
         /\ DOMAIN ctx' = Handlers
         /\ \A k \in Handlers :
              /\ pc'[k] \in {"archive", "delete"} => ctx'[k] \in Retirement
              /\ pc'[k] \in {"config", "create"} => ctx'[k] \in NewToken
BY DEF TypeOK, Goto

LEMMA TypeStep ==
  ASSUME TypeOK, [Next]_vars
  PROVE  TypeOK'
<1> USE NilAssumption, MaxCrashesAssumption
<1>1. ASSUME NEW h \in Handlers, NEW g \in Guids, NEW life \in Lives,
             CreateRequest(h, g, life)
      PROVE  TypeOK'
  <2>1. [new |-> g, life |-> life] \in NewToken
    BY DEF NewToken
  <2> QED
    BY <1>1, <2>1, GotoTypes DEF CreateRequest, TypeOK
<1>2. ASSUME NEW h \in Handlers, NEW g \in Guids, NEW next \in NewToken \cup {Nil},
             RetireRequest(h, g, next)
      PROVE  TypeOK'
  <2>1. [old |-> g, row |-> piv[g], next |-> next] \in Retirement
    BY <1>2 DEF RetireRequest, Retirement, TypeOK
  <2> QED
    BY <1>2, <2>1, GotoTypes DEF RetireRequest, TypeOK
<1>3. ASSUME NEW h \in Handlers, Archive(h)
      PROVE  TypeOK'
  <2>1. ctx[h] \in Retirement
    BY <1>3 DEF Archive, TypeOK
  <2>2. history' \in [Guids -> Lives \cup {Nil}]
    BY <1>3, <2>1 DEF Archive, TypeOK, Retirement
  <2>3. Goto(h, "delete", ctx[h]) \/ Goto(h, "idle", Nil)
    BY <1>3 DEF Archive, Finish
  <2> QED
    BY <1>3, <2>1, <2>2, <2>3, GotoTypes DEF Archive, TypeOK
<1>4. ASSUME NEW h \in Handlers, Delete(h)
      PROVE  TypeOK'
  <2>1. ctx[h] \in Retirement
    BY <1>4 DEF Delete, TypeOK
  <2>2. piv' \in [Guids -> Lives \cup {Nil}]
    BY <1>4 DEF Delete, TypeOK
  <2>3. \/ ctx[h].next \in NewToken /\ Goto(h, "config", ctx[h].next)
        \/ Goto(h, "idle", Nil)
    BY <1>4, <2>1 DEF Delete, Finish, Retirement
  <2> QED
    BY <1>4, <2>2, <2>3, GotoTypes DEF Delete, TypeOK
<1>5. ASSUME NEW h \in Handlers, FetchConfig(h)
      PROVE  TypeOK'
  <2>1. ctx[h] \in NewToken
    BY <1>5 DEF FetchConfig, TypeOK
  <2>2. Goto(h, "create", ctx[h]) \/ Goto(h, "idle", Nil)
    BY <1>5 DEF FetchConfig, Finish
  <2> QED
    BY <1>5, <2>1, <2>2, GotoTypes DEF FetchConfig, TypeOK
<1>6. ASSUME NEW h \in Handlers, CreateBatch(h)
      PROVE  TypeOK'
  <2>1. ctx[h] \in NewToken
    BY <1>6 DEF CreateBatch, TypeOK
  <2>2. piv' \in [Guids -> Lives \cup {Nil}]
    BY <1>6, <2>1 DEF CreateBatch, TypeOK, NewToken
  <2> QED
    BY <1>6, <2>2, GotoTypes DEF CreateBatch, Finish, TypeOK
<1>7. CASE ConfigsChange
  BY <1>7 DEF ConfigsChange, TypeOK
<1>8. CASE Crash
  BY <1>8 DEF Crash, TypeOK
<1>9. CASE UNCHANGED vars
  BY <1>9 DEF vars, TypeOK
<1> QED
  BY <1>1, <1>2, <1>3, <1>4, <1>5, <1>6, <1>7, <1>8, <1>9 DEF Next

-----------------------------------------------------------------------------
LEMMA RetirementStep ==
  ASSUME IInv, [Next]_vars
  PROVE  StillThere' /\ OneRetirement'
<1> USE NilAssumption DEF IInv
<1>1. ASSUME NEW h \in Handlers, NEW g \in Guids, NEW life \in Lives,
             CreateRequest(h, g, life)
      PROVE  StillThere' /\ OneRetirement'
  BY <1>1 DEF CreateRequest, Goto, TypeOK, StillThere, OneRetirement
<1>2. ASSUME NEW h \in Handlers, NEW g \in Guids, NEW next \in NewToken \cup {Nil},
             RetireRequest(h, g, next)
      PROVE  StillThere' /\ OneRetirement'
  BY <1>2 DEF RetireRequest, Goto, TypeOK, StillThere, OneRetirement
<1>3. ASSUME NEW h \in Handlers, Archive(h)
      PROVE  StillThere' /\ OneRetirement'
  <2> DEFINE g == ctx[h].old
  <2>1. ctx[h] \in Retirement /\ g \in Guids /\ ctx[h].row \in Lives
    BY <1>3 DEF Archive, TypeOK, Retirement
  <2>2. CASE history[g] = Nil
    <3>1. history' = [history EXCEPT ![g] = ctx[h].row]
      BY <1>3, <2>2 DEF Archive, MayArchive, Absent
    <3>2. pc' = [pc EXCEPT ![h] = "delete"] /\ ctx' = [ctx EXCEPT ![h] = ctx[h]]
      BY <1>3, <2>2 DEF Archive, MayArchive, Absent, Goto
    <3>3. piv' = piv /\ piv[g] = ctx[h].row
      BY <1>3, <2>2 DEF Archive, StillThere
    <3>4. \A k \in Handlers : ctx'[k] = ctx[k]
      BY <3>2 DEF TypeOK
    <3>5. \A k \in Handlers : pc[k] = "delete" => ctx[k].old # g
      BY <2>2, <2>1 DEF OneRetirement, TypeOK, Retirement
    <3>6. \A k \in Handlers : pc[k] \in {"archive", "delete"} => ctx[k].old \in Guids
      BY DEF TypeOK, Retirement
    <3>7. StillThere'
      BY <2>1, <2>2, <3>1, <3>2, <3>3, <3>4, <3>6 DEF StillThere, TypeOK
    <3>8. OneRetirement'
      BY <2>1, <3>1, <3>2, <3>3, <3>4, <3>5, <3>6 DEF OneRetirement, TypeOK
    <3> QED
      BY <3>7, <3>8
  <2>3. CASE history[g] # Nil
    BY <1>3, <2>3
    DEF Archive, MayArchive, Absent, Finish, Goto, TypeOK, StillThere, OneRetirement
  <2> QED
    BY <2>2, <2>3
<1>4. ASSUME NEW h \in Handlers, Delete(h)
      PROVE  StillThere' /\ OneRetirement'
  <2>1. \A k \in Handlers :
          pc[k] \in {"archive", "delete"} => ctx[k].old \in Guids /\ ctx[k].row \in Lives
    BY DEF TypeOK, Retirement
  <2>2. history[ctx[h].old] # Nil
    BY <1>4, <2>1 DEF Delete, OneRetirement
  <2>3. \A k \in Handlers : k # h => pc'[k] = pc[k] /\ ctx'[k] = ctx[k]
    BY <1>4 DEF Delete, Goto, Finish, TypeOK
  <2>4. pc'[h] \in {"idle", "config"}
    BY <1>4 DEF Delete, Goto, Finish, TypeOK
  <2>5. /\ history' = history
        /\ piv' = [piv EXCEPT ![ctx[h].old] = Nil]
        /\ pc[h] = "delete"
    BY <1>4 DEF Delete
  <2>6. StillThere'
    BY <2>1, <2>2, <2>3, <2>4, <2>5 DEF StillThere, TypeOK
  <2>7. OneRetirement'
    BY <2>1, <2>3, <2>4, <2>5 DEF OneRetirement, TypeOK
  <2> QED
    BY <2>6, <2>7
<1>5. ASSUME NEW h \in Handlers, FetchConfig(h)
      PROVE  StillThere' /\ OneRetirement'
  BY <1>5 DEF FetchConfig, Finish, Goto, TypeOK, StillThere, OneRetirement
<1>6. ASSUME NEW h \in Handlers, CreateBatch(h)
      PROVE  StillThere' /\ OneRetirement'
  <2>1. \A k \in Handlers :
          pc[k] \in {"archive", "delete"} => ctx[k].old \in Guids /\ ctx[k].row \in Lives
    BY DEF TypeOK, Retirement
  <2>2. /\ history' = history
        /\ pc' = [pc EXCEPT ![h] = "idle"] /\ ctx' = [ctx EXCEPT ![h] = Nil]
    BY <1>6 DEF CreateBatch, Finish, Goto
  <2>3. \A g \in Guids : piv[g] # Nil => piv'[g] = piv[g]
    BY <1>6 DEF CreateBatch, Absent, TypeOK
  <2> QED
    BY <2>1, <2>2, <2>3 DEF StillThere, OneRetirement, TypeOK
<1>7. CASE ConfigsChange
  BY <1>7 DEF ConfigsChange, StillThere, OneRetirement
<1>8. CASE Crash
  BY <1>8 DEF Crash, StillThere, OneRetirement
<1>9. CASE UNCHANGED vars
  BY <1>9 DEF vars, StillThere, OneRetirement
<1> QED
  BY <1>1, <1>2, <1>3, <1>4, <1>5, <1>6, <1>7, <1>8, <1>9 DEF Next

LEMMA IInvInit ==
  ASSUME Init
  PROVE  IInv
BY MaxCrashesAssumption DEF Init, IInv, TypeOK, StillThere, OneRetirement

LEMMA Inductive == Spec => []IInv
<1>1. IInv /\ [Next]_vars => IInv'
  BY TypeStep, RetirementStep DEF IInv
<1> QED
  BY <1>1, IInvInit, PTL DEF Spec

(* Types, and a handler that archives has a row (pivtokens.js 80-110).      *)
THEOREM TypeCorrect == Spec => []TypeOK
<1>1. IInv => TypeOK
  BY DEF IInv
<1> QED
  BY <1>1, Inductive, PTL

(* A deletion under way is the only one of its guid, and deletes what it    *)
(* archived (pivtokens.js 80-110).                                          *)
THEOREM RetirementsAreExclusive == Spec => []OneRetirement
<1>1. IInv => OneRetirement
  BY DEF IInv
<1> QED
  BY <1>1, Inductive, PTL

-----------------------------------------------------------------------------
LEMMA KeptStep ==
  ASSUME IInv, [Next]_vars, NEW g \in Guids
  PROVE  Kept(g) \subseteq Kept(g)'
<1> USE NilAssumption DEF IInv, Kept
<1>1. ASSUME NEW h \in Handlers, Archive(h)
      PROVE  Kept(g) \subseteq Kept(g)'
  BY <1>1 DEF Archive, MayArchive, Absent, TypeOK
<1>2. ASSUME NEW h \in Handlers, Delete(h)
      PROVE  Kept(g) \subseteq Kept(g)'
  BY <1>2 DEF Delete, OneRetirement, TypeOK
<1>3. ASSUME NEW h \in Handlers, CreateBatch(h)
      PROVE  Kept(g) \subseteq Kept(g)'
  BY <1>3 DEF CreateBatch, Absent, TypeOK
<1>4. CASE UNCHANGED <<piv, history>>
  BY <1>4
<1> QED
  BY <1>1, <1>2, <1>3, <1>4
  DEF Next, CreateRequest, RetireRequest, FetchConfig, ConfigsChange, Crash, vars

(* No pin is ever lost (docs/README.md 188-190), for any number of PIV      *)
(* tokens, of requests that race and of crashes.                            *)
THEOREM PinsNeverLost == Spec => PinsAreKept
<1>1. IInv /\ [Next]_vars => [\A g \in Guids : Kept(g) \subseteq Kept(g)']_vars
  BY KeptStep
<1> QED
  BY <1>1, Inductive, PTL DEF Spec, PinsAreKept
=============================================================================
