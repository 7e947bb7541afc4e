------------------------------ MODULE PivTokens ------------------------------
(***************************************************************************)
(* The PIV tokens and their history: creation, deletion and replacement as *)
(* the handlers of lib/endpoints/pivtokens.js do them with the models      *)
(* pivtoken.js and pivtoken-history.js.                                    *)
(*                                                                         *)
(* The pin of a PIV token is the secret KBMAPI exists to keep.  A deletion *)
(* first puts the row into the history bucket and then deletes it: two     *)
(* calls, between which other handlers run and the server may die.  A      *)
(* replacement then goes on to create another PIV token.                   *)
(*                                                                         *)
(* A row is abstracted to its life: the provisioning of the device that    *)
(* set the pin.  A PIV token that was deleted by accident may be restored  *)
(* with its old life, or its device provisioned again.  Recovery tokens,   *)
(* which the same batches write, are in RecoveryTokens.  The history only  *)
(* grows: the prune (transitioner.js 213-256) looks for an active_range,   *)
(* which the rows of the history do not have (pivtoken-history.js 99-115). *)
(***************************************************************************)
EXTENDS Naturals

CONSTANTS
  Guids,       \* PIV tokens
  Lives,       \* provisionings of a device
  Handlers,    \* requests that can be in flight at once
  MaxCrashes,  \* bound: deaths of the API server
  Nil          \* no row, no context

ASSUME NilAssumption == Nil \notin Lives
ASSUME MaxCrashesAssumption == MaxCrashes \in Nat

VARIABLES
  piv,      \* the PIV tokens bucket: the life of each row, Nil without a row
  history,  \* the history bucket, which has the guid for a key too
  usable,   \* is there a recovery configuration to create a PIV token with?
  pc,       \* what each handler does next
  ctx,      \* what each handler has read and carries on
  crashes

vars == <<piv, history, usable, pc, ctx, crashes>>

-----------------------------------------------------------------------------
Goto(h, label, c) ==
  /\ pc' = [pc EXCEPT ![h] = label]
  /\ ctx' = [ctx EXCEPT ![h] = c]

Finish(h) == Goto(h, "idle", Nil)

Overwrites(bucket, g) == TRUE  \* mutant of Absent

(* A put that requires that there is no object with that key (etag null).   *)
Absent(bucket, g) == bucket[g] = Nil

-----------------------------------------------------------------------------
(* createPivtoken, for a guid preloadPivtoken did not find.                 *)
CreateRequest(h, g, life) ==
  /\ pc[h] = "idle"
  /\ piv[g] = Nil
  /\ Goto(h, "config", [new |-> g, life |-> life])
  /\ UNCHANGED <<piv, history, usable, crashes>>

RetireAny(h, g, next) ==  \* mutant of RetireRequest
  /\ pc[h] = "idle"
  /\ Goto(h, "archive", [old |-> g, row |-> piv[g], next |-> next])
  /\ UNCHANGED <<piv, history, usable, crashes>>

(* deletePivtoken and replacePivtoken start from the row preloadPivtoken    *)
(* read; a deletion has nothing to create afterwards.                       *)
RetireRequest(h, g, next) ==
  /\ pc[h] = "idle"
  /\ piv[g] # Nil
  /\ Goto(h, "archive", [old |-> g, row |-> piv[g], next |-> next])
  /\ UNCHANGED <<piv, history, usable, crashes>>

Archives(h) == TRUE  \* mutant of MayArchive

(* archiveAndDeletePivtoken: the history entry must not exist yet ...       *)
MayArchive(h) == Absent(history, ctx[h].old)

Archive(h) ==
  /\ pc[h] = "archive"
  /\ IF MayArchive(h)
     THEN /\ history' = [history EXCEPT ![ctx[h].old] = ctx[h].row]
          /\ Goto(h, "delete", ctx[h])
     ELSE Finish(h) /\ UNCHANGED history
  /\ UNCHANGED <<piv, usable, crashes>>

(* ... and then a batch deletes the row, whatever it holds by now, which    *)
(* fails when it is gone.  A replacement goes on with its new PIV token.    *)
Delete(h) ==
  /\ pc[h] = "delete"
  /\ piv' = [piv EXCEPT ![ctx[h].old] = Nil]
  /\ IF piv[ctx[h].old] # Nil /\ ctx[h].next # Nil
     THEN Goto(h, "config", ctx[h].next)
     ELSE Finish(h)
  /\ UNCHANGED <<history, usable, crashes>>

(* createPIVToken needs the active recovery configuration, or the one that  *)
(* the request names ...                                                    *)
FetchConfig(h) ==
  /\ pc[h] = "config"
  /\ IF usable THEN Goto(h, "create", ctx[h]) ELSE Finish(h)
  /\ UNCHANGED <<piv, history, usable, crashes>>

(* ... and puts the row in a batch that requires that there is none.        *)
CreateBatch(h) ==
  /\ pc[h] = "create"
  /\ piv' = IF Absent(piv, ctx[h].new)
            THEN [piv EXCEPT ![ctx[h].new] = ctx[h].life]
            ELSE piv
  /\ Finish(h)
  /\ UNCHANGED <<history, usable, crashes>>

(* A recovery configuration becomes active; the last one expires or goes.   *)
ConfigsChange ==
  /\ usable' = ~usable
  /\ UNCHANGED <<piv, history, pc, ctx, crashes>>

(* The server dies with the requests it was handling.                       *)
Crash ==
  /\ crashes < MaxCrashes
  /\ crashes' = crashes + 1
  /\ pc' = [h \in Handlers |-> "idle"]
  /\ ctx' = [h \in Handlers |-> Nil]
  /\ UNCHANGED <<piv, history, usable>>

-----------------------------------------------------------------------------
NewToken == [new : Guids, life : Lives]

Init ==
  /\ piv = [g \in Guids |-> Nil]
  /\ history = [g \in Guids |-> Nil]
  /\ usable \in BOOLEAN
  /\ pc = [h \in Handlers |-> "idle"]
  /\ ctx = [h \in Handlers |-> Nil]
  /\ crashes = 0

Next ==
  \/ \E h \in Handlers, g \in Guids :
       \/ \E life \in Lives : CreateRequest(h, g, life)
       \/ \E next \in NewToken \cup {Nil} : RetireRequest(h, g, next)
  \/ \E h \in Handlers :
       Archive(h) \/ Delete(h) \/ FetchConfig(h) \/ CreateBatch(h)
  \/ ConfigsChange
  \/ Crash

Spec == Init /\ [][Next]_vars

-----------------------------------------------------------------------------
Retirement == [old : Guids, row : Lives, next : NewToken \cup {Nil}]

(* Types; in particular a handler that archives and deletes has the row it  *)
(* was asked to retire (lib/endpoints/pivtokens.js 80-110).                 *)
TypeOK ==
  /\ piv \in [Guids -> Lives \cup {Nil}]
  /\ history \in [Guids -> Lives \cup {Nil}]
  /\ usable \in BOOLEAN
  /\ pc \in [Handlers -> {"idle", "archive", "delete", "config", "create"}]
  /\ DOMAIN ctx = Handlers
  /\ \A h \in Handlers :
       /\ pc[h] \in {"archive", "delete"} => ctx[h] \in Retirement
       /\ pc[h] \in {"config", "create"} => ctx[h] \in NewToken
  /\ crashes \in Nat

(* The pins that can be had back for a guid.                                *)
Kept(g) == {piv[g], history[g]} \ {Nil}

(* A pin that KBMAPI once stored can always be had back, from the PIV       *)
(* tokens or from their history, whatever requests race and wherever the    *)
(* server dies (docs/README.md 188-190): no deletion takes a life it has    *)
(* not archived, and no archived life is overwritten.                       *)
PinsAreKept ==
  [][\A g \in Guids : Kept(g) \subseteq Kept(g)']_vars

(* A handler that is about to delete a row has archived what the row holds, *)
(* and is the only one: a stale row that was read before somebody else      *)
(* retired the PIV token never gets that far.                               *)
OneRetirement ==
  \A h \in Handlers : pc[h] = "delete" =>
    /\ history[ctx[h].old] = ctx[h].row
    /\ piv[ctx[h].old] = ctx[h].row
    /\ \A k \in Handlers : pc[k] = "delete" /\ ctx[k].old = ctx[h].old => k = h

(* A PIV token may have several entries in the history, one for each time   *)
(* it is retired (docs/README.md 249-252): a retirement is not refused when *)
(* the history has another life.  Not checked by a run: TLC refutes it      *)
(* (README, disagreements).                                                 *)
EveryLifeArchived ==
  [][\A h \in Handlers :
       pc[h] = "archive" /\ pc'[h] = "idle" /\ crashes' = crashes
         => history[ctx[h].old] = ctx[h].row]_vars
=============================================================================
