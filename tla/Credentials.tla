---------------------------- MODULE Credentials ----------------------------
(***************************************************************************)
(* Who signs what, and who accepts it: the client library                  *)
(* (client/index.js), which keeps the credentials of a call in variables   *)
(* of its module and signs every attempt with what they hold then; and the *)
(* server, which checks the signature against the PIV token it preloaded   *)
(* (lib/auth.js) and creates, returns or replaces it                       *)
(* (lib/endpoints/pivtokens.js).                                           *)
(*                                                                         *)
(* A node makes calls through the library, attempts are repeated while an  *)
(* answer is missing, and an attempt that was given up may still be served *)
(* later.  A request is served at once here; its steps, and requests of    *)
(* several nodes that race, are the subject of PivTokens.                  *)
(***************************************************************************)
EXTENDS Naturals, FiniteSets, SequencesExt

CONSTANTS
  Guids,        \* PIV tokens
  Card,         \* the one in the node's slot, with which pivy-tool signs
  Keys,         \* those whose private key a caller may give to the library
  Calls,        \* calls of the library
  MaxAttempts,  \* bound: attempts of a call
  MaxUnserved,  \* bound: attempts under way at once
  MaxTokens,    \* bound: recovery tokens ever created
  MaxAged,      \* bound: those that can grow old
  ShortSort,    \* the longest array that the engine's sort leaves in order
  Limit,        \* DEFAULT_LIMIT: the rows a list returns at most
  Nil           \* nothing

ASSUME CredentialsAssumption ==
  /\ Card \in Guids /\ Keys \subseteq Guids
  /\ MaxAttempts \in Nat \ {0} /\ MaxTokens \in Nat \ {0}
  /\ MaxUnserved \in Nat \ {0} /\ MaxAged \in Nat
  /\ ShortSort \in Nat \ {0} /\ Limit \in Nat /\ ShortSort <= Limit

Tokens == 1 .. MaxTokens  \* recovery tokens, in the order of their creation

ASSUME NilIsNothing == Nil \notin Guids /\ Nil \notin Tokens /\ Nil \notin Calls

Methods == {"create", "pin", "replace", "list"}

VARIABLES
  globals,  \* the variables of client/index.js
  fresh,    \* history: no call since the library was loaded or cleaned
  call,     \* what each call was asked to do, and where it is
  net,      \* attempts that have not been served
  row,      \* the recovery tokens of each PIV token, none when it is not there
  minted,   \* recovery tokens created so far
  aged,     \* those created longer than recoveryTokenDuration ago
  known,    \* recovery tokens the node has been told
  foreign   \* recovery tokens created by others, for other configurations

vars == <<globals, fresh, call, net, row, minted, aged, known, foreign>>

-----------------------------------------------------------------------------
(* The client library *)

Cleaned ==
  [auth |-> FALSE, signer |-> Nil, privkey |-> Nil, privtoken |-> Nil, pubkey |-> FALSE]

CleanedExceptAuth == [Cleaned EXCEPT !.auth = globals.auth]  \* mutant of Clear

(* What clean leaves of the variables.                                      *)
Clear == Cleaned

(* _request: each variable is set when its option is given, and otherwise   *)
(* keeps what an earlier call left there.                                   *)
SetFor(o) ==
  [auth      |-> globals.auth \/ o.method # "list",
   signer    |-> IF o.privkey # Nil \/ o.privtoken # Nil THEN "httpSignature" ELSE "pivytool",
   privkey   |-> IF o.privkey # Nil THEN o.privkey ELSE globals.privkey,
   privtoken |-> IF o.privkey = Nil /\ o.privtoken # Nil THEN o.privtoken
                 ELSE globals.privtoken,
   pubkey    |-> globals.pubkey \/ o.pubkey]

(* requestSigner: nothing, an HMAC with a recovery token, or the signature  *)
(* of the key in the slot 9e of a PIV token.                                *)
Signature(g) ==
  IF ~g.auth \/ g.signer = Nil THEN Nil
  ELSE IF g.signer = "pivytool" THEN [alg |-> "key", with |-> Card]
  ELSE IF g.privtoken # Nil THEN [alg |-> "hmac", with |-> g.privtoken]
  ELSE [alg |-> "key", with |-> g.privkey]

(* ... which throws when there is no public key to take the fingerprint of. *)
Throws(g) == Signature(g) # Nil /\ Signature(g).alg = "key" /\ ~g.pubkey

(* What the call itself was given to sign with.                             *)
Own(c) ==
  CASE call[c].method = "list"    -> Nil
    [] call[c].method = "replace" -> [alg |-> "hmac", with |-> call[c].privtoken]
    [] OTHER -> [alg |-> "key",
                 with |-> IF call[c].privkey = Nil THEN Card ELSE call[c].privkey]

Underway(c) == call[c] # Nil /\ call[c].result = Nil

(* A call is alone when it is the first one after a clean, and no other     *)
(* call, nor a clean, comes before its answer.                              *)
NotAlone(d) == IF Underway(d) THEN [call[d] EXCEPT !.solo = FALSE] ELSE call[d]

BeginCall(c, options) ==
  /\ call[c] = Nil
  /\ globals' = SetFor(options)
  /\ fresh' = FALSE
  /\ call' = [d \in Calls |->
       IF d # c THEN NotAlone(d)
       ELSE [method |-> options.method, guid |-> options.guid, old |-> options.old,
             privkey |-> options.privkey, privtoken |-> options.privtoken,
             named |-> options.named, attempt |-> 0,
             solo |-> fresh /\ ~\E e \in Calls : Underway(e),
             answer |-> Nil, result |-> Nil]]
  /\ UNCHANGED <<net, row, minted, aged, known, foreign>>

(* createToken, which takes the public key from its PIV token; named tells  *)
(* whether it names a recovery configuration.                               *)
CallCreate(c, g, privkey, named) ==
  BeginCall(c, [method |-> "create", guid |-> g, old |-> Nil, privkey |-> privkey,
                privtoken |-> Nil, pubkey |-> TRUE, named |-> named])

(* getTokenPin, and the other methods that are signed with a key.           *)
CallPin(c, g, privkey, pubkey) ==
  BeginCall(c, [method |-> "pin", guid |-> g, old |-> Nil, privkey |-> privkey,
                privtoken |-> Nil, pubkey |-> pubkey, named |-> FALSE])

(* replaceToken, with a recovery token that the node knows.                 *)
CallReplace(c, g, old, privtoken) ==
  /\ g # old /\ privtoken \in known
  /\ BeginCall(c, [method |-> "replace", guid |-> g, old |-> old, privkey |-> Nil,
                   privtoken |-> privtoken, pubkey |-> FALSE, named |-> FALSE])

(* listTokens, and the other methods that are not signed, for whichever PIV *)
(* token.                                                                   *)
CallList(c) ==
  BeginCall(c, [method |-> "list", guid |-> Card, old |-> Nil, privkey |-> Nil,
                privtoken |-> Nil, pubkey |-> FALSE, named |-> FALSE])

(* restify-clients sends the request, anew when the last attempt got no     *)
(* answer, and asks for a signature each time.                              *)
Attempt(c) ==
  /\ Underway(c) /\ call[c].attempt < MaxAttempts /\ Cardinality(net) < MaxUnserved
  /\ ~Throws(globals)
  /\ call' = [call EXCEPT ![c].attempt = @ + 1, ![c].answer = Nil]
  /\ net' = net \cup {[call |-> c, attempt |-> call[c].attempt + 1,
                       signature |-> Signature(globals)]}
  /\ UNCHANGED <<globals, fresh, row, minted, aged, known, foreign>>

CannotSign(c) ==
  /\ Underway(c) /\ call[c].attempt < MaxAttempts /\ Throws(globals)
  /\ call' = [call EXCEPT ![c].result = "threw", ![c].answer = Nil, ![c].attempt = 0]
  /\ UNCHANGED <<globals, fresh, net, row, minted, aged, known, foreign>>

(* An answer arrives; those that hold recovery tokens are kept.             *)
Answered(c) ==
  /\ Underway(c) /\ call[c].answer # Nil
  /\ call' = [call EXCEPT ![c].result = call[c].answer.status, ![c].answer = Nil,
                            ![c].attempt = 0]
  /\ known' = known \cup call[c].answer.tokens
  /\ UNCHANGED <<globals, fresh, net, row, minted, aged, foreign>>

Clean ==
  /\ globals' = Clear /\ fresh' = TRUE
  /\ call' = [d \in Calls |-> IF call[d] = Nil THEN Nil ELSE NotAlone(d)]
  /\ UNCHANGED <<net, row, minted, aged, known, foreign>>

-----------------------------------------------------------------------------
(* The server *)

Exists(g) == row[g] # <<>>

NewestOf(g) == Last(row[g])

(* The recovery tokens that the preloader gets, oldest first.               *)
Preloaded(g) == SubSeq(row[g], 1, IF Len(row[g]) <= Limit THEN Len(row[g]) ELSE Limit)

OldestOf(g) == Head(row[g])  \* mutant of CheckedWith

(* The recovery token that an HMAC is checked against: the last one after a *)
(* sort that compares NaN.  The sort of the engine leaves a short array as  *)
(* it is, and puts the middle one of a longer array last.                   *)
CheckedWith(g) ==
  LET n == Len(Preloaded(g))
  IN Preloaded(g)[IF n <= ShortSort THEN n ELSE n \div 2 + 1]

(* signatureAuth: without a PIV token there is nothing to check.            *)
Accepts(g, signature) ==
  Exists(g) =>
    signature # Nil /\ signature.with = IF signature.alg = "hmac" THEN CheckedWith(g) ELSE g

Answer(m, status, tokens) ==
  call' = IF Underway(m.call) /\ call[m.call].attempt = m.attempt
          THEN [call EXCEPT ![m.call].answer = [status |-> status, tokens |-> tokens]]
          ELSE call

(* The PIV token that the preloader gets.                                   *)
Subject(c) == IF call[c].method = "replace" THEN call[c].old ELSE call[c].guid

Served(m, method) == m \in net /\ net' = net \ {m} /\ call[m.call].method = method

Allowed(m) == Accepts(Subject(m.call), m.signature)

Reject(m) ==
  /\ m \in net /\ net' = net \ {m}
  /\ call[m.call].method # "list" /\ ~Allowed(m)
  /\ Answer(m, "refused", {})
  /\ UNCHANGED <<globals, fresh, row, minted, aged, known, foreign>>

ServeList(m) ==
  /\ Served(m, "list")
  /\ Answer(m, "ok", {})
  /\ UNCHANGED <<globals, fresh, row, minted, aged, known, foreign>>

ServePin(m) ==
  LET g == call[m.call].guid
  IN /\ Served(m, "pin") /\ Allowed(m)
     /\ Answer(m, IF Exists(g) THEN "ok" ELSE "missing", Range(Preloaded(g)))
     /\ UNCHANGED <<globals, fresh, row, minted, aged, known, foreign>>

Mint == minted < MaxTokens /\ minted' = minted + 1

Latest(g) == Last(Preloaded(g))

RetrievesLate(c) ==  \* mutant of Retrieves
  LET latest == Latest(call[c].guid)
  IN call[c].named /\ latest \notin foreign /\ latest <= aged

(* A creation that names the configuration of the last recovery token, and  *)
(* comes within recoveryTokenDuration of it, is taken for a retry.          *)
Retrieves(c) ==
  LET latest == Latest(call[c].guid)
  IN call[c].named /\ latest \notin foreign /\ latest > aged

ServeCreate(m) ==
  LET g == call[m.call].guid
  IN /\ Served(m, "create") /\ Allowed(m)
     /\ \/ /\ Exists(g) /\ Retrieves(m.call)
           /\ Answer(m, "ok", Range(Preloaded(g))) /\ UNCHANGED <<row, minted>>
        \/ /\ ~(Exists(g) /\ Retrieves(m.call))
           /\ Mint /\ row' = [row EXCEPT ![g] = Append(@, minted')]
           /\ Answer(m, "ok", Range(Preloaded(g)) \cup {minted'})
     /\ UNCHANGED <<globals, fresh, aged, known, foreign>>

(* The old PIV token is deleted, then the new one is created, unless there  *)
(* is one already.                                                          *)
ServeReplace(m) ==
  LET g   == call[m.call].guid
      old == call[m.call].old
  IN /\ Served(m, "replace") /\ Allowed(m)
     /\ \/ /\ ~Exists(old)
           /\ Answer(m, "missing", {}) /\ UNCHANGED <<row, minted>>
        \/ /\ Exists(old) /\ Exists(g)
           /\ row' = [row EXCEPT ![old] = <<>>]
           /\ Answer(m, "failed", {}) /\ UNCHANGED minted
        \/ /\ Exists(old) /\ ~Exists(g)
           /\ Mint /\ row' = [row EXCEPT ![old] = <<>>, ![g] = <<minted'>>]
           /\ Answer(m, "ok", {minted'})
     /\ UNCHANGED <<globals, fresh, aged, known, foreign>>

(* The transitioner, or another client, creates a recovery token for        *)
(* another configuration.                                                   *)
TokenCreated(g) ==
  /\ Exists(g) /\ Mint
  /\ row' = [row EXCEPT ![g] = Append(@, minted')]
  /\ foreign' = foreign \cup {minted'}
  /\ UNCHANGED <<globals, fresh, call, net, aged, known>>

(* The agent of the node is given the newest one with a task.               *)
TokenDelivered(g) ==
  /\ Exists(g)
  /\ known' = known \cup {NewestOf(g)}
  /\ UNCHANGED <<globals, fresh, call, net, row, minted, aged, foreign>>

(* Time passes, which matters while another recovery token can be created.  *)
Ages ==
  /\ aged < MaxAged /\ aged < minted /\ minted < MaxTokens
  /\ aged' = aged + 1
  /\ UNCHANGED <<globals, fresh, call, net, row, minted, known, foreign>>

-----------------------------------------------------------------------------
Init ==
  /\ globals = Cleaned /\ fresh = TRUE
  /\ call = [c \in Calls |-> Nil]
  /\ net = {}
  /\ row = [g \in Guids |-> <<>>]
  /\ minted = 0 /\ aged = 0
  /\ known = {} /\ foreign = {}

Next ==
  \/ \E c \in Calls, g \in Guids, privkey \in Keys \cup {Nil} :
       \/ \E pubkey \in BOOLEAN : CallPin(c, g, privkey, pubkey)
       \/ \E named \in BOOLEAN : CallCreate(c, g, privkey, named)
  \/ \E c \in Calls, g \in Guids, old \in Guids, privtoken \in Tokens :
       CallReplace(c, g, old, privtoken)
  \/ \E c \in Calls : CallList(c) \/ Attempt(c) \/ CannotSign(c) \/ Answered(c)
  \/ Clean \/ Ages
  \/ \E m \in net :
       Reject(m) \/ ServeList(m) \/ ServePin(m) \/ ServeCreate(m) \/ ServeReplace(m)
  \/ \E g \in Guids : TokenCreated(g) \/ TokenDelivered(g)

Spec == Init /\ [][Next]_vars

-----------------------------------------------------------------------------
Signatures ==
  [alg : {"key"}, with : Guids] \cup [alg : {"hmac"}, with : Tokens]

Statuses == {"ok", "refused", "missing", "failed"}

Results == Statuses \cup {"threw"}

Signers == {"httpSignature", "pivytool"}

CallRecords ==
  [method : Methods, guid : Guids, old : Guids \cup {Nil}, privkey : Guids \cup {Nil},
   privtoken : Tokens \cup {Nil}, named : BOOLEAN, attempt : 0 .. MaxAttempts,
   solo : BOOLEAN, answer : [status : Statuses, tokens : SUBSET Tokens] \cup {Nil},
   result : Results \cup {Nil}]

ASSUME NilIsNoRecord ==
  Nil \notin CallRecords /\ Nil \notin Signatures /\ Nil \notin Results \cup Signers

(* Types; in particular the library never has to sign without a signer, or  *)
(* without a key (client/index.js 67-92).                                   *)
TypeOK ==
  /\ globals \in [auth : BOOLEAN, signer : Signers \cup {Nil},
                  privkey : Guids \cup {Nil}, privtoken : Tokens \cup {Nil},
                  pubkey : BOOLEAN]
  /\ fresh \in BOOLEAN
  /\ globals.auth => globals.signer # Nil
  /\ globals.signer = "httpSignature" => globals.privkey # Nil \/ globals.privtoken # Nil
  /\ call \in [Calls -> CallRecords \cup {Nil}]
  /\ \A c \in Calls : call[c] # Nil /\ call[c].method = "replace" =>
       call[c].old # Nil /\ call[c].privtoken # Nil
  /\ net \subseteq [call : Calls, attempt : 1 .. MaxAttempts, signature : Signatures \cup {Nil}]
  /\ \A m \in net : call[m.call] # Nil
  /\ row \in [Guids -> Seq(Tokens)]
  /\ minted \in 0 .. MaxTokens /\ aged \in 0 .. minted
  /\ known \subseteq Tokens /\ foreign \subseteq Tokens

(* A call that is made alone signs all its attempts with what it was given, *)
(* and an open one does not sign: clean leaves nothing of the calls before  *)
(* (client/index.js 728-737).  Nor does it find itself without a public     *)
(* key, unless it is one that signs with a key and was given none.          *)
SoloSigned ==
  /\ \A m \in net : call[m.call].solo => m.signature = Own(m.call)
  /\ \A c \in Calls : call[c] # Nil /\ call[c].solo /\ call[c].result = "threw" =>
       call[c].method = "pin"

(* A call that is made alone with the key of its PIV token, or with the     *)
(* newest recovery token of the one it replaces, is never refused, whatever *)
(* attempts came before it (auth.js 66-111), unless that PIV token has more *)
(* recovery tokens than the sort leaves in order.                           *)
RightfulAccepted ==
  \A c \in Calls :
    call[c] # Nil /\ call[c].solo /\ call[c].result = "refused" =>
      IF call[c].method = "replace"
      THEN LET old == call[c].old
           IN Len(row[old]) <= ShortSort => ~Exists(old) \/ call[c].privtoken # NewestOf(old)
      ELSE Own(c).with # call[c].guid

(* A creation whose answer was lost is retrieved by its retry, even when    *)
(* the lost attempt is served after it (endpoints/pivtokens.js 184-216):    *)
(* once one was answered, and unless the PIV token is replaced or gets      *)
(* recovery tokens from others, the node has been told all it has, save one *)
(* created when that before it was older than recoveryTokenDuration, or     *)
(* when there were more than a list returns.                                *)
CreationRetrieved ==
  \A g \in Guids :
    LET creations == {c \in Calls : call[c] # Nil /\ call[c].method = "create"
                                     /\ call[c].guid = g}
    IN /\ \E c \in creations : call[c].result = "ok"
       /\ \A c \in creations : call[c].named
       /\ \A c \in Calls : call[c] # Nil => call[c].old # g
       /\ Range(row[g]) \cap foreign = {}
       => \A k \in DOMAIN row[g] :
            k <= Limit /\ (k > 1 => row[g][k - 1] > aged) => row[g][k] \in known

(* "Make sure we're using the most recent recovery token" (auth.js 71-73).  *)
(* Not checked by a run: TLC refutes it with CredentialsNewest.cfg.         *)
NewestChecked == \A g \in Guids : Exists(g) => CheckedWith(g) = NewestOf(g)

(* "The decrypted recovery_token value is used as the signing key"          *)
(* (docs/README.md 637-640): with a recovery token that the node was told   *)
(* it can replace the PIV token.  Not checked by a run: TLC refutes it      *)
(* because only the newest one is taken, which the node need not know.      *)
KnownTokenReplaces ==
  \A c \in Calls :
    call[c] # Nil /\ call[c].solo /\ call[c].method = "replace"
      /\ Exists(call[c].old) /\ call[c].privtoken \in Range(row[call[c].old])
      => call[c].result # "refused"
=============================================================================
