-------------------------- MODULE Credentials_proofs --------------------------
(***************************************************************************)
(* Signatures and their checks, for any number of PIV tokens, calls and    *)
(* recovery tokens.  A call that is alone finds in the library's variables *)
(* what it put there itself; and a recovery token that is not the newest   *)
(* one of a PIV token never becomes it.                                    *)
(***************************************************************************)
EXTENDS Credentials, SequenceTheorems, TLAPS

-----------------------------------------------------------------------------
(* What the library and the server compute from what they hold is typed.    *)
LEMMA NewestIsToken ==
  ASSUME TypeOK, NEW g \in Guids, Exists(g)
  PROVE  NewestOf(g) \in Range(row[g]) /\ NewestOf(g) \in Tokens
<1>1. row[g] \in Seq(Tokens)
  BY DEF TypeOK
<1>2. Len(row[g]) \in 1 .. Len(row[g])
  BY <1>1, EmptySeq DEF Exists
<1>3. NewestOf(g) = row[g][Len(row[g])]
  BY DEF NewestOf, Last
<1>4. NewestOf(g) \in Range(row[g])
  BY <1>1, <1>2, <1>3 DEF Range
<1>5. NewestOf(g) \in Tokens
  BY <1>1, <1>2, <1>3, ElementOfSeq
<1> QED
  BY <1>4, <1>5

LEMMA RowTokens ==
  ASSUME TypeOK, NEW g \in Guids
  PROVE  Range(row[g]) \subseteq Tokens
<1>1. row[g] \in Seq(Tokens)
  BY DEF TypeOK
<1> QED
  BY <1>1, ElementOfSeq DEF Range

(* What is preloaded of a PIV token are its first recovery tokens.          *)
LEMMA PreloadedRow ==
  ASSUME TypeOK, NEW g \in Guids
  PROVE  /\ Range(Preloaded(g)) \subseteq Range(row[g])
         /\ Len(row[g]) <= Limit => Preloaded(g) = row[g]
         /\ \A k \in DOMAIN row[g] : k <= Limit => row[g][k] \in Range(Preloaded(g))
<1> DEFINE n == IF Len(row[g]) <= Limit THEN Len(row[g]) ELSE Limit
<1>1. row[g] \in Seq(Tokens) /\ Len(row[g]) \in Nat /\ DOMAIN row[g] = 1 .. Len(row[g])
  BY DEF TypeOK
<1>2. n \in Nat /\ n <= Len(row[g])
  BY <1>1, CredentialsAssumption
<1>3. Preloaded(g) = [k \in 1 .. n |-> row[g][k]]
  BY <1>1, <1>2 DEF Preloaded
<1>4. DOMAIN Preloaded(g) = 1 .. n /\ \A k \in 1 .. n : Preloaded(g)[k] = row[g][k]
  BY <1>3
<1>5. 1 .. n \subseteq 1 .. Len(row[g])
  BY <1>1, <1>2
<1>6. Range(Preloaded(g)) \subseteq Range(row[g])
  BY <1>1, <1>4, <1>5 DEF Range
<1>7. Len(row[g]) <= Limit => Preloaded(g) = row[g]
  BY <1>1, <1>3
<1>8. ASSUME NEW k \in DOMAIN row[g], k <= Limit
      PROVE  row[g][k] \in Range(Preloaded(g))
  <2>1. k \in 1 .. n
    BY <1>1, <1>8
  <2> HIDE DEF n
  <2> QED
    BY <1>4, <2>1 DEF Range
<1> QED
  BY <1>6, <1>7, <1>8

LEMMA AppendedRange ==
  ASSUME NEW s \in Seq(Tokens), NEW t \in Tokens
  PROVE  /\ Range(Append(s, t)) = Range(s) \cup {t}
         /\ Append(s, t) # <<>> /\ Last(Append(s, t)) = t
BY AppendProperties DEF Range, Last

LEMMA MintedToken ==
  ASSUME TypeOK, Mint
  PROVE  /\ minted' \in Tokens /\ minted' \in 0 .. MaxTokens /\ minted' \notin 0 .. minted
         /\ minted' >= minted
BY CredentialsAssumption DEF TypeOK, Mint, Tokens

LEMMA SignatureTypes ==
  ASSUME TypeOK
  PROVE  Signature(globals) \in Signatures \cup {Nil}
<1>1. CASE ~globals.auth \/ globals.signer = Nil
  BY <1>1 DEF Signature, Signatures
<1>2. CASE globals.auth /\ globals.signer = "pivytool" /\ globals.signer # Nil
  <2>1. Signature(globals) = [alg |-> "key", with |-> Card]
    BY <1>2 DEF Signature
  <2> QED
    BY <2>1, CredentialsAssumption DEF Signatures
<1>3. CASE globals.auth /\ globals.signer # "pivytool" /\ globals.signer # Nil
  <2>1. CASE globals.privtoken # Nil
    <3>1. Signature(globals) = [alg |-> "hmac", with |-> globals.privtoken]
      BY <1>3, <2>1 DEF Signature
    <3>2. globals.privtoken \in Tokens
      BY <2>1 DEF TypeOK
    <3> QED
      BY <3>1, <3>2 DEF Signatures
  <2>2. CASE globals.privtoken = Nil
    <3>1. Signature(globals) = [alg |-> "key", with |-> globals.privkey]
      BY <1>3, <2>2 DEF Signature
    <3>2. globals.privkey \in Guids
      BY <1>3, <2>2 DEF TypeOK, Signers
    <3> QED
      BY <3>1, <3>2 DEF Signatures
  <2> QED
    BY <2>1, <2>2
<1> QED
  BY <1>1, <1>2, <1>3

(* A call that is no longer alone is otherwise as it was.                   *)
LEMMA NotAloneKeeps ==
  ASSUME TypeOK, NEW d \in Calls, call[d] # Nil
  PROVE  /\ NotAlone(d) \in CallRecords
         /\ NotAlone(d).solo => NotAlone(d) = call[d] /\ ~Underway(d)
         /\ \A f \in {"method", "guid", "old", "privkey", "privtoken", "named",
                      "attempt", "answer", "result"} : NotAlone(d)[f] = call[d][f]
<1>1. call[d] \in CallRecords
  BY DEF TypeOK
<1>2. CASE Underway(d)
  BY <1>1, <1>2 DEF NotAlone, CallRecords
<1>3. CASE ~Underway(d)
  BY <1>1, <1>3 DEF NotAlone
<1> QED
  BY <1>2, <1>3

(* A call that begins.                                                      *)
Options ==
  [method : Methods, guid : Guids, old : Guids \cup {Nil}, privkey : Guids \cup {Nil},
   privtoken : Tokens \cup {Nil}, pubkey : BOOLEAN, named : BOOLEAN]

LEMMA BeginTypes ==
  ASSUME TypeOK, NEW c \in Calls, NEW o \in Options, BeginCall(c, o),
         o.method = "replace" => o.old # Nil /\ o.privtoken # Nil
  PROVE  TypeOK'
<1>1. /\ globals' \in [auth : BOOLEAN, signer : Signers \cup {Nil},
                       privkey : Guids \cup {Nil}, privtoken : Tokens \cup {Nil},
                       pubkey : BOOLEAN]
      /\ globals'.auth => globals'.signer # Nil
      /\ globals'.signer = "httpSignature" =>
           globals'.privkey # Nil \/ globals'.privtoken # Nil
  <2> DEFINE signer == IF o.privkey # Nil \/ o.privtoken # Nil
                       THEN "httpSignature" ELSE "pivytool"
  <2>1. /\ globals'.auth = (globals.auth \/ o.method # "list")
        /\ globals'.signer = signer
        /\ globals'.privkey = IF o.privkey # Nil THEN o.privkey ELSE globals.privkey
        /\ globals'.privtoken = IF o.privkey = Nil /\ o.privtoken # Nil THEN o.privtoken
                                ELSE globals.privtoken
        /\ globals'.pubkey = (globals.pubkey \/ o.pubkey)
        /\ globals' = [auth |-> globals'.auth, signer |-> globals'.signer,
                       privkey |-> globals'.privkey, privtoken |-> globals'.privtoken,
                       pubkey |-> globals'.pubkey]
    BY DEF BeginCall, SetFor
  <2>2. signer \in Signers /\ signer # Nil
    BY NilIsNoRecord DEF Signers
  <2>3. globals'.auth \in BOOLEAN /\ globals'.pubkey \in BOOLEAN
    BY <2>1 DEF TypeOK, Options
  <2>4. globals'.privkey \in Guids \cup {Nil} /\ globals'.privtoken \in Tokens \cup {Nil}
    BY <2>1 DEF TypeOK, Options
  <2>5. signer = "httpSignature" => globals'.privkey # Nil \/ globals'.privtoken # Nil
    BY <2>1
  <2> QED
    BY <2>1, <2>2, <2>3, <2>4, <2>5
<1>2. ASSUME NEW d \in Calls
      PROVE  /\ call'[d] \in CallRecords \cup {Nil}
             /\ call[d] # Nil => call'[d] # Nil
             /\ call'[d] # Nil /\ call'[d].method = "replace" =>
                  call'[d].old # Nil /\ call'[d].privtoken # Nil
  <2>1. CASE d = c
    <3>1. call'[d] \in CallRecords
      BY <2>1, CredentialsAssumption DEF BeginCall, Options, CallRecords, TypeOK, Underway
    <3> QED
      BY <2>1, <3>1, NilIsNoRecord DEF BeginCall, Options
  <2>2. CASE d # c
    <3>1. call'[d] = NotAlone(d)
      BY <2>2 DEF BeginCall
    <3>2. CASE call[d] # Nil
      <4>1. /\ call'[d] \in CallRecords
            /\ call'[d].method = call[d].method
            /\ call'[d].old = call[d].old
            /\ call'[d].privtoken = call[d].privtoken
        BY <3>1, <3>2, NotAloneKeeps
      <4> QED
        BY <3>2, <4>1, NilIsNoRecord DEF TypeOK
    <3>3. CASE call[d] = Nil
      BY <3>1, <3>3 DEF NotAlone, Underway
    <3> QED
      BY <3>2, <3>3
  <2> QED
    BY <2>1, <2>2
<1>3. \E f : call' = [d \in Calls |-> f[d]]
  BY DEF BeginCall
<1> QED
  BY <1>1, <1>2 DEF TypeOK, BeginCall

Legal(o) ==
  IF o.method = "replace"
  THEN o.old \in Guids \ {o.guid} /\ o.privtoken \in known /\ o.privtoken # Nil /\ o.privkey = Nil
  ELSE o.old = Nil /\ o.privtoken = Nil /\ (o.method = "create" => o.pubkey)

LEMMA CallsBegin ==
  ASSUME NEW c \in Calls
  PROVE  /\ \A g \in Guids, privkey \in Keys \cup {Nil}, pubkey \in BOOLEAN :
              CallPin(c, g, privkey, pubkey) =>
                \E o \in Options : Legal(o) /\ BeginCall(c, o)
         /\ \A g \in Guids, privkey \in Keys \cup {Nil}, named \in BOOLEAN :
              CallCreate(c, g, privkey, named) =>
                \E o \in Options : Legal(o) /\ BeginCall(c, o)
         /\ \A g \in Guids, old \in Guids, privtoken \in Tokens :
              CallReplace(c, g, old, privtoken) =>
                \E o \in Options : Legal(o) /\ BeginCall(c, o)
         /\ CallList(c) => \E o \in Options : Legal(o) /\ BeginCall(c, o)
<1>1. ASSUME NEW g \in Guids, NEW privkey \in Keys \cup {Nil}, NEW pubkey \in BOOLEAN,
             CallPin(c, g, privkey, pubkey)
      PROVE  \E o \in Options : Legal(o) /\ BeginCall(c, o)
  <2> DEFINE o == [method |-> "pin", guid |-> g, old |-> Nil, privkey |-> privkey,
                   privtoken |-> Nil, pubkey |-> pubkey, named |-> FALSE]
  <2>1. o \in Options /\ Legal(o)
    BY <1>1, CredentialsAssumption, NilIsNothing DEF Options, Methods, Legal
  <2>2. BeginCall(c, o)
    BY <1>1 DEF CallPin
  <2> QED
    BY <2>1, <2>2
<1>2. ASSUME NEW g \in Guids, NEW privkey \in Keys \cup {Nil}, NEW named \in BOOLEAN, CallCreate(c, g, privkey, named)
      PROVE  \E o \in Options : Legal(o) /\ BeginCall(c, o)
  <2> DEFINE o == [method |-> "create", guid |-> g, old |-> Nil, privkey |-> privkey,
                   privtoken |-> Nil, pubkey |-> TRUE, named |-> named]
  <2>1. o \in Options /\ Legal(o)
    BY <1>2, CredentialsAssumption, NilIsNothing DEF Options, Methods, Legal
  <2>2. BeginCall(c, o)
    BY <1>2 DEF CallCreate
  <2> QED
    BY <2>1, <2>2
<1>3. ASSUME NEW g \in Guids, NEW old \in Guids, NEW privtoken \in Tokens, CallReplace(c, g, old, privtoken)
      PROVE  \E o \in Options : Legal(o) /\ BeginCall(c, o)
  <2> DEFINE o == [method |-> "replace", guid |-> g, old |-> old, privkey |-> Nil,
                   privtoken |-> privtoken, pubkey |-> FALSE, named |-> FALSE]
  <2>1. o \in Options /\ Legal(o)
    BY <1>3, CredentialsAssumption, NilIsNothing DEF CallReplace, Options, Methods, Legal
  <2>2. BeginCall(c, o)
    BY <1>3 DEF CallReplace
  <2> QED
    BY <2>1, <2>2
<1>4. ASSUME CallList(c)
      PROVE  \E o \in Options : Legal(o) /\ BeginCall(c, o)
  <2> DEFINE o == [method |-> "list", guid |-> Card, old |-> Nil, privkey |-> Nil,
                   privtoken |-> Nil, pubkey |-> FALSE, named |-> FALSE]
  <2>1. o \in Options /\ Legal(o)
    BY <1>4, CredentialsAssumption, NilIsNothing DEF Options, Methods, Legal
  <2>2. BeginCall(c, o)
    BY <1>4 DEF CallList
  <2> QED
    BY <2>1, <2>2
<1> QED
  BY <1>1, <1>2, <1>3, <1>4

(* Only the answer of the call that an attempt belongs to is set.           *)
LEMMA AnswerKeeps ==
  ASSUME TypeOK, NEW m \in net, NEW status \in Statuses, NEW tokens \in SUBSET Tokens,
         Answer(m, status, tokens)
  PROVE  /\ call' \in [Calls -> CallRecords \cup {Nil}]
         /\ \A c \in Calls : call'[c] = Nil <=> call[c] = Nil
         /\ \A c \in Calls : call[c] # Nil =>
              /\ \A f \in {"method", "guid", "old", "privkey", "privtoken", "named",
                           "attempt", "solo", "result"} : call'[c][f] = call[c][f]
              /\ \/ call'[c] = call[c]
                 \/ /\ c = m.call
                    /\ call'[c].answer = [status |-> status, tokens |-> tokens]
<1>1. m.call \in Calls /\ call[m.call] \in CallRecords
  BY DEF TypeOK
<1>2. CASE Underway(m.call) /\ call[m.call].attempt = m.attempt
  <2> DEFINE r == [call[m.call] EXCEPT !.answer = [status |-> status, tokens |-> tokens]]
  <2>1. call' = [call EXCEPT ![m.call] = r]
    BY <1>2 DEF Answer
  <2>2. /\ r \in CallRecords
        /\ \A f \in {"method", "guid", "old", "privkey", "privtoken", "named",
                     "attempt", "solo", "result"} : r[f] = call[m.call][f]
        /\ r.answer = [status |-> status, tokens |-> tokens]
    BY <1>1 DEF CallRecords
  <2> HIDE DEF r
  <2>3. r # Nil /\ call[m.call] # Nil
    BY <2>2, <1>1, NilIsNoRecord
  <2> QED
    BY <1>1, <2>1, <2>2, <2>3 DEF TypeOK
<1>3. CASE ~(Underway(m.call) /\ call[m.call].attempt = m.attempt)
  BY <1>3 DEF Answer, TypeOK
<1> QED
  BY <1>2, <1>3

LEMMA ServedTypes ==
  ASSUME TypeOK, NEW m \in net, NEW status \in Statuses, NEW tokens \in SUBSET Tokens,
         Answer(m, status, tokens), net' = net \ {m},
         row' \in [Guids -> Seq(Tokens)], minted' \in 0 .. MaxTokens, minted' >= minted,
         UNCHANGED <<globals, fresh, aged, known, foreign>>
  PROVE  TypeOK'
<1>1. /\ call' \in [Calls -> CallRecords \cup {Nil}]
      /\ \A c \in Calls : call'[c] = Nil <=> call[c] = Nil
      /\ \A c \in Calls : call[c] # Nil =>
           /\ call'[c].method = call[c].method
           /\ call'[c].old = call[c].old
           /\ call'[c].privtoken = call[c].privtoken
  BY AnswerKeeps
<1>2. \A c \in Calls : call'[c] # Nil /\ call'[c].method = "replace" =>
        call'[c].old # Nil /\ call'[c].privtoken # Nil
  BY <1>1 DEF TypeOK
<1>3. \A n \in net' : call'[n.call] # Nil
  BY <1>1 DEF TypeOK
<1>4. aged' \in 0 .. minted'
  BY DEF TypeOK
<1> QED
  BY <1>1, <1>2, <1>3, <1>4 DEF TypeOK

LEMMA NewRows ==
  ASSUME TypeOK, Mint, NEW g \in Guids
  PROVE  /\ [row EXCEPT ![g] = Append(@, minted')] \in [Guids -> Seq(Tokens)]
         /\ \A old \in Guids : [row EXCEPT ![old] = <<>>, ![g] = <<minted'>>]
                               \in [Guids -> Seq(Tokens)]
<1> DEFINE t == minted'
<1>1. t \in Tokens
  BY MintedToken
<1> HIDE DEF t
<1>2. [row EXCEPT ![g] = Append(@, t)] \in [Guids -> Seq(Tokens)]
  BY <1>1 DEF TypeOK
<1>3. ASSUME NEW old \in Guids
      PROVE  [row EXCEPT ![old] = <<>>, ![g] = <<t>>] \in [Guids -> Seq(Tokens)]
  <2>1. <<t>> \in Seq(Tokens) /\ <<>> \in Seq(Tokens)
    BY <1>1
  <2> QED
    BY <2>1 DEF TypeOK
<1> QED
  BY <1>2, <1>3 DEF t

(* Whom a call is about.                                                    *)
LEMMA CallFields ==
  ASSUME TypeOK, NEW m \in net
  PROVE  /\ m.call \in Calls /\ call[m.call] \in CallRecords
         /\ call[m.call].guid \in Guids
         /\ call[m.call].method = "replace" => call[m.call].old \in Guids
         /\ Subject(m.call) \in Guids
<1>1. m.call \in Calls /\ call[m.call] \in CallRecords
  BY DEF TypeOK
<1>2. call[m.call].guid \in Guids /\ call[m.call].old \in Guids \cup {Nil}
  BY <1>1 DEF CallRecords
<1>3. call[m.call].method = "replace" => call[m.call].old # Nil
  BY <1>1, NilIsNoRecord DEF TypeOK
<1> QED
  BY <1>1, <1>2, <1>3 DEF Subject

LEMMA ServeTypes ==
  ASSUME TypeOK, NEW m \in net,
         Reject(m) \/ ServeList(m) \/ ServePin(m) \/ ServeCreate(m) \/ ServeReplace(m)
  PROVE  TypeOK'
<1> USE DEF Statuses
<1> DEFINE g == call[m.call].guid
           old == call[m.call].old
<1>0. row \in [Guids -> Seq(Tokens)] /\ minted \in 0 .. MaxTokens /\ minted >= minted
  BY DEF TypeOK
<1>1. CASE Reject(m)
  BY <1>0, <1>1, ServedTypes DEF Reject
<1>2. CASE ServeList(m)
  BY <1>0, <1>2, ServedTypes DEF ServeList, Served
<1>3. CASE ServePin(m)
  <2>1. Range(Preloaded(g)) \in SUBSET Tokens
    BY CallFields, RowTokens, PreloadedRow
  <2>2. Answer(m, IF Exists(g) THEN "ok" ELSE "missing", Range(Preloaded(g)))
    BY <1>3 DEF ServePin
  <2>3. (IF Exists(g) THEN "ok" ELSE "missing") \in Statuses
    OBVIOUS
  <2> HIDE DEF g
  <2> QED
    BY <1>0, <1>3, <2>1, <2>2, <2>3, ServedTypes DEF ServePin, Served
<1>4. CASE ServeCreate(m)
  <2>1. g \in Guids /\ Range(Preloaded(g)) \in SUBSET Tokens
    BY CallFields, RowTokens, PreloadedRow
  <2> HIDE DEF g
  <2>2. CASE Answer(m, "ok", Range(Preloaded(g))) /\ UNCHANGED <<row, minted>>
    BY <1>0, <1>4, <2>1, <2>2, ServedTypes DEF ServeCreate, Served
  <2>3. CASE /\ Mint /\ row' = [row EXCEPT ![g] = Append(@, minted')]
             /\ Answer(m, "ok", Range(Preloaded(g)) \cup {minted'})
    <3>1. /\ row' \in [Guids -> Seq(Tokens)] /\ minted' \in 0 .. MaxTokens
          /\ minted' >= minted /\ Range(Preloaded(g)) \cup {minted'} \in SUBSET Tokens
      BY <2>1, <2>3, NewRows, MintedToken
    <3> QED
      BY <1>4, <2>3, <3>1, ServedTypes DEF ServeCreate, Served
  <2> QED
    BY <1>4, <2>2, <2>3 DEF ServeCreate, g
<1>5. CASE ServeReplace(m)
  <2>1. g \in Guids /\ old \in Guids
    BY <1>5, CallFields DEF ServeReplace, Served
  <2> HIDE DEF g, old
  <2>2. CASE Answer(m, "missing", {}) /\ UNCHANGED <<row, minted>>
    BY <1>0, <1>5, <2>2, ServedTypes DEF ServeReplace, Served
  <2>3. CASE row' = [row EXCEPT ![old] = <<>>] /\ Answer(m, "failed", {}) /\ UNCHANGED minted
    <3>1. row' \in [Guids -> Seq(Tokens)]
      BY <1>0, <2>1, <2>3
    <3> QED
      BY <1>0, <1>5, <2>3, <3>1, ServedTypes DEF ServeReplace, Served
  <2>4. CASE /\ Mint /\ row' = [row EXCEPT ![old] = <<>>, ![g] = <<minted'>>]
             /\ Answer(m, "ok", {minted'})
    <3>1. /\ row' \in [Guids -> Seq(Tokens)] /\ minted' \in 0 .. MaxTokens
          /\ minted' >= minted
      BY <2>1, <2>4, NewRows, MintedToken
    <3>2. {minted'} \in SUBSET Tokens
      BY <2>4, MintedToken
    <3> QED
      BY <1>5, <2>4, <3>1, <3>2, ServedTypes DEF ServeReplace, Served
  <2> QED
    BY <1>5, <2>2, <2>3, <2>4 DEF ServeReplace, g, old
<1> QED
  BY <1>1, <1>2, <1>3, <1>4, <1>5

LEMMA AttemptKeeps ==
  ASSUME TypeOK, NEW c \in Calls, Attempt(c)
  PROVE  /\ call' \in [Calls -> CallRecords \cup {Nil}]
         /\ \A d \in Calls : call'[d] = Nil <=> call[d] = Nil
         /\ \A d \in Calls : call[d] # Nil =>
              /\ \A f \in {"method", "guid", "old", "privkey", "privtoken", "named",
                           "solo", "result"} : call'[d][f] = call[d][f]
              /\ call'[d] = call[d] \/ (d = c /\ call'[d].answer = Nil)
         /\ call[c].attempt + 1 \in 1 .. MaxAttempts
<1> DEFINE r == [call[c] EXCEPT !.attempt = @ + 1, !.answer = Nil]
<1>1. call[c] \in CallRecords
  BY DEF Attempt, Underway, TypeOK
<1>2. call[c].attempt + 1 \in 1 .. MaxAttempts /\ call[c].attempt + 1 \in 0 .. MaxAttempts
  BY <1>1, CredentialsAssumption DEF Attempt, CallRecords
<1>3. /\ r \in CallRecords /\ r.answer = Nil
      /\ \A f \in {"method", "guid", "old", "privkey", "privtoken", "named",
                   "solo", "result"} : r[f] = call[c][f]
  BY <1>1, <1>2 DEF CallRecords
<1>4. call' = [call EXCEPT ![c] = r]
  BY DEF Attempt
<1> HIDE DEF r
<1>5. r # Nil /\ call[c] # Nil
  BY <1>1, <1>3, NilIsNoRecord
<1> QED
  BY <1>2, <1>3, <1>4, <1>5 DEF TypeOK

LEMMA AnsweredKeeps ==
  ASSUME TypeOK, NEW c \in Calls, Answered(c)
  PROVE  /\ call' \in [Calls -> CallRecords \cup {Nil}]
         /\ \A d \in Calls : call'[d] = Nil <=> call[d] = Nil
         /\ \A d \in Calls : call[d] # Nil =>
              /\ \A f \in {"method", "guid", "old", "privkey", "privtoken", "named",
                           "solo"} : call'[d][f] = call[d][f]
              /\ \/ call'[d] = call[d]
                 \/ /\ d = c /\ call'[d].answer = Nil
                    /\ call'[d].result = call[d].answer.status
         /\ call[c].answer \in [status : Statuses, tokens : SUBSET Tokens]
<1>1. call[c] \in CallRecords
  BY DEF Answered, Underway, TypeOK
<1>2. call[c].answer \in [status : Statuses, tokens : SUBSET Tokens]
  BY <1>1 DEF Answered, CallRecords
<1> DEFINE r == [call[c] EXCEPT !.result = call[c].answer.status, !.answer = Nil,
                              !.attempt = 0]
<1>3. /\ r \in CallRecords /\ r.answer = Nil /\ r.result = call[c].answer.status
      /\ \A f \in {"method", "guid", "old", "privkey", "privtoken", "named",
                   "solo"} : r[f] = call[c][f]
  <2>1. 0 \in 0 .. MaxAttempts
    BY CredentialsAssumption
  <2> QED
    BY <1>1, <1>2, <2>1 DEF CallRecords, Results
<1>4. call' = [call EXCEPT ![c] = r]
  BY DEF Answered
<1> HIDE DEF r
<1>5. r # Nil /\ call[c] # Nil
  BY <1>1, <1>3, NilIsNoRecord
<1> QED
  BY <1>2, <1>3, <1>4, <1>5 DEF TypeOK

LEMMA CannotSignKeeps ==
  ASSUME TypeOK, NEW c \in Calls, CannotSign(c)
  PROVE  /\ call' \in [Calls -> CallRecords \cup {Nil}]
         /\ \A d \in Calls : call'[d] = Nil <=> call[d] = Nil
         /\ \A d \in Calls : call[d] # Nil =>
              /\ \A f \in {"method", "guid", "old", "privkey", "privtoken", "named",
                           "solo"} : call'[d][f] = call[d][f]
              /\ \/ call'[d] = call[d]
                 \/ d = c /\ call'[d].answer = Nil /\ call'[d].result = "threw"
<1>1. call[c] \in CallRecords
  BY DEF CannotSign, Underway, TypeOK
<1> DEFINE r == [call[c] EXCEPT !.result = "threw", !.answer = Nil, !.attempt = 0]
<1>2. /\ r \in CallRecords /\ r.answer = Nil /\ r.result = "threw"
      /\ \A f \in {"method", "guid", "old", "privkey", "privtoken", "named",
                   "solo"} : r[f] = call[c][f]
  <2>1. 0 \in 0 .. MaxAttempts /\ "threw" \in Results
    BY CredentialsAssumption DEF Results
  <2> QED
    BY <1>1, <2>1 DEF CallRecords
<1>3. call' = [call EXCEPT ![c] = r]
  BY DEF CannotSign
<1> HIDE DEF r
<1>4. r # Nil /\ call[c] # Nil
  BY <1>1, <1>2, NilIsNoRecord
<1> QED
  BY <1>2, <1>3, <1>4 DEF TypeOK

LEMMA TypeStep ==
  ASSUME TypeOK, [Next]_vars
  PROVE  TypeOK'
<1>1. ASSUME NEW c \in Calls, Attempt(c)
      PROVE  TypeOK'
  <2>1. /\ call' \in [Calls -> CallRecords \cup {Nil}]
        /\ \A d \in Calls : call'[d] = Nil <=> call[d] = Nil
        /\ \A d \in Calls : call[d] # Nil =>
             /\ call'[d].method = call[d].method
             /\ call'[d].old = call[d].old
             /\ call'[d].privtoken = call[d].privtoken
        /\ call[c].attempt + 1 \in 1 .. MaxAttempts
    BY <1>1, AttemptKeeps
  <2>2. net' \subseteq [call : Calls, attempt : 1 .. MaxAttempts,
                        signature : Signatures \cup {Nil}]
    BY <1>1, <2>1, SignatureTypes DEF Attempt, TypeOK
  <2>3. \A m \in net' : call'[m.call] # Nil
    <3>1. \A m \in net' : m \in net \/ m.call = c
      BY <1>1 DEF Attempt
    <3>2. call[c] # Nil
      BY <1>1 DEF Attempt, Underway
    <3> QED
      BY <2>1, <3>1, <3>2 DEF TypeOK
  <2>4. \A d \in Calls : call'[d] # Nil /\ call'[d].method = "replace" =>
          call'[d].old # Nil /\ call'[d].privtoken # Nil
    BY <2>1 DEF TypeOK
  <2> QED
    BY <1>1, <2>1, <2>2, <2>3, <2>4 DEF Attempt, TypeOK
<1>2. ASSUME NEW c \in Calls, Answered(c)
      PROVE  TypeOK'
  <2>1. /\ call' \in [Calls -> CallRecords \cup {Nil}]
        /\ \A d \in Calls : call'[d] = Nil <=> call[d] = Nil
        /\ \A d \in Calls : call[d] # Nil =>
             /\ call'[d].method = call[d].method
             /\ call'[d].old = call[d].old
             /\ call'[d].privtoken = call[d].privtoken
    BY <1>2, AnsweredKeeps
  <2>2. known' \subseteq Tokens
    BY <1>2, AnsweredKeeps DEF Answered, TypeOK
  <2>3. \A m \in net' : call'[m.call] # Nil
    BY <1>2, <2>1 DEF Answered, TypeOK
  <2>4. \A d \in Calls : call'[d] # Nil /\ call'[d].method = "replace" =>
          call'[d].old # Nil /\ call'[d].privtoken # Nil
    BY <2>1 DEF TypeOK
  <2> QED
    BY <1>2, <2>1, <2>2, <2>3, <2>4 DEF Answered, TypeOK
<1>8. ASSUME NEW c \in Calls, CannotSign(c)
      PROVE  TypeOK'
  <2>1. /\ call' \in [Calls -> CallRecords \cup {Nil}]
        /\ \A d \in Calls : call'[d] = Nil <=> call[d] = Nil
        /\ \A d \in Calls : call[d] # Nil =>
             /\ call'[d].method = call[d].method
             /\ call'[d].old = call[d].old
             /\ call'[d].privtoken = call[d].privtoken
    BY <1>8, CannotSignKeeps
  <2>2. \A m \in net' : call'[m.call] # Nil
    BY <1>8, <2>1 DEF CannotSign, TypeOK
  <2>3. \A d \in Calls : call'[d] # Nil /\ call'[d].method = "replace" =>
          call'[d].old # Nil /\ call'[d].privtoken # Nil
    BY <2>1 DEF TypeOK
  <2> QED
    BY <1>8, <2>1, <2>2, <2>3 DEF CannotSign, TypeOK
<1>9. CASE Ages
  <2>1. aged' \in 0 .. minted
    BY <1>9, CredentialsAssumption DEF Ages, TypeOK
  <2> QED
    BY <1>9, <2>1 DEF Ages, TypeOK
<1>3. CASE Clean
  <2>1. ASSUME NEW d \in Calls
        PROVE  /\ call'[d] \in CallRecords \cup {Nil}
               /\ call[d] # Nil => call'[d] # Nil
               /\ call'[d] # Nil /\ call'[d].method = "replace" =>
                    call'[d].old # Nil /\ call'[d].privtoken # Nil
    <3>1. call'[d] = IF call[d] = Nil THEN Nil ELSE NotAlone(d)
      BY <1>3 DEF Clean
    <3> QED
      BY <3>1, NotAloneKeeps, NilIsNoRecord DEF TypeOK
  <2>2. globals' = [auth |-> FALSE, signer |-> Nil, privkey |-> Nil, privtoken |-> Nil,
                    pubkey |-> FALSE]
    BY <1>3 DEF Clean, Clear, Cleaned
  <2>3. "httpSignature" # Nil
    BY NilIsNoRecord DEF Signers
  <2> QED
    BY <1>3, <2>1, <2>2, <2>3 DEF Clean, TypeOK
<1>4. ASSUME NEW g \in Guids, TokenCreated(g)
      PROVE  TypeOK'
  <2>1. /\ row' \in [Guids -> Seq(Tokens)] /\ minted' \in 0 .. MaxTokens
        /\ minted' >= minted /\ foreign' \subseteq Tokens
    BY <1>4, NewRows, MintedToken DEF TokenCreated, TypeOK
  <2>2. aged' \in 0 .. minted'
    BY <1>4, <2>1 DEF TokenCreated, TypeOK
  <2> QED
    BY <1>4, <2>1, <2>2 DEF TokenCreated, TypeOK
<1>5. ASSUME NEW g \in Guids, TokenDelivered(g)
      PROVE  TypeOK'
  BY <1>5, NewestIsToken DEF TokenDelivered, TypeOK
<1>6. CASE UNCHANGED vars
  BY <1>6 DEF vars, TypeOK
<1>7. ASSUME NEW c \in Calls, NEW o \in Options, Legal(o), BeginCall(c, o)
      PROVE  TypeOK'
  BY <1>7, BeginTypes, NilIsNothing DEF Legal
<1> QED
  BY <1>1, <1>2, <1>3, <1>4, <1>5, <1>6, <1>7, <1>8, <1>9, CallsBegin, ServeTypes DEF Next

(* Types of the credentials model: whatever calls overlap, the library has  *)
(* a signer and a key whenever it has to sign.                              *)
THEOREM TypeCorrect == Spec => []TypeOK
<1>1. Init => TypeOK
  <2>1. "httpSignature" # Nil
    BY NilIsNoRecord DEF Signers
  <2> QED
    BY <2>1, CredentialsAssumption DEF Init, TypeOK, Cleaned, Tokens
<1>2. TypeOK /\ [Next]_vars => TypeOK'
  BY TypeStep
<1> QED
  BY <1>1, <1>2, PTL DEF Spec

-----------------------------------------------------------------------------
(* How a step changes the calls there are.                                  *)
Kept == {"method", "guid", "old", "privkey", "privtoken", "named"}

LEMMA BeginKeeps ==
  ASSUME TypeOK, NEW c \in Calls, NEW o \in Options, BeginCall(c, o)
  PROVE  /\ call[c] = Nil /\ call'[c] # Nil
         /\ \A f \in Kept : call'[c][f] = o[f]
         /\ call'[c].solo => fresh
         /\ call'[c].answer = Nil /\ call'[c].result = Nil
         /\ \A d \in Calls \ {c} :
              /\ call'[d] = Nil <=> call[d] = Nil
              /\ call[d] # Nil =>
                   /\ \A f \in Kept \cup {"answer", "result"} : call'[d][f] = call[d][f]
                   /\ call'[d].solo => call'[d] = call[d] /\ ~Underway(d)
<1>1. call[c] = Nil
  BY DEF BeginCall
<1>2. call'[c] = [method |-> o.method, guid |-> o.guid, old |-> o.old,
                  privkey |-> o.privkey, privtoken |-> o.privtoken,
                  named |-> o.named, attempt |-> 0,
                  solo |-> fresh /\ ~\E e \in Calls : Underway(e),
                  answer |-> Nil, result |-> Nil]
  BY DEF BeginCall
<1>3. call'[c] \in CallRecords
  BY <1>2, CredentialsAssumption DEF CallRecords, Options, TypeOK, Underway
<1>4. call'[c] # Nil
  BY <1>3, NilIsNoRecord
<1>5. /\ \A f \in Kept : call'[c][f] = o[f]
      /\ call'[c].solo => fresh
      /\ call'[c].answer = Nil /\ call'[c].result = Nil
  <2>1. /\ call'[c].method = o.method /\ call'[c].guid = o.guid /\ call'[c].old = o.old
        /\ call'[c].privkey = o.privkey /\ call'[c].privtoken = o.privtoken
        /\ call'[c].named = o.named
    BY <1>2
  <2>2. call'[c].solo = (fresh /\ ~\E e \in Calls : Underway(e))
    BY <1>2
  <2>3. call'[c].answer = Nil /\ call'[c].result = Nil
    BY <1>2
  <2> QED
    BY <2>1, <2>2, <2>3 DEF Kept
<1>6. ASSUME NEW d \in Calls \ {c}
      PROVE  /\ call'[d] = Nil <=> call[d] = Nil
             /\ call[d] # Nil =>
                  /\ \A f \in Kept \cup {"answer", "result"} : call'[d][f] = call[d][f]
                  /\ call'[d].solo => call'[d] = call[d] /\ ~Underway(d)
  <2>1. call'[d] = NotAlone(d)
    BY DEF BeginCall
  <2>2. CASE call[d] = Nil
    BY <2>1, <2>2 DEF NotAlone, Underway
  <2>3. CASE call[d] # Nil
    BY <2>1, <2>3, NotAloneKeeps, NilIsNoRecord DEF Kept
  <2> QED
    BY <2>2, <2>3
<1> QED
  BY <1>1, <1>4, <1>5, <1>6

LEMMA CleanKeeps ==
  ASSUME TypeOK, Clean, NEW d \in Calls
  PROVE  /\ call'[d] = Nil <=> call[d] = Nil
         /\ call[d] # Nil =>
              /\ \A f \in Kept \cup {"answer", "result"} : call'[d][f] = call[d][f]
              /\ call'[d].solo => call'[d] = call[d] /\ ~Underway(d)
<1>1. call'[d] = IF call[d] = Nil THEN Nil ELSE NotAlone(d)
  BY DEF Clean
<1> QED
  BY <1>1, NotAloneKeeps, NilIsNoRecord DEF Kept

(* Those of the recovery tokens that a list returns are among the tokens.   *)
ShownIn(tokens, seq) == \A k \in DOMAIN seq : k <= Limit => seq[k] \in tokens

(* What a creation answers.                                                 *)
LEMMA CreateAnswers ==
  ASSUME TypeOK, NEW m \in net, ServeCreate(m)
  PROVE  LET g == call[m.call].guid
         IN \E tokens \in SUBSET Tokens :
              /\ Answer(m, "ok", tokens)
              /\ tokens \subseteq Range(row'[g]) /\ ShownIn(tokens, row'[g])
<1> DEFINE g == call[m.call].guid
<1>1. g \in Guids /\ row[g] \in Seq(Tokens)
  BY CallFields DEF TypeOK
<1>2. /\ Range(Preloaded(g)) \subseteq Range(row[g]) /\ Range(row[g]) \subseteq Tokens
      /\ ShownIn(Range(Preloaded(g)), row[g])
  BY <1>1, PreloadedRow, RowTokens DEF ShownIn
<1>3. CASE Answer(m, "ok", Range(Preloaded(g))) /\ UNCHANGED <<row, minted>>
  <2> HIDE DEF g
  <2> QED
    BY <1>2, <1>3 DEF g
<1>4. CASE /\ Mint /\ row' = [row EXCEPT ![g] = Append(@, minted')]
           /\ Answer(m, "ok", Range(Preloaded(g)) \cup {minted'})
  <2>1. row'[g] = Append(row[g], minted') /\ minted' \in Tokens
    BY <1>1, <1>4, MintedToken DEF TypeOK
  <2> DEFINE tokens == Range(Preloaded(g)) \cup {minted'}
  <2>2. tokens \in SUBSET Tokens /\ tokens \subseteq Range(row'[g])
    BY <1>1, <1>2, <2>1, AppendedRange
  <2>3. ShownIn(tokens, row'[g])
    <3> SUFFICES ASSUME NEW k \in DOMAIN row'[g], k <= Limit
                 PROVE  row'[g][k] \in tokens
      BY DEF ShownIn
    <3> DEFINE t == minted'
    <3>1. t \in Tokens /\ row'[g] = Append(row[g], t) /\ Len(row[g]) \in Nat
      BY <1>1, <2>1
    <3> HIDE DEF t
    <3>2. (k \in 1 .. Len(row[g]) /\ row'[g][k] = row[g][k]) \/ row'[g][k] = t
      BY <1>1, <3>1
    <3>3. DOMAIN row[g] = 1 .. Len(row[g])
      BY <1>1
    <3> QED
      BY <1>2, <3>2, <3>3 DEF ShownIn, t
  <2> HIDE DEF g, tokens
  <2> QED
    BY <1>4, <2>2, <2>3 DEF g, tokens
<1> QED
  BY <1>3, <1>4 DEF ServeCreate

(* What the server does: one answer, and the variables of the library stay. *)
LEMMA ServeAnswers ==
  ASSUME TypeOK, NEW m \in net,
         Reject(m) \/ ServeList(m) \/ ServePin(m) \/ ServeCreate(m) \/ ServeReplace(m)
  PROVE  /\ net' = net \ {m} /\ UNCHANGED <<globals, fresh, known>>
         /\ \E status \in Statuses, tokens \in SUBSET Tokens :
              /\ Answer(m, status, tokens)
              /\ status = "refused" => Reject(m)
              /\ tokens \subseteq Range(row'[call[m.call].guid])
              /\ call[m.call].method = "create" /\ status = "ok" =>
                   ServeCreate(m) /\ ShownIn(tokens, row'[call[m.call].guid])
<1> USE DEF Statuses
<1>1. CASE Reject(m)
  BY <1>1 DEF Reject
<1>2. CASE ServeList(m)
  BY <1>2 DEF ServeList, Served
<1>3. CASE ServePin(m)
  <2> DEFINE g == call[m.call].guid
             status == IF Exists(g) THEN "ok" ELSE "missing"
             tokens == Range(Preloaded(g))
  <2>1. tokens \in SUBSET Tokens /\ tokens \subseteq Range(row[g])
    BY CallFields, RowTokens, PreloadedRow
  <2>2. Answer(m, status, tokens)
    BY <1>3 DEF ServePin
  <2>3. status \in Statuses /\ status # "refused"
    OBVIOUS
  <2>4. tokens \subseteq Range(row'[g]) /\ call[m.call].method # "create"
    BY <1>3, <2>1 DEF ServePin, Served
  <2> HIDE DEF status, tokens
  <2> QED
    BY <1>3, <2>1, <2>2, <2>3, <2>4 DEF ServePin, Served
<1>4. CASE ServeCreate(m)
  BY <1>4, CreateAnswers DEF ServeCreate, Served
<1>5. CASE ServeReplace(m)
  <2> DEFINE g == call[m.call].guid
  <2>1. call[m.call].method # "create"
    BY <1>5 DEF ServeReplace, Served
  <2>2. CASE Answer(m, "missing", {}) \/ Answer(m, "failed", {})
    BY <1>5, <2>1, <2>2 DEF ServeReplace, Served
  <2>3. CASE Mint /\ Answer(m, "ok", {minted'}) /\ row'[g] = <<minted'>>
    <3>1. {minted'} \subseteq Range(row'[g])
      BY <2>3 DEF Range
    <3>2. {minted'} \in SUBSET Tokens
      BY <2>3, MintedToken
    <3> QED
      BY <1>5, <2>1, <2>3, <3>1, <3>2 DEF ServeReplace, Served
  <2>4. \/ Answer(m, "missing", {}) \/ Answer(m, "failed", {})
        \/ Mint /\ Answer(m, "ok", {minted'}) /\ row'[g] = <<minted'>>
    <3>1. g \in Guids
      BY CallFields
    <3> QED
      BY <1>5, <3>1 DEF ServeReplace, TypeOK
  <2> QED
    BY <2>2, <2>3, <2>4
<1> QED
  BY <1>1, <1>2, <1>3, <1>4, <1>5

-----------------------------------------------------------------------------
(* What a call that is alone leaves in the variables of the library.        *)
Given(r) ==
  [auth      |-> r.method # "list",
   signer    |-> IF r.privkey # Nil \/ r.privtoken # Nil THEN "httpSignature" ELSE "pivytool",
   privkey   |-> r.privkey,
   privtoken |-> IF r.privkey = Nil THEN r.privtoken ELSE Nil]

WellFormed ==
  \A c \in Calls : call[c] # Nil =>
    IF call[c].method = "replace" THEN call[c].privkey = Nil ELSE call[c].privtoken = Nil

OwnVariables ==
  /\ fresh => globals = Cleaned
  /\ \A c \in Calls : Underway(c) /\ call[c].solo =>
       /\ \A f \in {"auth", "signer", "privkey", "privtoken"} : globals[f] = Given(call[c])[f]
       /\ call[c].method = "create" => globals.pubkey

SignInv == TypeOK /\ WellFormed /\ OwnVariables /\ SoloSigned

LEMMA OwnSignature ==
  ASSUME SignInv, NEW c \in Calls, Underway(c), call[c].solo
  PROVE  Signature(globals) = Own(c)
<1>0. "httpSignature" # Nil /\ "pivytool" # Nil
  BY NilIsNoRecord DEF Signers
<1>1. /\ call[c] # Nil
      /\ \A f \in {"auth", "signer", "privkey", "privtoken"} : globals[f] = Given(call[c])[f]
      /\ call[c].method = "replace" => call[c].privtoken # Nil
      /\ IF call[c].method = "replace" THEN call[c].privkey = Nil ELSE call[c].privtoken = Nil
  BY DEF SignInv, OwnVariables, WellFormed, TypeOK, Underway
<1>2. /\ globals.auth = (call[c].method # "list")
      /\ globals.signer = IF call[c].privkey # Nil \/ call[c].privtoken # Nil
                          THEN "httpSignature" ELSE "pivytool"
      /\ globals.privkey = call[c].privkey
      /\ globals.privtoken = IF call[c].privkey = Nil THEN call[c].privtoken ELSE Nil
  BY <1>1 DEF Given
<1>3. CASE call[c].method = "list"
  BY <1>2, <1>3 DEF Own, Signature
<1>4. CASE call[c].method = "replace"
  BY <1>0, <1>1, <1>2, <1>4 DEF Own, Signature
<1>5. CASE call[c].method # "list" /\ call[c].method # "replace"
  <2>1. Own(c) = [alg |-> "key", with |-> IF call[c].privkey = Nil THEN Card
                                          ELSE call[c].privkey]
    BY <1>5 DEF Own
  <2> QED
    BY <1>0, <1>1, <1>2, <1>5, <2>1 DEF Signature
<1> QED
  BY <1>3, <1>4, <1>5

(* ... and it only throws when it signs with a key and was given none.      *)
LEMMA OwnThrows ==
  ASSUME SignInv, NEW c \in Calls, CannotSign(c), call[c].solo
  PROVE  call[c].method = "pin"
<1>1. /\ Underway(c) /\ call[c] \in CallRecords /\ Throws(globals)
  BY DEF CannotSign, Underway, SignInv, TypeOK
<1>2. Own(c) # Nil /\ Own(c).alg = "key" /\ ~globals.pubkey
  BY <1>1, OwnSignature DEF Throws
<1>3. call[c].method # "list" /\ call[c].method # "replace"
  BY <1>2 DEF Own
<1>4. call[c].method # "create"
  BY <1>1, <1>2 DEF SignInv, OwnVariables
<1> QED
  BY <1>1, <1>3, <1>4 DEF CallRecords, Methods

LEMMA OwnKept ==
  ASSUME NEW c, \A f \in Kept : call'[c][f] = call[c][f]
  PROVE  Own(c)' = Own(c)
BY DEF Own, Kept

(* A step that begins no call, and leaves the variables of the library as   *)
(* they are unless no call is alone.                                        *)
LEMMA QuietStep ==
  ASSUME SignInv, TypeOK',
         \A d \in Calls :
           /\ call'[d] = Nil <=> call[d] = Nil
           /\ call[d] # Nil =>
                /\ \A f \in Kept : call'[d][f] = call[d][f]
                /\ call'[d].solo => call[d].solo
                /\ call'[d].solo /\ Underway(d)' => Underway(d) /\ globals' = globals,
         fresh' => globals' = Cleaned,
         \A m \in net' :
           \/ m \in net
           \/ Underway(m.call) /\ m.call \in Calls /\ m.signature = Signature(globals),
         \A d \in Calls : call[d] # Nil /\ call'[d].result = "threw" =>
           call[d].result = "threw" \/ CannotSign(d)
  PROVE  (WellFormed /\ OwnVariables /\ SoloSigned)'
<1>1. WellFormed'
  BY DEF SignInv, WellFormed, Kept
<1>2. ASSUME NEW d \in Calls, Underway(d)', call'[d].solo
      PROVE  /\ \A f \in {"auth", "signer", "privkey", "privtoken"} :
                  globals'[f] = Given(call'[d])[f]
             /\ call'[d].method = "create" => globals'.pubkey
  <2>1. call[d] # Nil /\ Underway(d) /\ call[d].solo /\ globals' = globals
    BY <1>2 DEF Underway
  <2>2. /\ \A f \in {"auth", "signer", "privkey", "privtoken"} : globals[f] = Given(call[d])[f]
        /\ call[d].method = "create" => globals.pubkey
    BY <2>1 DEF SignInv, OwnVariables
  <2>3. /\ call'[d].method = call[d].method /\ call'[d].privkey = call[d].privkey
        /\ call'[d].privtoken = call[d].privtoken
    BY <2>1 DEF Kept
  <2> QED
    BY <2>1, <2>2, <2>3 DEF Given
<1>3. ASSUME NEW m \in net', call'[m.call].solo
      PROVE  m.signature = Own(m.call)'
  <2>1. m.call \in Calls /\ call[m.call] # Nil
    BY DEF SignInv, TypeOK, Underway
  <2>2. Own(m.call)' = Own(m.call)
    BY <2>1, OwnKept
  <2>3. call[m.call].solo
    BY <1>3, <2>1
  <2> QED
    BY <1>3, <2>1, <2>2, <2>3, OwnSignature DEF SignInv, SoloSigned
<1>4. ASSUME NEW d \in Calls, call'[d] # Nil, call'[d].solo, call'[d].result = "threw"
      PROVE  call'[d].method = "pin"
  <2>1. call[d] # Nil /\ call[d].solo /\ call'[d].method = call[d].method
    BY <1>4 DEF Kept
  <2> QED
    BY <1>4, <2>1, OwnThrows DEF SignInv, SoloSigned
<1> QED
  BY <1>1, <1>2, <1>3, <1>4 DEF OwnVariables, SoloSigned

LEMMA SignStep ==
  ASSUME SignInv, [Next]_vars
  PROVE  SignInv'
<1>0. TypeOK /\ TypeOK'
  BY TypeStep DEF SignInv
<1>1. ASSUME NEW c \in Calls, NEW o \in Options, Legal(o), BeginCall(c, o)
      PROVE  (WellFormed /\ OwnVariables /\ SoloSigned)'
  <2>1. /\ \A f \in Kept : call'[c][f] = o[f]
        /\ call'[c].solo => fresh
        /\ call[c] = Nil
        /\ \A d \in Calls \ {c} :
             /\ call'[d] = Nil <=> call[d] = Nil
             /\ call[d] # Nil =>
                  /\ \A f \in Kept : call'[d][f] = call[d][f]
                  /\ call'[d].solo => call'[d] = call[d] /\ ~Underway(d)
    BY <1>0, <1>1, BeginKeeps
  <2>2. WellFormed'
    BY <2>1, <1>1 DEF SignInv, WellFormed, Kept, Legal
  <2>3. ASSUME fresh
        PROVE  /\ \A f \in {"auth", "signer", "privkey", "privtoken"} :
                    globals'[f] = Given(call'[c])[f]
               /\ call'[c].method = "create" => globals'.pubkey
    <3>1. /\ globals.auth = FALSE /\ globals.privkey = Nil /\ globals.privtoken = Nil
      BY <2>3 DEF SignInv, OwnVariables, Cleaned
    <3>2. globals' = SetFor(o)
      BY <1>1 DEF BeginCall
    <3>3. /\ call'[c].method = o.method /\ call'[c].privkey = o.privkey
          /\ call'[c].privtoken = o.privtoken
      BY <2>1 DEF Kept
    <3>4. o.method = "create" => o.pubkey
      BY <1>1 DEF Legal
    <3>5. /\ globals'.auth = (o.method # "list")
          /\ globals'.signer = IF o.privkey # Nil \/ o.privtoken # Nil
                               THEN "httpSignature" ELSE "pivytool"
          /\ globals'.privkey = o.privkey
          /\ globals'.privtoken = IF o.privkey = Nil THEN o.privtoken ELSE Nil
          /\ o.method = "create" => globals'.pubkey
      BY <3>1, <3>2, <3>4 DEF SetFor
    <3>6. /\ Given(call'[c]).auth = (call'[c].method # "list")
          /\ Given(call'[c]).signer = IF call'[c].privkey # Nil \/ call'[c].privtoken # Nil
                                      THEN "httpSignature" ELSE "pivytool"
          /\ Given(call'[c]).privkey = call'[c].privkey
          /\ Given(call'[c]).privtoken = IF call'[c].privkey = Nil THEN call'[c].privtoken
                                         ELSE Nil
      BY DEF Given
    <3> QED
      BY <3>3, <3>5, <3>6
  <2>4. OwnVariables'
    <3>1. ~fresh'
      BY <1>1 DEF BeginCall
    <3>2. ASSUME NEW d \in Calls, Underway(d)', call'[d].solo
          PROVE  d = c /\ fresh
      BY <2>1, <3>2 DEF Underway
    <3> QED
      BY <2>3, <3>1, <3>2 DEF OwnVariables
  <2>5. SoloSigned'
    <3> SUFFICES ASSUME NEW m \in net, call'[m.call].solo
                 PROVE  m.signature = Own(m.call)'
      <4>1. ASSUME NEW d \in Calls, call'[d] # Nil, call'[d].solo, call'[d].result = "threw"
            PROVE  call'[d].method = "pin"
        <5>1. d # c /\ call[d] # Nil /\ call'[d] = call[d]
          BY <1>0, <1>1, <2>1, <4>1, BeginKeeps, NilIsNoRecord DEF Results
        <5> QED
          BY <4>1, <5>1 DEF SignInv, SoloSigned
      <4> QED
        BY <1>1, <4>1 DEF SoloSigned, BeginCall
    <3>1. m.call \in Calls /\ call[m.call] # Nil
      BY <1>0 DEF TypeOK
    <3>2. m.call # c
      BY <2>1, <3>1
    <3> QED
      BY <2>1, <3>1, <3>2, OwnKept DEF SignInv, SoloSigned
  <2> QED
    BY <2>2, <2>4, <2>5
<1>2. ASSUME NEW c \in Calls, Attempt(c)
      PROVE  (WellFormed /\ OwnVariables /\ SoloSigned)'
  <2>1. ASSUME NEW d \in Calls
        PROVE  /\ call'[d] = Nil <=> call[d] = Nil
               /\ call[d] # Nil =>
                    /\ \A f \in Kept : call'[d][f] = call[d][f]
                    /\ call'[d].solo = call[d].solo /\ call'[d].result = call[d].result
    BY <1>0, <1>2, AttemptKeeps DEF Kept
  <2>2. UNCHANGED <<globals, fresh>>
    BY <1>2 DEF Attempt
  <2>3. \A m \in net' :
          \/ m \in net
          \/ Underway(m.call) /\ m.call \in Calls /\ m.signature = Signature(globals)
    BY <1>2 DEF Attempt
  <2>4. fresh' => globals' = Cleaned
    BY <2>2 DEF SignInv, OwnVariables
  <2>5. ASSUME NEW d \in Calls, call[d] # Nil, Underway(d)'
        PROVE  Underway(d)
    BY <2>1, <2>5 DEF Underway
  <2>6. \A d \in Calls : call[d] # Nil /\ call'[d].result = "threw" => call[d].result = "threw"
    BY <2>1
  <2> QED
    BY <1>0, <2>1, <2>2, <2>3, <2>4, <2>5, <2>6, QuietStep
<1>9. ASSUME NEW c \in Calls, CannotSign(c)
      PROVE  (WellFormed /\ OwnVariables /\ SoloSigned)'
  <2>1. ASSUME NEW d \in Calls
        PROVE  /\ call'[d] = Nil <=> call[d] = Nil
               /\ call[d] # Nil =>
                    /\ \A f \in Kept : call'[d][f] = call[d][f]
                    /\ call'[d].solo = call[d].solo
                    /\ call'[d] = call[d] \/ (d = c /\ call'[d].result = "threw")
    BY <1>0, <1>9, CannotSignKeeps DEF Kept
  <2>2. UNCHANGED <<globals, fresh, net>>
    BY <1>9 DEF CannotSign
  <2>3. fresh' => globals' = Cleaned
    BY <2>2 DEF SignInv, OwnVariables
  <2>4. ASSUME NEW d \in Calls, call[d] # Nil, Underway(d)'
        PROVE  Underway(d)
    <3>1. call'[d] = call[d] \/ call'[d].result = "threw"
      BY <2>1, <2>4
    <3> QED
      BY <2>4, <3>1, NilIsNoRecord DEF Underway, Results
  <2>5. \A d \in Calls : call[d] # Nil /\ call'[d].result = "threw" =>
          call[d].result = "threw" \/ CannotSign(d)
    BY <1>9, <2>1
  <2> QED
    BY <1>0, <2>1, <2>2, <2>3, <2>4, <2>5, QuietStep
<1>3. ASSUME NEW c \in Calls, Answered(c)
      PROVE  (WellFormed /\ OwnVariables /\ SoloSigned)'
  <2>1. ASSUME NEW d \in Calls
        PROVE  /\ call'[d] = Nil <=> call[d] = Nil
               /\ call[d] # Nil =>
                    /\ \A f \in Kept : call'[d][f] = call[d][f]
                    /\ call'[d].solo = call[d].solo
    BY <1>0, <1>3, AnsweredKeeps DEF Kept
  <2>2. UNCHANGED <<globals, fresh, net>>
    BY <1>3 DEF Answered
  <2>4. fresh' => globals' = Cleaned
    BY <2>2 DEF SignInv, OwnVariables
  <2>5. ASSUME NEW d \in Calls, call[d] # Nil, Underway(d)'
        PROVE  Underway(d)
    <3>1. d = c \/ call'[d] = call[d]
      BY <1>0, <1>3, <2>5, AnsweredKeeps
    <3> QED
      BY <1>3, <2>5, <3>1 DEF Underway, Answered
  <2>6. ASSUME NEW d \in Calls, call[d] # Nil, call'[d].result = "threw"
        PROVE  call[d].result = "threw"
    <3>1. call'[d] = call[d] \/ (d = c /\ call'[d].result = call[d].answer.status)
      BY <1>0, <1>3, <2>6, AnsweredKeeps
    <3> QED
      BY <1>0, <1>3, <2>6, <3>1, AnsweredKeeps DEF Statuses
  <2> QED
    BY <1>0, <2>1, <2>2, <2>4, <2>5, <2>6, QuietStep
<1>4. ASSUME Clean
      PROVE  (WellFormed /\ OwnVariables /\ SoloSigned)'
  <2>1. ASSUME NEW d \in Calls
        PROVE  /\ call'[d] = Nil <=> call[d] = Nil
               /\ call[d] # Nil =>
                    /\ \A f \in Kept : call'[d][f] = call[d][f]
                    /\ call'[d].result = call[d].result
                    /\ call'[d].solo => call'[d] = call[d] /\ ~Underway(d)
    BY <1>0, <1>4, CleanKeeps
  <2>2. net' = net /\ globals' = Cleaned
    BY <1>4 DEF Clean, Clear
  <2>3. ASSUME NEW d \in Calls, call[d] # Nil, call'[d].solo
        PROVE  ~Underway(d)'
    BY <2>1, <2>3 DEF Underway
  <2> QED
    BY <1>0, <2>1, <2>2, <2>3, QuietStep
<1>5. ASSUME NEW m \in net,
             \/ Reject(m) \/ ServeList(m) \/ ServePin(m)
             \/ ServeCreate(m) \/ ServeReplace(m)
      PROVE  (WellFormed /\ OwnVariables /\ SoloSigned)'
  <2>1. net' = net \ {m} /\ UNCHANGED <<globals, fresh>>
    BY <1>0, <1>5, ServeAnswers
  <2>2. PICK status \in Statuses, tokens \in SUBSET Tokens : Answer(m, status, tokens)
    BY <1>0, <1>5, ServeAnswers
  <2>3. ASSUME NEW d \in Calls
        PROVE  /\ call'[d] = Nil <=> call[d] = Nil
               /\ call[d] # Nil =>
                    /\ \A f \in Kept : call'[d][f] = call[d][f]
                    /\ call'[d].solo = call[d].solo /\ call'[d].result = call[d].result
    <3>1. /\ call'[d] = Nil <=> call[d] = Nil
          /\ call[d] # Nil =>
               \A f \in {"method", "guid", "old", "privkey", "privtoken", "named",
                        "attempt", "solo", "result"} : call'[d][f] = call[d][f]
      BY <1>0, <2>2, AnswerKeeps
    <3> QED
      BY <3>1 DEF Kept
  <2>4. fresh' => globals' = Cleaned
    BY <2>1 DEF SignInv, OwnVariables
  <2>5. ASSUME NEW d \in Calls, call[d] # Nil, Underway(d)'
        PROVE  Underway(d)
    BY <2>3, <2>5 DEF Underway
  <2> QED
    BY <1>0, <2>1, <2>3, <2>4, <2>5, QuietStep
<1>6. ASSUME UNCHANGED <<globals, fresh, call, net>>
      PROVE  (WellFormed /\ OwnVariables /\ SoloSigned)'
  <2>1. \A d \in Calls : Underway(d)' <=> Underway(d)
    BY <1>6 DEF Underway
  <2> QED
    BY <1>0, <1>6, <2>1, QuietStep DEF SignInv, OwnVariables
<1>7. ASSUME Ages \/ \E g \in Guids : TokenCreated(g) \/ TokenDelivered(g)
      PROVE  UNCHANGED <<globals, fresh, call, net>>
  BY <1>7 DEF TokenCreated, TokenDelivered, Ages
<1>8. UNCHANGED vars => UNCHANGED <<globals, fresh, call, net>>
  BY DEF vars
<1> QED
  BY <1>0, <1>1, <1>2, <1>3, <1>4, <1>5, <1>6, <1>7, <1>8, <1>9, CallsBegin DEF Next, SignInv

LEMMA SignInvariant == Spec => []SignInv
<1>1. Init => SignInv
  <2>1. "httpSignature" # Nil
    BY NilIsNoRecord DEF Signers
  <2>2. Init => TypeOK
    BY <2>1, CredentialsAssumption DEF Init, TypeOK, Cleaned, Tokens
  <2> QED
    BY <2>2 DEF Init, SignInv, WellFormed, OwnVariables, SoloSigned, Underway
<1>2. SignInv /\ [Next]_vars => SignInv'
  BY SignStep
<1> QED
  BY <1>1, <1>2, PTL DEF Spec

(* A call that is alone signs every attempt with what it was given.         *)
THEOREM AloneSignedAsTold == Spec => []SoloSigned
BY SignInvariant, PTL DEF SignInv

-----------------------------------------------------------------------------
(* How a step changes what a PIV token has, and what a call has heard.      *)
Serves(m) ==
  Reject(m) \/ ServeList(m) \/ ServePin(m) \/ ServeCreate(m) \/ ServeReplace(m)

LEMMA RowMoves ==
  ASSUME TypeOK, [Next]_vars, NEW g \in Guids
  PROVE  \/ row'[g] = row[g]
         \/ /\ row'[g] = <<>>
            /\ \E c \in Calls : call[c] # Nil /\ call[c].old = g
         \/ /\ Mint /\ row'[g] = Append(row[g], minted')
            /\ Exists(g) =>
                 \/ minted' \in foreign'
                 \/ \E c \in Calls : /\ call[c] # Nil /\ call[c].method = "create"
                                      /\ call[c].guid = g /\ ~Retrieves(c)
<1>0. row \in [Guids -> Seq(Tokens)]
  BY DEF TypeOK
<1>1. ASSUME NEW m \in net, ServeCreate(m)
      PROVE  \/ row'[g] = row[g]
             \/ /\ Mint /\ row'[g] = Append(row[g], minted')
                /\ Exists(g) => \E c \in Calls : /\ call[c] # Nil /\ call[c].method = "create"
                                                 /\ call[c].guid = g /\ ~Retrieves(c)
  <2>1. m.call \in Calls /\ call[m.call] # Nil /\ call[m.call].guid \in Guids
    BY CallFields DEF TypeOK
  <2>2. call[m.call].method = "create"
    BY <1>1 DEF ServeCreate, Served
  <2>3. \/ row' = row
        \/ /\ Mint /\ ~(Exists(call[m.call].guid) /\ Retrieves(m.call))
           /\ row' = [row EXCEPT ![call[m.call].guid] = Append(@, minted')]
    BY <1>1 DEF ServeCreate
  <2> QED
    BY <1>0, <2>1, <2>2, <2>3
<1>2. ASSUME NEW m \in net, ServeReplace(m)
      PROVE  \/ row'[g] = row[g]
             \/ /\ row'[g] = <<>>
                /\ \E c \in Calls : call[c] # Nil /\ call[c].old = g
             \/ Mint /\ row'[g] = Append(row[g], minted') /\ ~Exists(g)
  <2> DEFINE new == call[m.call].guid
             old == call[m.call].old
  <2>1. m.call \in Calls /\ call[m.call] # Nil /\ new \in Guids /\ old \in Guids
    BY <1>2, CallFields DEF TypeOK, ServeReplace, Served
  <2>2. \/ row' = row
        \/ row' = [row EXCEPT ![old] = <<>>]
        \/ /\ Mint /\ Exists(old) /\ ~Exists(new)
           /\ row' = [row EXCEPT ![old] = <<>>, ![new] = <<minted'>>]
    BY <1>2 DEF ServeReplace
  <2> HIDE DEF new
  <2>3. CASE row' = row \/ row' = [row EXCEPT ![old] = <<>>]
    BY <1>0, <2>1, <2>3
  <2>4. CASE /\ Mint /\ Exists(old) /\ ~Exists(new)
             /\ row' = [row EXCEPT ![old] = <<>>, ![new] = <<minted'>>]
    <3>1. CASE g = new
      <4>1. row'[g] = <<minted'>> /\ row[g] = <<>>
        BY <1>0, <2>1, <2>4, <3>1 DEF Exists
      <4>2. row'[g] = Append(row[g], minted')
        BY <4>1
      <4> QED
        BY <2>4, <3>1, <4>2
    <3>2. CASE g # new
      BY <1>0, <2>1, <2>4, <3>2
    <3> QED
      BY <3>1, <3>2
  <2> QED
    BY <2>2, <2>3, <2>4
<1>3. ASSUME NEW h \in Guids, TokenCreated(h)
      PROVE  \/ row'[g] = row[g]
             \/ Mint /\ row'[g] = Append(row[g], minted') /\ minted' \in foreign'
  BY <1>0, <1>3 DEF TokenCreated
<1>4. ASSUME UNCHANGED row
      PROVE  row'[g] = row[g]
  BY <1>4
<1>5. ASSUME NEW m \in net, Reject(m) \/ ServeList(m) \/ ServePin(m)
      PROVE  UNCHANGED row
  BY <1>5 DEF Reject, ServeList, ServePin
<1>6. ASSUME NEW c \in Calls,
             \/ Attempt(c) \/ CannotSign(c) \/ Answered(c)
             \/ \E o \in Options : BeginCall(c, o)
      PROVE  UNCHANGED row
  BY <1>6 DEF Attempt, CannotSign, Answered, BeginCall
<1>7. ASSUME Clean \/ Ages \/ (\E h \in Guids : TokenDelivered(h)) \/ UNCHANGED vars
      PROVE  UNCHANGED row
  BY <1>7 DEF Clean, Ages, TokenDelivered, vars
<1> QED
  BY <1>1, <1>2, <1>3, <1>4, <1>5, <1>6, <1>7, CallsBegin DEF Next

LEMMA CallMoves ==
  ASSUME TypeOK, [Next]_vars, NEW c \in Calls, call[c] # Nil
  PROVE  /\ call'[c] # Nil
         /\ \A f \in Kept : call'[c][f] = call[c][f]
         /\ call'[c].solo => call[c].solo
         /\ \/ /\ call'[c].answer \in {call[c].answer, Nil}
               /\ call'[c].result = call[c].result
            \/ /\ Answered(c) /\ call'[c].answer = Nil
               /\ call'[c].result = call[c].answer.status
            \/ call'[c].answer = Nil /\ call'[c].result = "threw"
            \/ \E m \in net, status \in Statuses, tokens \in SUBSET Tokens :
                 /\ m.call = c
                 /\ status = "refused" => Reject(m)
                 /\ tokens \subseteq Range(row'[call[c].guid])
                 /\ call[c].method = "create" /\ status = "ok" =>
                      ServeCreate(m) /\ ShownIn(tokens, row'[call[c].guid])
                 /\ call'[c].answer = [status |-> status, tokens |-> tokens]
                 /\ call'[c].result = call[c].result
<1>1. ASSUME NEW d \in Calls, NEW o \in Options, BeginCall(d, o)
      PROVE  /\ call'[c] # Nil
             /\ \A f \in Kept : call'[c][f] = call[c][f]
             /\ call'[c].solo => call[c].solo
             /\ call'[c].answer = call[c].answer /\ call'[c].result = call[c].result
  <2>1. c # d
    BY <1>1, BeginKeeps
  <2> QED
    BY <1>1, <2>1, BeginKeeps
<1>2. ASSUME NEW d \in Calls, Attempt(d)
      PROVE  /\ call'[c] # Nil
             /\ \A f \in Kept : call'[c][f] = call[c][f]
             /\ call'[c].solo => call[c].solo
             /\ call'[c].answer \in {call[c].answer, Nil} /\ call'[c].result = call[c].result
  BY <1>2, AttemptKeeps DEF Kept
<1>3. ASSUME NEW d \in Calls, Answered(d)
      PROVE  /\ call'[c] # Nil
             /\ \A f \in Kept : call'[c][f] = call[c][f]
             /\ call'[c].solo => call[c].solo
             /\ \/ call'[c].answer = call[c].answer /\ call'[c].result = call[c].result
                \/ /\ Answered(c) /\ call'[c].answer = Nil
                   /\ call'[c].result = call[c].answer.status
  BY <1>3, AnsweredKeeps DEF Kept
<1>11. ASSUME NEW d \in Calls, CannotSign(d)
       PROVE  /\ call'[c] # Nil
              /\ \A f \in Kept : call'[c][f] = call[c][f]
              /\ call'[c].solo => call[c].solo
              /\ \/ call'[c].answer = call[c].answer /\ call'[c].result = call[c].result
                 \/ call'[c].answer = Nil /\ call'[c].result = "threw"
  BY <1>11, CannotSignKeeps DEF Kept
<1>4. ASSUME Clean
      PROVE  /\ call'[c] # Nil
             /\ \A f \in Kept : call'[c][f] = call[c][f]
             /\ call'[c].solo => call[c].solo
             /\ call'[c].answer = call[c].answer /\ call'[c].result = call[c].result
  BY <1>4, CleanKeeps
<1>5. ASSUME NEW m \in net, Serves(m)
      PROVE  /\ call'[c] # Nil
             /\ \A f \in Kept : call'[c][f] = call[c][f]
             /\ call'[c].solo => call[c].solo
             /\ \/ call'[c].answer = call[c].answer /\ call'[c].result = call[c].result
                \/ \E status \in Statuses, tokens \in SUBSET Tokens :
                     /\ m.call = c
                     /\ status = "refused" => Reject(m)
                     /\ tokens \subseteq Range(row'[call[c].guid])
                     /\ call[c].method = "create" /\ status = "ok" =>
                          ServeCreate(m) /\ ShownIn(tokens, row'[call[c].guid])
                     /\ call'[c].answer = [status |-> status, tokens |-> tokens]
                     /\ call'[c].result = call[c].result
  <2>1. PICK status \in Statuses, tokens \in SUBSET Tokens :
          /\ Answer(m, status, tokens)
          /\ status = "refused" => Reject(m)
          /\ tokens \subseteq Range(row'[call[m.call].guid])
          /\ call[m.call].method = "create" /\ status = "ok" =>
               ServeCreate(m) /\ ShownIn(tokens, row'[call[m.call].guid])
    BY <1>5, ServeAnswers DEF Serves
  <2>2. /\ call'[c] # Nil
        /\ \A f \in {"method", "guid", "old", "privkey", "privtoken", "named",
                     "attempt", "solo", "result"} : call'[c][f] = call[c][f]
        /\ \/ call'[c] = call[c]
           \/ c = m.call /\ call'[c].answer = [status |-> status, tokens |-> tokens]
    BY <2>1, AnswerKeeps
  <2>3. /\ \A f \in Kept : call'[c][f] = call[c][f]
        /\ call'[c].solo = call[c].solo /\ call'[c].result = call[c].result
    BY <2>2 DEF Kept
  <2> QED
    BY <2>1, <2>2, <2>3
<1>6. ASSUME UNCHANGED call
      PROVE  call'[c] = call[c]
  BY <1>6
<1>7. ASSUME (\E g \in Guids : TokenCreated(g) \/ TokenDelivered(g)) \/ Ages \/ UNCHANGED vars
      PROVE  UNCHANGED call
  BY <1>7 DEF TokenCreated, TokenDelivered, Ages, vars
<1>8. CASE \E m \in net : Serves(m)
  BY <1>5, <1>8
<1>9. CASE \E d \in Calls : Answered(d)
  BY <1>3, <1>9
<1>10. CASE ~\E m \in net : Serves(m)
  BY <1>1, <1>2, <1>3, <1>4, <1>6, <1>7, <1>10, <1>11, CallsBegin DEF Next, Serves
<1> QED
  BY <1>8, <1>10

LEMMA NewCallUnanswered ==
  ASSUME TypeOK, [Next]_vars, NEW c \in Calls, call[c] = Nil, call'[c] # Nil
  PROVE  call'[c].answer = Nil /\ call'[c].result = Nil
<1>1. \A d \in Calls, o \in Options :
        BeginCall(d, o) => call'[c].answer = Nil /\ call'[c].result = Nil
  BY BeginKeeps
<1>2. (\E m \in net : Serves(m)) => call'[c] = Nil
  BY ServeAnswers, AnswerKeeps DEF Serves
<1>3. \A d \in Calls : Attempt(d) \/ CannotSign(d) \/ Answered(d) => call'[c] = Nil
  BY AttemptKeeps, CannotSignKeeps, AnsweredKeeps
<1>4. Clean => call'[c] = Nil
  BY CleanKeeps
<1>5. (\E g \in Guids : TokenCreated(g) \/ TokenDelivered(g)) \/ Ages \/ UNCHANGED vars
        => call'[c] = Nil
  BY DEF TokenCreated, TokenDelivered, Ages, vars
<1> QED
  BY <1>1, <1>2, <1>3, <1>4, <1>5, CallsBegin DEF Next, Serves

-----------------------------------------------------------------------------
(* Recovery tokens are numbered as they are created: what anybody knows was *)
(* created before, so that it does not become the newest one later.         *)
Numbered ==
  /\ known \subseteq 1 .. minted
  /\ \A g \in Guids : Range(row[g]) \subseteq 1 .. minted
  /\ \A c \in Calls : call[c] # Nil =>
       /\ call[c].privtoken \in 1 .. minted \cup {Nil}
       /\ call[c].answer # Nil => call[c].answer.tokens \subseteq 1 .. minted

LEMMA NumberedStep ==
  ASSUME TypeOK, Numbered, [Next]_vars
  PROVE  Numbered'
<1>0. TypeOK' /\ minted \in Nat
  BY TypeStep DEF TypeOK
<1>1. minted' = minted \/ Mint
  BY CallsBegin DEF Next, BeginCall, Attempt, CannotSign, Answered, Clean, Ages, Reject,
     ServeList, ServePin, ServeCreate, ServeReplace, TokenCreated, TokenDelivered, vars
<1>2. 1 .. minted \subseteq 1 .. minted' /\ (Mint => minted' \in 1 .. minted')
  BY <1>0, <1>1 DEF Mint
<1>3. ASSUME NEW g \in Guids
      PROVE  Range(row'[g]) \subseteq 1 .. minted'
  <2>1. CASE row'[g] = row[g]
    BY <1>2, <2>1 DEF Numbered
  <2>2. CASE row'[g] = <<>>
    BY <2>2 DEF Range
  <2>3. CASE Mint /\ row'[g] = Append(row[g], minted')
    BY <1>2, <2>3, MintedToken, AppendedRange DEF Numbered, TypeOK
  <2> QED
    BY <2>1, <2>2, <2>3, RowMoves
<1>4. ASSUME NEW c \in Calls, call'[c] # Nil
      PROVE  /\ call'[c].privtoken \in 1 .. minted' \cup {Nil}
             /\ call'[c].answer # Nil => call'[c].answer.tokens \subseteq 1 .. minted'
  <2>1. CASE call[c] # Nil
    <3>1. call'[c].privtoken = call[c].privtoken
      BY <2>1, CallMoves DEF Kept
    <3>2. \/ call'[c].answer \in {call[c].answer, Nil}
          \/ call'[c].answer.tokens \subseteq Range(row'[call[c].guid])
      <4>1. \/ /\ call'[c].answer \in {call[c].answer, Nil}
               /\ call'[c].result = call[c].result
            \/ /\ Answered(c) /\ call'[c].answer = Nil
               /\ call'[c].result = call[c].answer.status
            \/ call'[c].answer = Nil /\ call'[c].result = "threw"
            \/ \E m \in net, status \in Statuses, tokens \in SUBSET Tokens :
                 /\ m.call = c
                 /\ status = "refused" => Reject(m)
                 /\ tokens \subseteq Range(row'[call[c].guid])
                 /\ call[c].method = "create" /\ status = "ok" =>
                      ServeCreate(m) /\ ShownIn(tokens, row'[call[c].guid])
                 /\ call'[c].answer = [status |-> status, tokens |-> tokens]
                 /\ call'[c].result = call[c].result
        BY <2>1, CallMoves
      <4>2. ASSUME NEW m \in net, NEW status \in Statuses, NEW tokens \in SUBSET Tokens,
                   tokens \subseteq Range(row'[call[c].guid]),
                   call'[c].answer = [status |-> status, tokens |-> tokens]
            PROVE  call'[c].answer.tokens \subseteq Range(row'[call[c].guid])
        <5>1. call'[c].answer.tokens = tokens
          BY <4>2
        <5> QED
          BY <4>2, <5>1
      <4>3. CASE call'[c].answer \in {call[c].answer, Nil}
        BY <4>3
      <4>4. CASE call'[c].answer \notin {call[c].answer, Nil}
        BY <4>1, <4>2, <4>4
      <4> QED
        BY <4>3, <4>4
    <3>3. call[c].guid \in Guids
      BY <2>1 DEF TypeOK, CallRecords
    <3> QED
      BY <1>2, <1>3, <2>1, <3>1, <3>2, <3>3 DEF Numbered
  <2>2. CASE call[c] = Nil
    <3>1. PICK o \in Options : Legal(o) /\ BeginCall(c, o)
      <4>1. \E d \in Calls, o \in Options : Legal(o) /\ BeginCall(d, o)
        <5>1. (\E m \in net : Serves(m)) => call'[c] = Nil
          BY <2>2, ServeAnswers, AnswerKeeps DEF Serves
        <5>2. \A d \in Calls : Attempt(d) \/ CannotSign(d) \/ Answered(d) => call'[c] = Nil
          BY <2>2, AttemptKeeps, CannotSignKeeps, AnsweredKeeps
        <5>3. Clean => call'[c] = Nil
          BY <2>2, CleanKeeps
        <5>4. (\E g \in Guids : TokenCreated(g) \/ TokenDelivered(g)) \/ Ages \/ UNCHANGED vars
                => call'[c] = Nil
          BY <2>2 DEF TokenCreated, TokenDelivered, Ages, vars
        <5> QED
          BY <1>4, <5>1, <5>2, <5>3, <5>4, CallsBegin DEF Next, Serves
      <4> QED
        BY <1>4, <2>2, <4>1, BeginKeeps
    <3>2. call'[c].privtoken = o.privtoken /\ call'[c].answer = Nil
      BY <3>1, BeginKeeps DEF Kept
    <3> QED
      BY <1>2, <3>1, <3>2 DEF Legal, Numbered
  <2> QED
    BY <2>1, <2>2
<1>5. known' \subseteq 1 .. minted'
  <2>1. ASSUME NEW c \in Calls, Answered(c)
        PROVE  known' \subseteq 1 .. minted'
    BY <1>2, <2>1 DEF Answered, Underway, Numbered
  <2>2. ASSUME NEW g \in Guids, TokenDelivered(g)
        PROVE  known' \subseteq 1 .. minted'
    BY <1>2, <2>2, NewestIsToken DEF TokenDelivered, Numbered
  <2>3. \/ known' = known
        \/ \E c \in Calls : Answered(c)
        \/ \E g \in Guids : TokenDelivered(g)
    BY CallsBegin DEF Next, BeginCall, Attempt, CannotSign, Clean, Ages, Reject, ServeList,
       ServePin, ServeCreate, ServeReplace, TokenCreated, vars
  <2> QED
    BY <1>2, <2>1, <2>2, <2>3 DEF Numbered
<1> QED
  BY <1>3, <1>4, <1>5 DEF Numbered

-----------------------------------------------------------------------------
(* Why a call that is alone is refused.                                     *)
Refused(c) ==
  call[c].result = "refused" \/ (call[c].answer # Nil /\ call[c].answer.status = "refused")

Unrightful(c) ==
  IF call[c].method = "replace"
  THEN LET old == call[c].old
       IN Len(row[old]) <= ShortSort => ~Exists(old) \/ call[c].privtoken # NewestOf(old)
  ELSE Own(c).with # call[c].guid

Refusals ==
  \A c \in Calls : call[c] # Nil /\ call[c].solo /\ Refused(c) => Unrightful(c)

RightInv == SignInv /\ Numbered /\ Refusals

LEMMA UnrightfulStays ==
  ASSUME SignInv, Numbered, [Next]_vars, NEW c \in Calls, call[c] # Nil, Unrightful(c)
  PROVE  Unrightful(c)'
<1>0. TypeOK
  BY DEF SignInv
<1>1. /\ \A f \in Kept : call'[c][f] = call[c][f]
      /\ call'[c].method = call[c].method /\ call'[c].guid = call[c].guid
      /\ call'[c].old = call[c].old /\ call'[c].privtoken = call[c].privtoken
  BY <1>0, CallMoves DEF Kept
<1>2. CASE call[c].method # "replace"
  <2>1. Own(c)' = Own(c)
    BY <1>1, OwnKept
  <2> QED
    BY <1>1, <1>2, <2>1 DEF Unrightful
<1>3. CASE call[c].method = "replace"
  <2> DEFINE old == call[c].old
  <2>1. old \in Guids /\ call[c].privtoken \in 1 .. minted
    BY <1>0, <1>3 DEF TypeOK, CallRecords, Numbered
  <2>2. Len(row[old]) <= ShortSort => ~Exists(old) \/ call[c].privtoken # NewestOf(old)
    BY <1>3 DEF Unrightful
  <2>3. Len(row'[old]) <= ShortSort => row'[old] = <<>> \/ call[c].privtoken # Last(row'[old])
    <3>1. CASE row'[old] = row[old]
      BY <2>2, <3>1 DEF Exists, NewestOf
    <3>2. CASE row'[old] = <<>>
      BY <3>2
    <3>3. CASE Mint /\ row'[old] = Append(row[old], minted')
      <4>1. row[old] \in Seq(Tokens)
        BY <1>0, <2>1 DEF TypeOK
      <4>2. Last(row'[old]) = minted' /\ minted' = minted + 1 /\ minted \in Nat
        BY <1>0, <3>3, <4>1, MintedToken, AppendedRange DEF Mint, TypeOK
      <4> QED
        BY <2>1, <4>2
    <3> QED
      BY <1>0, <2>1, <3>1, <3>2, <3>3, RowMoves
  <2> QED
    BY <1>1, <1>3, <2>3 DEF Unrightful, Exists, NewestOf
<1> QED
  BY <1>2, <1>3

(* A short list is left in order, so that the newest one is checked.        *)
LEMMA CheckedNewest ==
  ASSUME TypeOK, NEW g \in Guids, Exists(g), Len(row[g]) <= ShortSort
  PROVE  CheckedWith(g) = NewestOf(g)
<1>1. row[g] \in Seq(Tokens) /\ Len(row[g]) \in Nat
  BY DEF TypeOK
<1>2. Preloaded(g) = row[g]
  BY <1>1, PreloadedRow, CredentialsAssumption
<1> QED
  BY <1>1, <1>2 DEF CheckedWith, NewestOf, Last

(* A rejection of what a call that is alone signed.                         *)
LEMMA RejectedUnrightful ==
  ASSUME SignInv, NEW m \in net, Reject(m), call[m.call].solo
  PROVE  Unrightful(m.call)
<1> DEFINE c == m.call
<1>0. /\ c \in Calls /\ call[c] \in CallRecords /\ call[c] # Nil
      /\ m.signature = Own(c) /\ call[c].method # "list"
  BY CallFields DEF SignInv, SoloSigned, TypeOK, Reject
<1>1. Exists(Subject(c)) /\ ~(/\ m.signature # Nil
                             /\ m.signature.with = IF m.signature.alg = "hmac"
                                                   THEN CheckedWith(Subject(c))
                                                   ELSE Subject(c))
  BY DEF Reject, Allowed, Accepts
<1>2. CASE call[c].method = "replace"
  <2>1. Own(c) = [alg |-> "hmac", with |-> call[c].privtoken] /\ call[c].privtoken \in Tokens
    BY <1>0, <1>2 DEF Own, CallRecords, SignInv, TypeOK
  <2>2. Own(c) # Nil
    BY <2>1, NilIsNoRecord DEF Signatures
  <2>3. Subject(c) = call[c].old
    BY <1>2 DEF Subject
  <2>4. Len(row[call[c].old]) <= ShortSort => CheckedWith(call[c].old) = NewestOf(call[c].old)
    BY <1>1, <2>3, CallFields, CheckedNewest DEF SignInv
  <2> QED
    BY <1>0, <1>1, <1>2, <2>1, <2>2, <2>3, <2>4 DEF Unrightful
<1>3. CASE call[c].method # "replace"
  <2>1. Own(c) = [alg |-> "key",
                  with |-> IF call[c].privkey = Nil THEN Card ELSE call[c].privkey]
    BY <1>0, <1>3 DEF Own
  <2>2. (IF call[c].privkey = Nil THEN Card ELSE call[c].privkey) \in Guids
    BY <1>0, CredentialsAssumption DEF CallRecords
  <2>3. Own(c) # Nil
    BY <2>1, <2>2, NilIsNoRecord DEF Signatures
  <2>4. Subject(c) = call[c].guid
    BY <1>3 DEF Subject
  <2>5. m.signature.alg # "hmac"
    BY <1>0, <2>1
  <2> QED
    BY <1>0, <1>1, <1>3, <2>3, <2>4, <2>5 DEF Unrightful
<1> QED
  BY <1>2, <1>3

LEMMA RefusalsStep ==
  ASSUME RightInv, [Next]_vars
  PROVE  Refusals'
<1>0. SignInv /\ Numbered /\ Refusals /\ TypeOK
  BY DEF RightInv, SignInv
<1> SUFFICES ASSUME NEW c \in Calls, call'[c] # Nil, call'[c].solo, Refused(c)'
             PROVE  Unrightful(c)'
  BY DEF Refusals
<1>1. call[c] # Nil
  BY <1>0, NewCallUnanswered, NilIsNoRecord DEF Refused, Results, Statuses
<1>2. Unrightful(c)
  <2>1. call[c].solo
    BY <1>0, <1>1, CallMoves
  <2>2. Refused(c) \/ \E m \in net : m.call = c /\ Reject(m)
    <3>1. CASE /\ call'[c].answer \in {call[c].answer, Nil}
               /\ call'[c].result = call[c].result
      BY <3>1 DEF Refused
    <3>2. CASE /\ Answered(c) /\ call'[c].answer = Nil
               /\ call'[c].result = call[c].answer.status
      BY <3>2 DEF Refused, Answered
    <3>5. CASE call'[c].answer = Nil /\ call'[c].result = "threw"
      BY <3>5 DEF Refused
    <3>3. ASSUME NEW m \in net, NEW status \in Statuses, NEW tokens \in SUBSET Tokens,
                 m.call = c, status = "refused" => Reject(m),
                 call'[c].answer = [status |-> status, tokens |-> tokens],
                 call'[c].result = call[c].result
          PROVE  Refused(c) \/ \E n \in net : n.call = c /\ Reject(n)
      BY <3>3 DEF Refused
    <3>4. \/ /\ call'[c].answer \in {call[c].answer, Nil}
             /\ call'[c].result = call[c].result
          \/ /\ Answered(c) /\ call'[c].answer = Nil
             /\ call'[c].result = call[c].answer.status
          \/ call'[c].answer = Nil /\ call'[c].result = "threw"
          \/ \E m \in net, status \in Statuses, tokens \in SUBSET Tokens :
               /\ m.call = c
               /\ status = "refused" => Reject(m)
               /\ tokens \subseteq Range(row'[call[c].guid])
               /\ call[c].method = "create" /\ status = "ok" =>
                    ServeCreate(m) /\ ShownIn(tokens, row'[call[c].guid])
               /\ call'[c].answer = [status |-> status, tokens |-> tokens]
               /\ call'[c].result = call[c].result
      BY <1>0, <1>1, CallMoves
    <3> QED
      BY <3>1, <3>2, <3>3, <3>4, <3>5
  <2> QED
    BY <1>0, <1>1, <2>1, <2>2, RejectedUnrightful DEF Refusals
<1> QED
  BY <1>0, <1>1, <1>2, UnrightfulStays

(* A call that is alone and rightful is never refused, whatever attempts    *)
(* came before it and whatever recovery tokens are created meanwhile, up to *)
(* the number of them that the sort leaves in order.                        *)
THEOREM RightfulCallsAccepted == Spec => []RightfulAccepted
<1>1. Init => RightInv
  <2>1. "httpSignature" # Nil
    BY NilIsNoRecord DEF Signers
  <2>2. Init => TypeOK
    BY <2>1, CredentialsAssumption DEF Init, TypeOK, Cleaned, Tokens
  <2>3. Init => SignInv
    BY <2>2 DEF Init, SignInv, WellFormed, OwnVariables, SoloSigned, Underway
  <2>4. Init => Numbered
    BY DEF Init, Numbered, Range
  <2> QED
    BY <2>3, <2>4 DEF Init, RightInv, Refusals
<1>2. RightInv /\ [Next]_vars => RightInv'
  BY SignStep, NumberedStep, RefusalsStep DEF RightInv, SignInv
<1>3. RightInv => RightfulAccepted
  BY DEF RightInv, Refusals, Refused, Unrightful, RightfulAccepted
<1> QED
  BY <1>1, <1>2, <1>3, PTL DEF Spec

-----------------------------------------------------------------------------
(* A PIV token that every creation names the configuration of, that nobody  *)
(* replaces and that has no recovery tokens from others gets another one    *)
(* only when its last one is older than recoveryTokenDuration, or not among *)
(* those that a list returns.                                               *)
Creates(c, g) == call[c] # Nil /\ call[c].method = "create" /\ call[c].guid = g

Undisturbed(g) ==
  /\ \A c \in Calls : Creates(c, g) => call[c].named
  /\ \A c \in Calls : call[c] # Nil => call[c].old # g
  /\ Range(row[g]) \cap foreign = {}

(* The node is to be told the k-th recovery token once it is told one.      *)
Due(g, k) == k \in DOMAIN row[g] /\ k <= Limit /\ (k > 1 => row[g][k - 1] > aged)

DueIn(g, tokens) == \A k \in DOMAIN row[g] : Due(g, k) => row[g][k] \in tokens

Told ==
  \A g \in Guids, c \in Calls : Undisturbed(g) /\ Creates(c, g) =>
    /\ call[c].answer # Nil /\ call[c].answer.status = "ok" =>
         Exists(g) /\ DueIn(g, call[c].answer.tokens)
    /\ call[c].result = "ok" => Exists(g) /\ DueIn(g, known)

LEMMA AgedGrows ==
  ASSUME TypeOK, [Next]_vars
  PROVE  aged \in Nat /\ aged' \in Nat /\ aged <= aged' /\ foreign \subseteq foreign'
         /\ known \subseteq known'
<1>1. aged \in Nat
  BY DEF TypeOK
<1>2. aged' = aged \/ aged' = aged + 1
  BY CallsBegin DEF Next, BeginCall, Attempt, CannotSign, Answered, Clean, Ages, Reject,
     ServeList, ServePin, ServeCreate, ServeReplace, TokenCreated, TokenDelivered, vars
<1>3. foreign \subseteq foreign'
  BY CallsBegin DEF Next, BeginCall, Attempt, CannotSign, Answered, Clean, Ages, Reject,
     ServeList, ServePin, ServeCreate, ServeReplace, TokenCreated, TokenDelivered, vars
<1>4. known \subseteq known'
  BY CallsBegin DEF Next, BeginCall, Attempt, CannotSign, Answered, Clean, Ages, Reject,
     ServeList, ServePin, ServeCreate, ServeReplace, TokenCreated, TokenDelivered, vars
<1> QED
  BY <1>1, <1>2, <1>3, <1>4

LEMMA UndisturbedBefore ==
  ASSUME TypeOK, [Next]_vars, NEW g \in Guids, Undisturbed(g)'
  PROVE  /\ Undisturbed(g)
         /\ row'[g] = row[g] \/ (Mint /\ row'[g] = Append(row[g], minted'))
         /\ Exists(g) /\ row'[g] # row[g] /\ Len(row[g]) < Limit => NewestOf(g) <= aged
<1>1. ASSUME NEW c \in Calls, call[c] # Nil
      PROVE  /\ call'[c] # Nil /\ call'[c].old = call[c].old
             /\ call'[c].method = call[c].method /\ call'[c].guid = call[c].guid
             /\ call'[c].named = call[c].named
  BY <1>1, CallMoves DEF Kept
<1>2. \A c \in Calls : Creates(c, g) => call[c].named
  BY <1>1 DEF Undisturbed, Creates
<1>3. \A c \in Calls : call[c] # Nil => call[c].old # g
  BY <1>1 DEF Undisturbed
<1>4. foreign \subseteq foreign'
  BY AgedGrows
<1>5. row[g] \in Seq(Tokens) /\ row'[g] \in Seq(Tokens)
  BY TypeStep DEF TypeOK
<1>6. \/ row'[g] = row[g]
      \/ /\ Mint /\ row'[g] = Append(row[g], minted')
         /\ Exists(g) =>
              \/ minted' \in foreign'
              \/ \E c \in Calls : Creates(c, g) /\ ~Retrieves(c)
  BY <1>3, RowMoves DEF Creates
<1>7. Range(row[g]) \subseteq Range(row'[g]) /\ (Mint => minted' \in Tokens)
  BY <1>5, <1>6, AppendedRange, MintedToken
<1>8. Range(row[g]) \cap foreign = {}
  BY <1>4, <1>7 DEF Undisturbed
<1>9. ASSUME Exists(g), row'[g] # row[g], Len(row[g]) < Limit
      PROVE  NewestOf(g) <= aged
  <2>1. minted' \notin foreign'
    BY <1>5, <1>6, <1>7, <1>9, AppendedRange DEF Undisturbed
  <2>2. PICK c \in Calls : Creates(c, g) /\ ~Retrieves(c)
    BY <1>6, <1>9, <2>1
  <2>3. Latest(g) = NewestOf(g)
    <3>1. Preloaded(g) = row[g]
      BY <1>5, <1>9, PreloadedRow, CredentialsAssumption
    <3> QED
      BY <3>1 DEF Latest, NewestOf
  <2>4. NewestOf(g) \in Range(row[g]) /\ NewestOf(g) \in Tokens
    BY <1>9, NewestIsToken
  <2>5. call[c].named /\ call[c].guid = g /\ NewestOf(g) \notin foreign
    BY <1>2, <1>8, <2>2, <2>4 DEF Creates
  <2>6. ~(NewestOf(g) > aged)
    BY <2>2, <2>3, <2>5 DEF Retrieves
  <2> QED
    BY <2>4, <2>6, AgedGrows, CredentialsAssumption DEF Tokens
<1> QED
  BY <1>2, <1>3, <1>6, <1>8, <1>9 DEF Undisturbed

(* What is due was due before.                                              *)
LEMMA DueBefore ==
  ASSUME TypeOK, [Next]_vars, NEW g \in Guids, Undisturbed(g)', Exists(g),
         NEW k \in DOMAIN row'[g], Due(g, k)'
  PROVE  Due(g, k) /\ row'[g][k] = row[g][k]
<1>1. row[g] \in Seq(Tokens) /\ Len(row[g]) \in Nat /\ DOMAIN row[g] = 1 .. Len(row[g])
  BY DEF TypeOK
<1>2. aged \in Nat /\ aged' \in Nat /\ aged <= aged'
  BY AgedGrows
<1>3. CASE row'[g] = row[g]
  <2>1. k \in 1 .. Len(row[g])
    BY <1>1, <1>3
  <2>2. ASSUME k > 1
        PROVE  row[g][k - 1] > aged
    <3>1. row[g][k - 1] > aged' /\ k - 1 \in 1 .. Len(row[g])
      BY <1>1, <1>3, <2>1, <2>2 DEF Due
    <3>2. row[g][k - 1] \in Nat
      BY <1>1, <3>1, ElementOfSeq, CredentialsAssumption DEF Tokens
    <3> QED
      BY <1>2, <3>1, <3>2
  <2> QED
    BY <1>3, <2>2 DEF Due
<1>4. CASE row'[g] # row[g]
  <2> DEFINE t == minted'
  <2>1. row'[g] = Append(row[g], t) /\ t \in Tokens
    BY <1>4, UndisturbedBefore, MintedToken
  <2>2. Len(row[g]) < Limit => NewestOf(g) <= aged
    BY <1>4, UndisturbedBefore
  <2> HIDE DEF t
  <2>3. /\ k \in 1 .. Len(row[g]) + 1 /\ k <= Limit
        /\ k > 1 => row'[g][k - 1] > aged'
        /\ \A j \in 1 .. Len(row[g]) : row'[g][j] = row[g][j] /\ row[g][j] \in Nat
    <3>1. k \in 1 .. Len(row[g]) + 1
      BY <1>1, <2>1
    <3>2. k <= Limit /\ (k > 1 => row'[g][k - 1] > aged')
      BY DEF Due
    <3>3. ASSUME NEW j \in 1 .. Len(row[g])
          PROVE  row'[g][j] = row[g][j] /\ row[g][j] \in Nat
      <4>1. row[g][j] \in Tokens
        BY <1>1, ElementOfSeq
      <4>2. row'[g][j] = row[g][j]
        BY <1>1, <2>1
      <4> QED
        BY <4>1, <4>2, CredentialsAssumption DEF Tokens
    <3> QED
      BY <3>1, <3>2, <3>3
  <2>4. k # Len(row[g]) + 1
    <3> SUFFICES ASSUME k = Len(row[g]) + 1
                 PROVE  FALSE
      OBVIOUS
    <3>1. Len(row[g]) \in 1 .. Len(row[g])
      BY <1>1, EmptySeq DEF Exists
    <3>2. NewestOf(g) = row[g][Len(row[g])]
      BY DEF NewestOf, Last
    <3>3. row[g][Len(row[g])] > aged'
      BY <2>3, <3>1
    <3>4. Len(row[g]) < Limit
      BY <1>1, <2>3, CredentialsAssumption
    <3> QED
      BY <1>2, <2>2, <2>3, <3>1, <3>2, <3>3, <3>4
  <2>5. k \in 1 .. Len(row[g])
    BY <1>1, <2>3, <2>4
  <2>6. ASSUME k > 1
        PROVE  row[g][k - 1] > aged
    <3>1. k - 1 \in 1 .. Len(row[g])
      BY <1>1, <2>5, <2>6
    <3> QED
      BY <1>2, <2>3, <2>6, <3>1
  <2> QED
    BY <1>1, <2>3, <2>5, <2>6 DEF Due
<1> QED
  BY <1>3, <1>4

LEMMA CreatedExists ==
  ASSUME TypeOK, NEW m \in net, ServeCreate(m)
  PROVE  row'[call[m.call].guid] # <<>>
<1> DEFINE g == call[m.call].guid
<1>1. g \in Guids /\ row[g] \in Seq(Tokens)
  BY CallFields DEF TypeOK
<1>2. CASE Exists(g) /\ UNCHANGED <<row, minted>>
  BY <1>2 DEF Exists
<1>3. CASE Mint /\ row' = [row EXCEPT ![g] = Append(@, minted')]
  <2>1. row'[g] = Append(row[g], minted')
    BY <1>1, <1>3 DEF TypeOK
  <2> QED
    BY <1>1, <1>3, <2>1, MintedToken, AppendedRange
<1> QED
  BY <1>2, <1>3 DEF ServeCreate

LEMMA ToldStep ==
  ASSUME TypeOK, Told, [Next]_vars
  PROVE  Told'
<1> SUFFICES ASSUME NEW g \in Guids, NEW c \in Calls, Undisturbed(g)', Creates(c, g)'
             PROVE  /\ call'[c].answer # Nil /\ call'[c].answer.status = "ok" =>
                         Exists(g)' /\ DueIn(g, call[c].answer.tokens)'
                    /\ call'[c].result = "ok" => Exists(g)' /\ DueIn(g, known)'
  BY DEF Told
<1> DEFINE heard(status, tokens) ==
             status = "ok" => Exists(g)' /\ \A k \in DOMAIN row'[g] :
                                             Due(g, k)' => row'[g][k] \in tokens
<1>1. Undisturbed(g) /\ (row'[g] = row[g] \/ (Mint /\ row'[g] = Append(row[g], minted')))
  BY UndisturbedBefore
<1>2. Exists(g) => Exists(g)'
  <2>1. row[g] \in Seq(Tokens)
    BY DEF TypeOK
  <2> QED
    BY <1>1, <2>1, MintedToken, AppendedRange DEF Exists
<1>3. ASSUME Exists(g), NEW tokens, DueIn(g, tokens), NEW more, tokens \subseteq more, NEW status
      PROVE  heard(status, more)
  <2>1. ASSUME NEW k \in DOMAIN row'[g], Due(g, k)'
        PROVE  row'[g][k] \in more
    <3>1. Due(g, k) /\ row'[g][k] = row[g][k]
      BY <1>3, <2>1, DueBefore
    <3>2. k \in DOMAIN row[g]
      BY <3>1 DEF Due
    <3> QED
      BY <1>3, <3>1, <3>2 DEF DueIn
  <2> QED
    BY <1>2, <1>3, <2>1
<1>4. ASSUME call'[c].answer # Nil => heard(call'[c].answer.status, call'[c].answer.tokens),
             heard(call'[c].result, known')
      PROVE  /\ call'[c].answer # Nil /\ call'[c].answer.status = "ok" =>
                  Exists(g)' /\ DueIn(g, call[c].answer.tokens)'
             /\ call'[c].result = "ok" => Exists(g)' /\ DueIn(g, known)'
  BY <1>4 DEF DueIn
<1>5. CASE call[c] = Nil
  BY <1>5, NewCallUnanswered, NilIsNoRecord DEF Creates, Results, Statuses
<1>6. CASE call[c] # Nil
  <2>1. Creates(c, g) /\ call[c].guid = g
    BY <1>6, CallMoves DEF Creates, Kept
  <2>2. /\ call[c].answer # Nil /\ call[c].answer.status = "ok" =>
             Exists(g) /\ DueIn(g, call[c].answer.tokens)
        /\ call[c].result = "ok" => Exists(g) /\ DueIn(g, known)
    BY <1>1, <2>1 DEF Told
  <2>3. known \subseteq known'
    BY AgedGrows
  <2>4. /\ call[c].answer # Nil => heard(call[c].answer.status, call[c].answer.tokens)
        /\ heard(call[c].result, known')
    BY <1>3, <2>2, <2>3
  <2>5. CASE /\ call'[c].answer \in {call[c].answer, Nil}
             /\ call'[c].result = call[c].result
    BY <1>4, <2>4, <2>5
  <2>6. CASE /\ Answered(c) /\ call'[c].answer = Nil
             /\ call'[c].result = call[c].answer.status
    <3>1. call[c].answer # Nil /\ call[c].answer.tokens \subseteq known'
      BY <2>6 DEF Answered
    <3>2. heard(call'[c].result, known')
      BY <2>4, <2>6, <3>1
    <3> QED
      BY <1>4, <2>6, <3>2
  <2>7. CASE call'[c].answer = Nil /\ call'[c].result = "threw"
    BY <2>7
  <2>8. ASSUME NEW m \in net, NEW status \in Statuses, NEW tokens \in SUBSET Tokens,
               m.call = c,
               call[c].method = "create" /\ status = "ok" =>
                 ServeCreate(m) /\ ShownIn(tokens, row'[call[c].guid]),
               call'[c].answer = [status |-> status, tokens |-> tokens],
               call'[c].result = call[c].result
        PROVE  /\ call'[c].answer # Nil /\ call'[c].answer.status = "ok" =>
                    Exists(g)' /\ DueIn(g, call[c].answer.tokens)'
               /\ call'[c].result = "ok" => Exists(g)' /\ DueIn(g, known)'
    <3>1. call'[c].answer.status = status /\ call'[c].answer.tokens = tokens
      BY <2>8
    <3>2. heard(status, tokens)
      <4> SUFFICES ASSUME status = "ok"
                   PROVE  heard(status, tokens)
        OBVIOUS
      <4>1. ServeCreate(m) /\ ShownIn(tokens, row'[g])
        BY <2>1, <2>8 DEF Creates
      <4>2. Exists(g)'
        BY <2>1, <2>8, <4>1, CreatedExists DEF Exists
      <4>3. \A k \in DOMAIN row'[g] : Due(g, k)' => row'[g][k] \in tokens
        BY <4>1 DEF ShownIn, Due
      <4> QED
        BY <4>2, <4>3
    <3>3. heard(call'[c].result, known')
      BY <2>4, <2>8
    <3> HIDE DEF heard
    <3> QED
      BY <1>4, <3>1, <3>2, <3>3
  <2>9. \/ /\ call'[c].answer \in {call[c].answer, Nil}
           /\ call'[c].result = call[c].result
        \/ /\ Answered(c) /\ call'[c].answer = Nil
           /\ call'[c].result = call[c].answer.status
        \/ call'[c].answer = Nil /\ call'[c].result = "threw"
        \/ \E m \in net, status \in Statuses, tokens \in SUBSET Tokens :
             /\ m.call = c
             /\ status = "refused" => Reject(m)
             /\ tokens \subseteq Range(row'[call[c].guid])
             /\ call[c].method = "create" /\ status = "ok" =>
                  ServeCreate(m) /\ ShownIn(tokens, row'[call[c].guid])
             /\ call'[c].answer = [status |-> status, tokens |-> tokens]
             /\ call'[c].result = call[c].result
    BY <1>6, CallMoves
  <2> HIDE DEF heard
  <2> QED
    BY <2>5, <2>6, <2>7, <2>8, <2>9
<1> QED
  BY <1>5, <1>6

(* A lost creation is retrieved by its retry: while a PIV token is left     *)
(* undisturbed, whoever had a creation answered knows all its recovery      *)
(* tokens, save one created when that before it was older than              *)
(* recoveryTokenDuration, or when a list does not return it.                *)
THEOREM CreationsRetrieved == Spec => []CreationRetrieved
<1>1. Init => TypeOK /\ Told
  <2>1. "httpSignature" # Nil
    BY NilIsNoRecord DEF Signers
  <2> QED
    BY <2>1, CredentialsAssumption DEF Init, TypeOK, Cleaned, Tokens, Told, Creates
<1>2. TypeOK /\ Told /\ [Next]_vars => (TypeOK /\ Told)'
  BY TypeStep, ToldStep
<1>3. Told => CreationRetrieved
  BY DEF Told, DueIn, Due, CreationRetrieved, Undisturbed, Creates
<1> QED
  BY <1>1, <1>2, <1>3, PTL DEF Spec
=============================================================================
