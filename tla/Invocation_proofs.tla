------------------------- MODULE Invocation_proofs -------------------------
(* The two pure halves of an invocation, for every input: whom the middleware *)
(* admits (RequestAuth), and what the executor runs and its dry run shows     *)
(* (CommandPlan).                                                             *)
EXTENDS RequestAuth, CommandPlan, WellFoundedInduction, SequenceTheorems, TLAPS

-----------------------------------------------------------------------------
(* Keyed callers.                                                             *)

(* What the parser and the tables guarantee of a keyed request. *)
WellFormed(req) ==
    /\ req.key.secret \in AtRest("key")
    /\ req.key.bound \in {"any", "listed", "corrupt"}
    /\ req.stamp \in Stamps
    /\ req.sig.sent \in {"no", "garbled", "text"}

(* The five answers are told apart by their status. *)
LEMMA AnswersDiffer ==
    /\ Admit # Internal /\ Admit # TooLarge /\ Admit # Forbidden
    /\ Forbidden # Internal /\ Forbidden # TooLarge
    /\ \A why : Unauthorized(why) # Admit /\ Unauthorized(why) # Forbidden
    /\ \A why : Unauthorized(why).status = 401
    /\ Admit.status # 401 /\ Internal.status # 401 /\ TooLarge.status # 401
    /\ Forbidden.status # 401
<1>1. /\ Admit.status = 200 /\ Internal.status = 500 /\ TooLarge.status = 400
      /\ Forbidden.status = 403
  BY DEF Admit, Internal, TooLarge, Forbidden
<1>2. \A why : Unauthorized(why).status = 401
  BY DEF Unauthorized
<1> QED BY <1>1, <1>2

(* CheckNetwork admits inside the bound networks only. *)
LEMMA NetworkSound ==
    ASSUME NEW req, req.key.bound \in {"any", "listed", "corrupt"}
    PROVE  /\ CheckNetwork(req) \in {Admit, Forbidden, Internal}
           /\ CheckNetwork(req) = Admit <=>
                 req.key.bound = "any" \/ (req.key.bound = "listed" /\ req.inside)
<1>1. CheckNetwork(req) =
          IF req.key.bound = "corrupt" THEN Internal
          ELSE IF req.key.bound = "listed" /\ ~req.inside THEN Forbidden ELSE Admit
  BY DEF CheckNetwork
<1> QED BY <1>1, AnswersDiffer

(* A stored secret is the key's own, or there is none. *)
LEMMA StoredSecret ==
    ASSUME NEW s, NEW stored \in AtRest(s)
    PROVE  stored = NoSecret \/ stored.secret = s
<1>1. /\ \A k : Sealed(s, k).secret = s
      /\ Plain(s).secret = s
      /\ [form |-> "malformed", secret |-> s, under |-> ""].secret = s
  BY DEF Sealed, Plain
<1>2. Seal(s).secret = s
  BY <1>1 DEF Seal
<1> QED BY <1>1, <1>2 DEF AtRest

(* The signature check passes a genuine signature on to the network check and *)
(* refuses every other, telling nothing of the network.                       *)
LEMMA SignatureSound ==
    ASSUME NEW req, NEW hook, WellFormed(req)
    PROVE  /\ Genuine(req, hook) => CheckSignature(req, hook) = CheckNetwork(req)
           /\ ~Genuine(req, hook) => CheckSignature(req, hook) \notin {Admit, Forbidden}
<1>1. req.key.secret = NoSecret \/ req.key.secret.secret = "key"
  BY StoredSecret DEF WellFormed
<1>2. NoSecret.secret # "key"
  BY DEF NoSecret
<1>3. PICK key : key = req.key.secret.secret
  OBVIOUS
<1>4. PICK string : string = Governing(req.key, hook)
  OBVIOUS
<1>5. Verify(key, string, req.sig, "sha256=") = "verified" <=>
          /\ req.sig.tag = "sha256=" /\ req.sig.hex
          /\ req.sig.by = key /\ req.sig.over = string
  BY DEF Verify
<1>6. CASE Genuine(req, hook)
  <2>1. /\ req.stamp = "fresh" /\ req.key.secret # NoSecret /\ Opens(req.key.secret)
        /\ ~req.oversize /\ ~req.replayed
        /\ Verify(key, string, req.sig, "sha256=") = "verified"
    BY <1>2, <1>3, <1>4, <1>5, <1>6 DEF Genuine
  <2> QED BY <1>3, <1>4, <1>6, <2>1 DEF CheckSignature
<1>7. CASE ~Genuine(req, hook)
  <2>1. \/ req.stamp # "fresh" \/ req.key.secret = NoSecret \/ ~Opens(req.key.secret)
        \/ req.oversize \/ Verify(key, string, req.sig, "sha256=") # "verified"
        \/ req.replayed
    BY <1>1, <1>3, <1>4, <1>5, <1>7 DEF Genuine
  <2>2. \/ CheckSignature(req, hook) \in {Internal, TooLarge}
        \/ \E why : CheckSignature(req, hook) = Unauthorized(why)
    BY <1>3, <1>4, <2>1, Zenon DEF CheckSignature
  <2> QED BY <1>7, <2>2, AnswersDiffer
<1> QED BY <1>6, <1>7

(* authenticate_bearer_key admits exactly the entitled, and tells of the      *)
(* network only to the identified.                                            *)
LEMMA BearerSound ==
    ASSUME NEW req, NEW hook, WellFormed(req)
    PROVE  /\ AuthenticateBearerKey(req, hook) = Admit <=> KeyedEntitled(req, hook)
           /\ AuthenticateBearerKey(req, hook) = Forbidden => Identified(req, hook)
<1>1. /\ CheckNetwork(req) \in {Admit, Forbidden, Internal}
      /\ CheckNetwork(req) = Admit <=>
             req.key.bound = "any" \/ (req.key.bound = "listed" /\ req.inside)
  BY NetworkSound DEF WellFormed
<1>2. /\ Genuine(req, hook) => CheckSignature(req, hook) = CheckNetwork(req)
      /\ ~Genuine(req, hook) => CheckSignature(req, hook) \notin {Admit, Forbidden}
  BY SignatureSound
<1>3. Genuine(req, hook) => req.stamp = "fresh"
  BY DEF Genuine
<1>4. CASE req.sig.sent # "no" /\ req.stamp = "stale"
  <2>1. \E why : AuthenticateBearerKey(req, hook) = Unauthorized(why)
    BY <1>4 DEF AuthenticateBearerKey
  <2>2. ~Identified(req, hook)
    BY <1>3, <1>4 DEF Identified, WellFormed
  <2> QED BY <2>1, <2>2, AnswersDiffer DEF KeyedEntitled
<1>5. CASE ~(req.sig.sent # "no" /\ req.stamp = "stale") /\ ~req.key.known
  <2>1. \E why : AuthenticateBearerKey(req, hook) = Unauthorized(why)
    BY <1>5 DEF AuthenticateBearerKey
  <2>2. ~Identified(req, hook)
    BY <1>5 DEF Identified
  <2> QED BY <2>1, <2>2, AnswersDiffer DEF KeyedEntitled
<1>6. CASE ~(req.sig.sent # "no" /\ req.stamp = "stale") /\ req.key.known
  <2>1. CASE req.sig.sent = "text"
    <3>1. AuthenticateBearerKey(req, hook) = CheckSignature(req, hook)
      BY <1>6, <2>1 DEF AuthenticateBearerKey
    <3>2. Identified(req, hook) <=> Genuine(req, hook)
      BY <1>6, <2>1 DEF Identified
    <3> QED BY <1>1, <1>2, <3>1, <3>2 DEF KeyedEntitled
  <2>2. CASE req.sig.sent # "text" /\ MustSign(req)
    <3>1. \E why : AuthenticateBearerKey(req, hook) = Unauthorized(why)
      BY <1>6, <2>2 DEF AuthenticateBearerKey
    <3>2. ~Identified(req, hook)
      BY <2>2 DEF Identified
    <3> QED BY <3>1, <3>2, AnswersDiffer DEF KeyedEntitled
  <2>3. CASE req.sig.sent # "text" /\ ~MustSign(req)
    <3>1. AuthenticateBearerKey(req, hook) = CheckNetwork(req)
      BY <1>6, <2>3 DEF AuthenticateBearerKey
    <3>2. Identified(req, hook)
      BY <1>6, <2>3 DEF Identified
    <3> QED BY <1>1, <3>1, <3>2 DEF KeyedEntitled
  <2> QED BY <2>1, <2>2, <2>3
<1> QED BY <1>4, <1>5, <1>6

(* A caller that is not identified is refused with a 401, two faults aside.   *)
LEMMA RefusedAlike ==
    ASSUME NEW req, NEW hook, WellFormed(req), ~Identified(req, hook)
    PROVE  /\ ~Faulted(req) => AuthenticateBearerKey(req, hook).status = 401
           /\ Faulted(req) => AuthenticateBearerKey(req, hook) =
                                  IF Opens(req.key.secret) THEN TooLarge ELSE Internal
<1>1. CASE req.sig.sent # "no" /\ req.stamp = "stale"
  <2>1. \E why : AuthenticateBearerKey(req, hook) = Unauthorized(why)
    BY <1>1 DEF AuthenticateBearerKey
  <2> QED BY <1>1, <2>1, AnswersDiffer DEF Faulted
<1>2. CASE ~(req.sig.sent # "no" /\ req.stamp = "stale") /\ ~req.key.known
  <2>1. \E why : AuthenticateBearerKey(req, hook) = Unauthorized(why)
    BY <1>2 DEF AuthenticateBearerKey
  <2> QED BY <1>2, <2>1, AnswersDiffer DEF Faulted
<1>3. CASE ~(req.sig.sent # "no" /\ req.stamp = "stale") /\ req.key.known
  <2>1. CASE req.sig.sent = "text"
    <3>1. AuthenticateBearerKey(req, hook) = CheckSignature(req, hook)
      BY <1>3, <2>1 DEF AuthenticateBearerKey
    <3>2. ~Genuine(req, hook)
      BY <1>3, <2>1 DEF Identified
    <3>3. CASE Faulted(req)
      BY <3>1, <3>3 DEF CheckSignature, Faulted
    <3>4. CASE ~Faulted(req)
      <4>1. PICK key : key = req.key.secret.secret
        OBVIOUS
      <4>2. PICK string : string = Governing(req.key, hook)
        OBVIOUS
      <4>3. Verify(key, string, req.sig, "sha256=") = "verified" <=>
                /\ req.sig.tag = "sha256=" /\ req.sig.hex
                /\ req.sig.by = key /\ req.sig.over = string
        BY DEF Verify
      <4>4. req.key.secret = NoSecret \/ key = "key"
        BY <4>1, StoredSecret DEF WellFormed
      <4>5. \/ req.stamp # "fresh" \/ req.key.secret = NoSecret
            \/ /\ Opens(req.key.secret) /\ ~req.oversize
               /\ Verify(key, string, req.sig, "sha256=") # "verified" \/ req.replayed
        BY <1>3, <2>1, <3>2, <3>4, <4>1, <4>2, <4>3, <4>4 DEF Faulted, Genuine
      <4>6. \E why : CheckSignature(req, hook) = Unauthorized(why)
        BY <4>1, <4>2, <4>5, Zenon DEF CheckSignature
      <4> QED BY <3>1, <3>4, <4>6, AnswersDiffer
    <3> QED BY <3>3, <3>4
  <2>2. CASE req.sig.sent # "text"
    <3>1. MustSign(req)
      BY <1>3, <2>2 DEF Identified, WellFormed
    <3>2. \E why : AuthenticateBearerKey(req, hook) = Unauthorized(why)
      BY <1>3, <2>2, <3>1 DEF AuthenticateBearerKey
    <3> QED BY <2>2, <3>2, AnswersDiffer DEF Faulted
  <2> QED BY <2>1, <2>2
<1> QED BY <1>1, <1>2, <1>3

(* A keyed signature was not sent, could not be read, or is text. *)
LEMMA KeyedSignatureSent ==
    ASSUME NEW s \in KeyedSignatures PROVE s.sent \in {"no", "garbled", "text"}
<1>1. Unsent.sent = "no" /\ Garbled.sent = "garbled"
  BY DEF Unsent, Garbled
<1>2. PICK c : c = CHOOSE x \in Texts : x.by = "key" /\ x.over = "default"
  OBVIOUS
<1>3. c \in Texts
  <2> DEFINE w == [sent |-> "text", tag |-> "", hex |-> FALSE, by |-> "key", over |-> "default"]
  <2>1. w \in Signature
    BY DEF Signature
  <2>2. w.sent = "text" /\ w.by = "key" /\ w.over = "default"
    OBVIOUS
  <2>3. w \in Texts
    BY <2>1, <2>2, Zenon DEF Texts
  <2> HIDE DEF w
  <2>4. \E x \in Texts : x.by = "key" /\ x.over = "default"
    BY <2>2, <2>3
  <2> QED BY <1>2, <2>4
<1>4. \A t, h : [c EXCEPT !.tag = t, !.hex = h].sent = "text"
  BY <1>3 DEF Texts, Signature
<1>5. \A x \in Texts : x.sent = "text"
  BY DEF Texts
<1>6. \/ s \in {Unsent, Garbled} \/ s \in Texts
      \/ \E t \in {"", "sha256="}, h \in {FALSE} :
             s = [CHOOSE x \in Texts : x.by = "key" /\ x.over = "default" EXCEPT
                     !.tag = t, !.hex = h]
  BY DEF KeyedSignatures
<1>7. \/ s \in {Unsent, Garbled} \/ s \in Texts
      \/ \E t, h : s = [c EXCEPT !.tag = t, !.hex = h]
  BY <1>2, <1>6, Zenon
<1>8. CASE \E t, h : s = [c EXCEPT !.tag = t, !.hex = h]
  <2>1. s.sent = "text"
    BY <1>4, <1>8, Zenon
  <2> QED BY <2>1
<1>9. CASE s \in {Unsent, Garbled} \/ s \in Texts
  BY <1>1, <1>5, <1>9
<1> QED BY <1>7, <1>8, <1>9

LEMMA KeyedWellFormed ==
    ASSUME NEW r \in KeyedRequests
    PROVE  /\ r.presented = "text"
           /\ WellFormed(r)
           /\ [r EXCEPT !.key = Stranger].presented = "text"
           /\ [r EXCEPT !.key = Stranger].key = Stranger
<1>1. PICK k \in KeyRow \cup {Stranger}, t \in Stamps, s \in KeyedSignatures,
           i \in BOOLEAN, o \in BOOLEAN, x \in BOOLEAN, q \in BOOLEAN :
         r = Request("text", k, t, s, Unsent, i, o, x, q)
  BY DEF KeyedRequests
<1>2. /\ r.presented = "text" /\ r.key = k /\ r.stamp = t /\ r.sig = s
      /\ [r EXCEPT !.key = Stranger].presented = "text"
      /\ [r EXCEPT !.key = Stranger].key = Stranger
  BY <1>1 DEF Request
<1>3. k.secret \in AtRest("key") /\ k.bound \in {"any", "listed", "corrupt"}
  <2>1. CASE k \in KeyRow
    BY <2>1 DEF KeyRow
  <2>2. CASE k = Stranger
    BY <2>2 DEF Stranger, AtRest
  <2> QED BY <2>1, <2>2
<1>4. s.sent \in {"no", "garbled", "text"}
  BY KeyedSignatureSent
<1> QED BY <1>2, <1>3, <1>4 DEF WellFormed

(* The uniform refusal hides which 401 it was and nothing else. *)
LEMMA UniformSound ==
    ASSUME NEW v
    PROVE  /\ v.status = 401 => Uniform(v) = InvocationUnauthorized
           /\ v.status # 401 => Uniform(v) = v
           /\ Uniform(v) = Admit <=> v = Admit
           /\ Uniform(v) = Forbidden <=> v = Forbidden
           /\ Uniform(v).status = 401 => Uniform(v) = InvocationUnauthorized
BY AnswersDiffer DEF Uniform, InvocationUnauthorized

(* A key that does not exist is told 401. *)
LEMMA StrangerRefused ==
    ASSUME NEW req, NEW hook, req.presented = "text", req.key = Stranger
    PROVE  InvocationVerdict(req, hook) = InvocationUnauthorized
<1>1. ~req.key.known
  BY DEF Stranger
<1>2. \E why : AuthenticateBearerKey(req, hook) = Unauthorized(why)
  BY <1>1 DEF AuthenticateBearerKey
<1>3. AuthenticateBearerKey(req, hook).status = 401
  BY <1>2, AnswersDiffer
<1> QED BY <1>3, UniformSound DEF InvocationVerdict

(* Keyed requests, whatever the hook: admitted exactly when entitled, told of *)
(* the network only when identified, and otherwise refused like a key that    *)
(* does not exist except where the signature could not be compared at all     *)
(* (authenticate_bearer_key, auth_middleware, invocation_auth_middleware).    *)
THEOREM KeyedAlwaysSound == \A hook : KeyedSound(hook)
<1> SUFFICES ASSUME NEW hook, NEW r \in KeyedRequests,
                    NEW v, v = InvocationVerdict(r, hook)
             PROVE  /\ v = Admit <=> KeyedEntitled(r, hook)
                    /\ v = Forbidden => Identified(r, hook)
                    /\ ~Identified(r, hook) =>
                         v = IF ~Faulted(r)
                             THEN InvocationVerdict([r EXCEPT !.key = Stranger], hook)
                             ELSE IF Opens(r.key.secret) THEN TooLarge ELSE Internal
                    /\ AdminVerdict(r) = Admit <=> KeyedEntitled(r, NoHook)
  BY Zenon DEF KeyedSound
<1>1. /\ r.presented = "text"
      /\ WellFormed(r)
  BY KeyedWellFormed
<1>2. PICK a : a = AuthenticateBearerKey(r, hook)
  OBVIOUS
<1>3. v = Uniform(a)
  BY <1>1, <1>2 DEF InvocationVerdict
<1>4. (v = Admit <=> a = Admit) /\ (v = Forbidden <=> a = Forbidden)
  BY <1>3, UniformSound
<1>5. v = Admit <=> KeyedEntitled(r, hook)
  BY <1>1, <1>2, <1>4, BearerSound
<1>6. v = Forbidden => Identified(r, hook)
  BY <1>1, <1>2, <1>4, BearerSound
<1>7. ASSUME ~Identified(r, hook)
      PROVE  v = IF ~Faulted(r) THEN InvocationVerdict([r EXCEPT !.key = Stranger], hook)
                 ELSE IF Opens(r.key.secret) THEN TooLarge ELSE Internal
  <2>1. /\ ~Faulted(r) => a.status = 401
        /\ Faulted(r) => a = IF Opens(r.key.secret) THEN TooLarge ELSE Internal
    BY <1>1, <1>2, <1>7, RefusedAlike
  <2>2. PICK u : u = [r EXCEPT !.key = Stranger]
    OBVIOUS
  <2>3. u.presented = "text" /\ u.key = Stranger
    BY <2>2, KeyedWellFormed
  <2>4. InvocationVerdict(u, hook) = InvocationUnauthorized
    BY <2>3, StrangerRefused
  <2>5. ~Faulted(r) => v = InvocationUnauthorized
    BY <1>3, <2>1, UniformSound
  <2>6. Faulted(r) => v = IF Opens(r.key.secret) THEN TooLarge ELSE Internal
    BY <1>3, <2>1, UniformSound, AnswersDiffer
  <2> QED BY <2>2, <2>4, <2>5, <2>6
<1>8. AdminVerdict(r) = Admit <=> KeyedEntitled(r, NoHook)
  <2>1. AdminVerdict(r) = AuthenticateBearerKey(r, NoHook)
    BY <1>1 DEF AdminVerdict
  <2> QED BY <1>1, <2>1, BearerSound
<1> QED BY <1>5, <1>6, <1>7, <1>8

-----------------------------------------------------------------------------
(* Keyless callers.                                                           *)

(* A keyless signature is one of the two that carry none, or text. *)
LEMMA KeylessSignatureSent ==
    ASSUME NEW s \in KeylessSignatures
    PROVE  /\ s.sent = "no" <=> s = Unsent
           /\ s.sent = "text" <=> s \in Texts
<1>1. Unsent.sent = "no" /\ Garbled.sent = "garbled"
  BY DEF Unsent, Garbled
<1>2. \A x \in Texts : x.sent = "text"
  BY DEF Texts
<1>3. s \in {Unsent, Garbled} \/ s \in Texts
  BY DEF KeylessSignatures
<1> QED BY <1>1, <1>2, <1>3

LEMMA KeylessWellFormed ==
    ASSUME NEW r \in KeylessRequests
    PROVE  /\ r.presented # "text"
           /\ r.sig \in KeylessSignatures /\ r.own \in KeylessSignatures
<1>1. Unsent \in KeylessSignatures
  BY DEF KeylessSignatures
<1>2. \A s \in KeylessHeaders : s[1] \in KeylessSignatures /\ s[2] \in KeylessSignatures
  <2>1. \A s \in KeylessHeaders : \E x, y \in KeylessSignatures : s = <<x, y>>
    BY <1>1, Zenon DEF KeylessHeaders
  <2> QED BY <2>1
<1>3. PICK p \in {"no", "garbled"}, o \in BOOLEAN, q \in BOOLEAN, s \in KeylessHeaders :
         r = Request(p, Stranger, "none", s[1], s[2], TRUE, o, FALSE, q)
  BY DEF KeylessRequests, Request
<1>4. r.presented = p /\ r.sig = s[1] /\ r.own = s[2]
  BY <1>3 DEF Request
<1> QED BY <1>2, <1>3, <1>4

(* The check of an HMAC_ONLY hook's own signature. *)
LEMMA HookSignatureSound ==
    ASSUME NEW req, NEW hook, hook.secret \in AtRest("hook"),
           Provided(req, hook) \in KeylessSignatures
    PROVE  /\ CheckHookSignature(req, hook) = Admit <=>
                  /\ hook.secret.secret = "hook" /\ Opens(hook.secret) /\ ~req.oversize
                  /\ Provided(req, hook) \in {s \in Texts : s.hex /\ s.tag = hook.prefix
                                                 /\ s.by = "hook" /\ s.over = "body"}
           /\ Provided(req, hook).sent # "text" =>
                  CheckHookSignature(req, hook) = InvocationUnauthorized
<1>1. PICK given : given = Provided(req, hook)
  OBVIOUS
<1>2. PICK secret : secret = hook.secret.secret
  OBVIOUS
<1>3. given.sent = "text" <=> given \in Texts
  BY <1>1, KeylessSignatureSent
<1>4. hook.secret = NoSecret \/ secret = "hook"
  BY <1>2, StoredSecret
<1>5. NoSecret.secret # "hook"
  BY DEF NoSecret
<1>6. Verify(secret, "body", given, hook.prefix) = "verified" <=>
          given.tag = hook.prefix /\ given.hex /\ given.by = secret /\ given.over = "body"
  BY DEF Verify
<1>7. CASE given.sent # "text"
  <2>1. CheckHookSignature(req, hook) = InvocationUnauthorized
    BY <1>1, <1>7 DEF CheckHookSignature
  <2> QED BY <1>1, <1>3, <1>7, <2>1, AnswersDiffer DEF InvocationUnauthorized
<1>8. CASE given.sent = "text" /\ (hook.secret = NoSecret \/ ~Opens(hook.secret))
  <2>1. CheckHookSignature(req, hook) = Internal
    BY <1>1, <1>8 DEF CheckHookSignature
  <2> QED BY <1>1, <1>5, <1>8, <2>1, AnswersDiffer
<1>9. CASE given.sent = "text" /\ hook.secret # NoSecret /\ Opens(hook.secret)
  <2>1. CASE req.oversize
    <3>1. CheckHookSignature(req, hook) = TooLarge
      BY <1>1, <1>9, <2>1 DEF CheckHookSignature
    <3> QED BY <1>1, <1>9, <2>1, <3>1, AnswersDiffer
  <2>2. CASE ~req.oversize /\ Verify(secret, "body", given, hook.prefix) # "verified"
    <3>1. \E why : CheckHookSignature(req, hook) = Unauthorized(why)
      BY <1>1, <1>2, <1>9, <2>2, Zenon DEF CheckHookSignature
    <3> QED BY <1>1, <1>2, <1>4, <1>6, <1>9, <2>2, <3>1, AnswersDiffer
  <2>3. CASE ~req.oversize /\ Verify(secret, "body", given, hook.prefix) = "verified"
    <3>1. CheckHookSignature(req, hook) = Admit
      BY <1>1, <1>2, <1>9, <2>3 DEF CheckHookSignature
    <3> QED BY <1>1, <1>2, <1>3, <1>4, <1>6, <1>9, <2>3, <3>1
  <2> QED BY <2>1, <2>2, <2>3
<1> QED BY <1>7, <1>8, <1>9

(* Keyless requests, for every hook row: admitted exactly when the hook is    *)
(* open to them, and refused alike by every hook and by none, unless a hook   *)
(* in HMAC_ONLY was sent the header it reads (invocation_auth_middleware).    *)
THEOREM KeylessAlwaysSound == \A hook \in HookShape : KeylessSound(hook)
<1> SUFFICES ASSUME NEW hook \in HookShape, NEW r \in KeylessRequests,
                    NEW v, v = InvocationVerdict(r, hook)
             PROVE  /\ v = Admit <=> KeylessEntitled(r, hook)
                    /\ \/ v \in {Admit, InvocationVerdict(r, NoHook)}
                       \/ hook.mode = "HMAC_ONLY" /\ Provided(r, hook).sent = "text"
  BY Zenon DEF KeylessSound
<1>1. /\ r.presented # "text"
      /\ r.sig \in KeylessSignatures /\ r.own \in KeylessSignatures
  BY KeylessWellFormed
<1>2. v = KeylessVerdict(r, hook)
  BY <1>1 DEF InvocationVerdict
<1>3. InvocationVerdict(r, NoHook) = InvocationUnauthorized
  BY <1>1 DEF InvocationVerdict, KeylessVerdict
<1>4. hook.mode \in Modes /\ hook.secret \in AtRest("hook")
  BY DEF HookShape
<1>5. hook # NoHook
  <2>1. NoHook.mode = "unresolved"
    BY DEF NoHook
  <2> QED BY <1>4, <2>1 DEF Modes
<1>6. InvocationUnauthorized # Admit
  BY AnswersDiffer DEF InvocationUnauthorized
<1>7. CASE hook.mode \in {"CANONICAL_V1", "API_KEY_ONLY"}
  <2>1. v = InvocationUnauthorized
    BY <1>2, <1>5, <1>7 DEF KeylessVerdict
  <2>2. ~KeylessEntitled(r, hook)
    BY <1>7 DEF KeylessEntitled
  <2> QED BY <1>3, <1>6, <2>1, <2>2
<1>8. CASE hook.mode = "NONE"
  <2>1. Material(r, hook) <=> ~(r.sig = Unsent /\ (hook.header = "own" => r.own = Unsent))
    BY <1>1, KeylessSignatureSent DEF Material
  <2>2. KeylessEntitled(r, hook) <=> ~Material(r, hook) /\ ~r.required
    BY <1>8, <2>1 DEF KeylessEntitled
  <2>3. v = IF Material(r, hook) \/ r.required THEN InvocationUnauthorized ELSE Admit
    BY <1>2, <1>5, <1>8 DEF KeylessVerdict
  <2> QED BY <1>3, <1>6, <2>2, <2>3
<1>9. CASE hook.mode = "HMAC_ONLY"
  <2>1. v = CheckHookSignature(r, hook)
    BY <1>2, <1>5, <1>9 DEF KeylessVerdict
  <2>2. Provided(r, hook) \in KeylessSignatures
    BY <1>1 DEF Provided
  <2>3. v = Admit <=> KeylessEntitled(r, hook)
    BY <1>4, <1>9, <2>1, <2>2, HookSignatureSound DEF KeylessEntitled
  <2>4. Provided(r, hook).sent # "text" => v = InvocationUnauthorized
    BY <1>4, <2>1, <2>2, HookSignatureSound
  <2> QED BY <1>3, <1>9, <2>3, <2>4
<1> QED BY <1>4, <1>7, <1>8, <1>9 DEF Modes

-----------------------------------------------------------------------------
(* The command.                                                               *)

(* The greatest position of a nonempty set of them. *)
LEMMA LastFound ==
    ASSUME NEW n \in Nat, NEW S \in SUBSET (1..n), S # {}
    PROVE  \E i \in S : \A j \in S : j <= i
<1> DEFINE R == {n - y : y \in S}
<1>1. R \in SUBSET Nat /\ R # {}
  <2>1. PICK y \in S : TRUE
    OBVIOUS
  <2>2. n - y \in R
    BY <2>1
  <2>3. \A z \in S : n - z \in Nat
    OBVIOUS
  <2> QED BY <2>2, <2>3
<1>2. PICK r \in R : \A y \in R : <<y, r>> \notin OpToRel(<, Nat)
  BY <1>1, NatLessThanWellFounded, WFMin, Zenon
<1>3. PICK i \in S : r = n - i
  BY <1>2
<1>4. ASSUME NEW j \in S PROVE j <= i
  <2>1. <<n - j, n - i>> \notin {ss \in Nat \X Nat : ss[1] < ss[2]}
    BY <1>2, <1>3 DEF OpToRel
  <2>2. n - j \in Nat /\ n - i \in Nat
    OBVIOUS
  <2>3. ~(n - j < n - i)
    BY <2>1, <2>2
  <2> QED BY <2>3
<1> QED BY <1>4

(* extract_parameter_map yields JSON values or refuses. *)
LEMMA ExtractedJson ==
    ASSUME NEW body \in Bodies, ExtractParameterMap(body).ok
    PROVE  \A k \in DOMAIN ExtractParameterMap(body).is :
               ExtractParameterMap(body).is[k] \in Json
<1>1. /\ body.form \in BodyForms
      /\ \A k \in DOMAIN body.map : body.map[k] \in Json
  BY PlanAssumption
<1>2. CASE body.form \in {"empty", "null"}
  <2>1. ExtractParameterMap(body) = Accepted(<<>>)
    BY <1>2 DEF ExtractParameterMap
  <2>2. ExtractParameterMap(body).is = <<>> /\ DOMAIN <<>> = {}
    BY <2>1 DEF Accepted
  <2> QED BY <2>2
<1>3. CASE body.form \in {"malformed", "scalar", "wrapped other"}
  <2>1. ExtractParameterMap(body) = Rejected
    BY <1>3 DEF ExtractParameterMap
  <2> QED BY <2>1 DEF Rejected
<1>4. CASE body.form \in {"flat", "wrapped"}
  <2>1. ExtractParameterMap(body) = Accepted(body.map)
    BY <1>4 DEF ExtractParameterMap
  <2>2. ExtractParameterMap(body).is = body.map
    BY <2>1 DEF Accepted
  <2> QED BY <1>1, <2>2
<1>5. CASE body.form = "wrapped null"
  <2>1. PICK m : m = [k \in DOMAIN body.map \cup {Wrapper} |->
                         IF k = Wrapper THEN "null" ELSE body.map[k]]
    OBVIOUS
  <2>2. ExtractParameterMap(body) = Accepted(m)
    BY <1>5, <2>1 DEF ExtractParameterMap
  <2>3. ExtractParameterMap(body).is = m
    BY <2>2 DEF Accepted
  <2>4. \A k \in DOMAIN m : m[k] \in Json
    BY <1>1, <2>1 DEF Json
  <2> QED BY <2>3, <2>4
<1> QED BY <1>1, <1>2, <1>3, <1>4, <1>5 DEF BodyForms

(* The values of resolve_parameters, by position. *)
Values(declared, supplied) ==
    [i \in {j \in DOMAIN declared : ValueOf(declared[j], supplied) # "none"} |->
        [key |-> declared[i].key, value |-> ValueOf(declared[i], supplied)]]

LEMMA ResolvedValues ==
    ASSUME NEW declared, NEW supplied, ResolveParameters(declared, supplied).ok
    PROVE  /\ ResolveParameters(declared, supplied).is.values = Values(declared, supplied)
           /\ \A k \in DOMAIN supplied : Coerces(supplied[k])
<1>1. ~(\/ DOMAIN supplied \ KeysOf(declared) # {}
        \/ \E k \in DOMAIN supplied : ~Coerces(supplied[k]))
  <2>1. SUFFICES ASSUME \/ DOMAIN supplied \ KeysOf(declared) # {}
                        \/ \E k \in DOMAIN supplied : ~Coerces(supplied[k])
                 PROVE  FALSE
    OBVIOUS
  <2>2. ResolveParameters(declared, supplied) = Rejected
    BY <2>1, Zenon DEF ResolveParameters
  <2> QED BY <2>2 DEF Rejected
<1>2. \E m : ResolveParameters(declared, supplied) =
                 Accepted([values |-> Values(declared, supplied), missing |-> m])
  BY <1>1, Zenon DEF ResolveParameters, Values
<1>3. ResolveParameters(declared, supplied).is.values = Values(declared, supplied)
  BY <1>2 DEF Accepted
<1> QED BY <1>1, <1>3

(* What a position holds is what its declaration resolves to; a value that is *)
(* no forbidden text came from the caller as a scalar or is a default.        *)
LEMMA ValueTyped ==
    ASSUME NEW declared \in Seq(Parameter), NEW supplied,
           \A k \in DOMAIN supplied : supplied[k] \in Json /\ Coerces(supplied[k]),
           NEW i \in DOMAIN declared
    PROVE  ValueOf(declared[i], supplied) \in {"none", "scalar", "default", "forbidden"}
<1>1. declared[i] \in Parameter
  BY ElementOfSeq, LenProperties
<1>2. declared[i].default \in {"none", "default", "forbidden"}
  BY <1>1 DEF Parameter
<1> QED BY <1>2 DEF ValueOf, Json, Coerces

(* A reference is filled with the value of a declaration of that name. *)
LEMMA FilledFromContract ==
    ASSUME NEW declared \in Seq(Parameter), NEW supplied,
           \A k \in DOMAIN supplied : supplied[k] \in Json /\ Coerces(supplied[k]),
           NEW piece \in Piece, piece.kind # "text",
           Fills(piece, Values(declared, supplied)),
           NEW out, out = Filled(piece, Values(declared, supplied))
    PROVE  /\ out.key = piece.name
           /\ out.value \in {"scalar", "default"}
           /\ \E d \in {declared[n] : n \in DOMAIN declared} :
                 d.key = out.key /\ out.value = ValueOf(d, supplied)
<1>1. PICK values : values = Values(declared, supplied)
  OBVIOUS
<1>2. PICK L : L = Lookup(values, piece.name)
  OBVIOUS
<1>3. L # {} /\ "forbidden" \notin L
  BY <1>1, <1>2 DEF Fills
<1>4. PICK v : v = CHOOSE x \in L : TRUE
  OBVIOUS
<1>5. v \in L
  BY <1>3, <1>4
<1>6. out = [key |-> piece.name, value |-> v]
  BY <1>1, <1>2, <1>4 DEF Filled
<1>7. PICK i \in DOMAIN values : values[i].key = piece.name /\ v = values[i].value
  BY <1>2, <1>5 DEF Lookup
<1>8. /\ i \in DOMAIN declared /\ ValueOf(declared[i], supplied) # "none"
      /\ declared[i].key = piece.name /\ v = ValueOf(declared[i], supplied)
  BY <1>1, <1>7 DEF Values
<1>9. v \in {"scalar", "default"}
  BY <1>3, <1>5, <1>8, ValueTyped
<1>10. out.key = piece.name /\ out.value = v
  BY <1>6
<1> QED BY <1>8, <1>9, <1>10

(* What the environment holds under one name. *)
Latest(S) == CHOOSE i \in S : \A j \in S : j <= i
Injected(values, n) == {i \in DOMAIN values : Upper[values[i].key] = n}
Variable(values, n) ==
    IF Injected(values, n) = {} THEN [key |-> "", value |-> "daemon"]
    ELSE values[Latest(Injected(values, n))]

LEMMA EnvironmentByName ==
    ASSUME NEW values, NEW n \in Passthrough \cup {Upper[values[i].key] : i \in DOMAIN values}
    PROVE  Environment(values)[n] = Variable(values, n)
<1>1. Environment(values) =
          [x \in Passthrough \cup {Upper[values[i].key] : i \in DOMAIN values} |->
              Variable(values, x)]
  BY Zenon DEF Environment, Variable, Injected, Latest
<1> QED BY <1>1

(* Every value is in the environment under its name, unless a later one is. *)
LEMMA EnvironmentHolds ==
    ASSUME NEW declared \in Seq(Parameter), NEW supplied, NEW n \in DOMAIN declared,
           ValueOf(declared[n], supplied) # "none",
           NEW env, env = Environment(Values(declared, supplied))
    PROVE  \/ env[Upper[declared[n].key]] =
                  [key |-> declared[n].key, value |-> ValueOf(declared[n], supplied)]
           \/ \E m \in DOMAIN declared :
                  m > n /\ Upper[declared[m].key] = Upper[declared[n].key]
<1>1. PICK values : values = Values(declared, supplied)
  OBVIOUS
<1>2. PICK name : name = Upper[declared[n].key]
  OBVIOUS
<1>3. PICK injected : injected = Injected(values, name)
  OBVIOUS
<1>4. /\ \A i \in DOMAIN values : i \in DOMAIN declared
      /\ \A i \in DOMAIN values : values[i].key = declared[i].key
      /\ \A i \in DOMAIN values :
             values[i] = [key |-> declared[i].key, value |-> ValueOf(declared[i], supplied)]
      /\ n \in DOMAIN values
  BY <1>1 DEF Values
<1>5. n \in injected
  BY <1>2, <1>3, <1>4 DEF Injected
<1>6. Len(declared) \in Nat /\ DOMAIN declared = 1..Len(declared)
  BY LenProperties
<1>7. injected \in SUBSET (1..Len(declared))
  BY <1>3, <1>4, <1>6 DEF Injected
<1>8. \E i \in injected : \A j \in injected : j <= i
  BY <1>5, <1>6, <1>7, LastFound
<1>9. PICK last : last = Latest(injected)
  OBVIOUS
<1>10. last \in injected /\ n <= last
  BY <1>5, <1>8, <1>9 DEF Latest
<1>11. env[name] = values[last]
  <2>1. name \in Passthrough \cup {Upper[values[i].key] : i \in DOMAIN values}
    BY <1>2, <1>4
  <2>2. env[name] = Variable(values, name)
    BY <1>1, <2>1, EnvironmentByName
  <2> QED BY <1>3, <1>5, <1>9, <2>2 DEF Variable
<1>12. CASE last = n
  BY <1>2, <1>4, <1>11, <1>12
<1>13. CASE last # n
  <2>1. last > n
    BY <1>6, <1>7, <1>10, <1>13
  <2>2. last \in DOMAIN declared /\ Upper[declared[last].key] = name
    BY <1>3, <1>4, <1>10 DEF Injected
  <2> QED BY <1>2, <2>1, <2>2
<1> QED BY <1>12, <1>13

(* A plan that was built is closed. *)
LEMMA PlanClosed ==
    ASSUME NEW user, NEW template \in Seq(Seq(Piece)), NEW declared \in Seq(Parameter),
           NEW supplied,
           \A k \in DOMAIN supplied : supplied[k] \in Json /\ Coerces(supplied[k]),
           NEW plan, plan = BuildCommandPlan(user, template, Values(declared, supplied)),
           plan.ok
    PROVE  Closed(template, declared, supplied, plan.is)
<1>1. PICK values : values = Values(declared, supplied)
  OBVIOUS
<1>2. PICK args : args = Arguments(template, values)
  OBVIOUS
<1>3. args.ok /\ plan = Accepted([user |-> EffectiveUser(user), args |-> args.is,
                                  env |-> Environment(values)])
  <2>1. Rejected.ok # plan.ok
    BY DEF Rejected
  <2> QED BY <1>1, <1>2, <2>1 DEF BuildCommandPlan
<1>4. plan.is.args = args.is /\ plan.is.env = Environment(values)
  BY <1>3 DEF Accepted
<1>5. ASSUME template # <<>>
      PROVE  /\ Len(plan.is.args) = Len(template)
             /\ \A i \in DOMAIN template : \A j \in DOMAIN template[i] :
                   LET out == plan.is.args[i][j]
                   IN  IF template[i][j].kind = "text" THEN out.value = "text"
                       ELSE /\ out.key = template[i][j].name
                            /\ out.value \in {"scalar", "default"}
                            /\ \E d \in {declared[n] : n \in DOMAIN declared} :
                                  d.key = out.key /\ out.value = ValueOf(d, supplied)
  <2>1. args = ResolveTemplate(template, values)
    BY <1>2, <1>5 DEF Arguments
  <2>2. PICK filled : filled = [i \in DOMAIN template |->
                      [j \in DOMAIN template[i] |-> Filled(template[i][j], values)]]
    OBVIOUS
  <2>3. /\ \A i \in DOMAIN template : \A j \in DOMAIN template[i] :
               Fills(template[i][j], values)
        /\ args = Accepted(filled)
    <3>1. ~Rejected.ok
      BY DEF Rejected
    <3> QED BY <1>3, <2>1, <2>2, <3>1 DEF ResolveTemplate
  <2>4. plan.is.args = filled
    BY <1>4, <2>3 DEF Accepted
  <2>5. Len(template) \in Nat /\ DOMAIN template = 1..Len(template)
    BY LenProperties
  <2>6. Len(filled) = Len(template)
    <3>1. DOMAIN filled = 1..Len(template)
      BY <2>2, <2>5
    <3>2. filled = [i \in 1..Len(template) |-> filled[i]]
      BY <2>2, <2>5
    <3>3. Len([i \in 1..Len(template) |-> filled[i]]) = Len(template)
      BY <2>5
    <3> QED BY <3>2, <3>3
  <2>7. ASSUME NEW i \in DOMAIN template, NEW j \in DOMAIN template[i],
               NEW out, out = filled[i][j]
        PROVE  IF template[i][j].kind = "text" THEN out.value = "text"
               ELSE /\ out.key = template[i][j].name
                    /\ out.value \in {"scalar", "default"}
                    /\ \E d \in {declared[n] : n \in DOMAIN declared} :
                          d.key = out.key /\ out.value = ValueOf(d, supplied)
    <3>1. PICK piece : piece = template[i][j]
      OBVIOUS
    <3>2. out = Filled(piece, values)
      BY <2>2, <2>7, <3>1
    <3>3. piece \in Piece
      <4>1. template[i] \in Seq(Piece)
        BY <2>5, ElementOfSeq
      <4>2. DOMAIN template[i] = 1..Len(template[i])
        BY <4>1, LenProperties
      <4> QED BY <3>1, <4>1, <4>2, ElementOfSeq
    <3>4. CASE piece.kind = "text"
      <4>1. out = [key |-> "", value |-> "text"]
        BY <3>2, <3>4 DEF Filled
      <4>2. out.value = "text"
        BY <4>1
      <4> QED BY <3>1, <3>4, <4>2
    <3>5. CASE piece.kind # "text"
      <4>1. Fills(piece, values)
        BY <2>3, <3>1
      <4>2. /\ out.key = piece.name
            /\ out.value \in {"scalar", "default"}
            /\ \E d \in {declared[n] : n \in DOMAIN declared} :
                  d.key = out.key /\ out.value = ValueOf(d, supplied)
        BY <1>1, <3>2, <3>3, <3>5, <4>1, FilledFromContract
      <4> QED BY <3>1, <3>5, <4>2
    <3> QED BY <3>4, <3>5
  <2> QED BY <2>4, <2>6, <2>7
<1>6. ASSUME NEW n \in DOMAIN declared
      PROVE  \/ ValueOf(declared[n], supplied) = "none"
             \/ plan.is.env[Upper[declared[n].key]] =
                    [key |-> declared[n].key, value |-> ValueOf(declared[n], supplied)]
             \/ \E m \in DOMAIN declared :
                    m > n /\ Upper[declared[m].key] = Upper[declared[n].key]
  BY <1>1, <1>4, EnvironmentHolds
<1> QED BY <1>5, <1>6, Zenon DEF Closed

(* The pre-flight ends in "runnable" or in a reason of its own, and lets pass *)
(* only a sound script, run directly or as a valid user by a working sudo.    *)
LEMMA PreflightSound ==
    ASSUME NEW user, NEW machine \in Machines
    PROVE  /\ EnsureRunnable(user, machine) \notin {"spawn", "input", "missing", "template"}
           /\ EnsureRunnable(user, machine) = "runnable" =>
                 /\ machine.script = "fine"
                 /\ EffectiveUser(user) # "" => ValidUser(user) /\ machine.sudo = "fine"
<1>1. machine.script \in Scripts
  BY PlanAssumption
<1>2. /\ EnsureExecutable(machine) \in
             {"NotFound", "PermissionDenied", "OutsideAllowedRoots", "NotARegularFile",
              "NotExecutable", "runnable"}
      /\ EnsureExecutable(machine) = "runnable" => machine.script = "fine"
  BY <1>1 DEF EnsureExecutable, Scripts
<1>3. EnsureSudo(machine) = "runnable" => machine.sudo = "fine"
  BY DEF EnsureSudo
<1>4. EffectiveUser(user) # "" => EffectiveUser(user) = user
  BY DEF EffectiveUser
<1>5. /\ EnsureRunnable(user, machine) \in
             {"InvalidRunAsUser", "SudoUnavailable", EnsureExecutable(machine)}
      /\ EnsureRunnable(user, machine) = "runnable" =>
             /\ EnsureExecutable(machine) = "runnable"
             /\ EffectiveUser(user) # "" =>
                   ValidUser(EffectiveUser(user)) /\ EnsureSudo(machine) = "runnable"
  BY DEF EnsureRunnable
<1> QED BY <1>2, <1>3, <1>4, <1>5

LEMMA RefusalIs == \A why : Refusal(why).why = why /\ Refusal(why).status = 400
BY DEF Refusal

(* The order of the checks, in an execution with a free permit. *)
ExecuteInOrder(map, resolved, plan, flight) ==
    IF ~map.ok \/ ~resolved.ok THEN Refusal("input")
    ELSE IF resolved.is.missing # {} THEN Refusal("missing")
    ELSE IF flight # "runnable" THEN Refusal(flight)
    ELSE IF ~plan.ok THEN Refusal("template")
    ELSE [status |-> 200, why |-> "spawn", plan |-> plan]

(* And in a dry run. *)
TestInOrder(map, resolved, plan, flight) ==
    IF ~map.ok \/ ~resolved.ok THEN Refusal("input")
    ELSE [status |-> 200, plan |-> plan,
          why |-> IF resolved.is.missing # {} THEN "missing"
                  ELSE IF ~plan.ok THEN "template"
                  ELSE IF flight # "runnable" THEN flight
                  ELSE "spawn"]

(* What the two verdicts owe to each other, apart from the command. *)
Consistent(ran, said, status) ==
    /\ ran = "spawn" <=> said = "spawn"
    /\ ran = "input" <=> status = 400
    /\ ran = "missing" <=> said = "missing"

LEMMA Verdicts ==
    /\ Consistent("input", "input", 400)
    /\ Consistent("missing", "missing", 200)
    /\ Consistent("template", "template", 200)
    /\ Consistent("spawn", "spawn", 200)
    /\ \A flight : flight \notin {"spawn", "input", "missing", "template"} =>
          Consistent(flight, flight, 200) /\ Consistent(flight, "template", 200)
BY SMT DEF Consistent

(* execute and test_hook, for every user, template, contract, body and state  *)
(* of the file system: they agree on whether the hook runs, on the command    *)
(* and on what the caller got wrong, and what runs is closed.                 *)
THEOREM DryRunAlwaysAgrees ==
    ASSUME NEW user, NEW template \in Seq(Seq(Piece)), NEW declared \in Seq(Parameter)
    PROVE  DryRunAgrees(user, template, declared)
<1>1. ASSUME NEW body \in Bodies, NEW machine \in Machines
      PROVE  LET run == Execute(user, template, declared, body, machine, TRUE)
                 dry == TestHook(user, template, declared, body, machine)
             IN  /\ run.why = "spawn" <=> dry.why = "spawn"
                 /\ run.why = "spawn" => dry.plan = run.plan
                 /\ run.why = "input" <=> dry.status = 400
                 /\ run.why = "missing" <=> dry.why = "missing"
                 /\ run.why = "spawn" =>
                       /\ Closed(template, declared, ExtractParameterMap(body).is, run.plan.is)
                       /\ machine.script = "fine"
                       /\ EffectiveUser(user) # "" => ValidUser(user) /\ machine.sudo = "fine"
  <2>map. PICK map : map = ExtractParameterMap(body)
    OBVIOUS
  <2>res. PICK resolved : resolved = ResolveParameters(declared, map.is)
    OBVIOUS
  <2>plan. PICK plan : plan = BuildCommandPlan(user, template, resolved.is.values)
    OBVIOUS
  <2>fl. PICK flight : flight = EnsureRunnable(user, machine)
    OBVIOUS
  <2>run. PICK run : run = ExecuteInOrder(map, resolved, plan, flight)
    OBVIOUS
  <2>dry. PICK dry : dry = TestInOrder(map, resolved, plan, flight)
    OBVIOUS
  <2>exec. Execute(user, template, declared, body, machine, TRUE) = run
    BY <2>map, <2>res, <2>plan, <2>fl, <2>run, Zenon DEF Execute, ExecuteInOrder
  <2>test. TestHook(user, template, declared, body, machine) = dry
    BY <2>map, <2>res, <2>plan, <2>fl, <2>dry, Zenon DEF TestHook, TestInOrder
  <2>goal. SUFFICES /\ Consistent(run.why, dry.why, dry.status)
                    /\ run.why = "spawn" =>
                          /\ dry.plan = run.plan
                          /\ Closed(template, declared, map.is, run.plan.is)
                          /\ machine.script = "fine"
                          /\ EffectiveUser(user) # "" => ValidUser(user) /\ machine.sudo = "fine"
    BY <2>map, <2>exec, <2>test, Zenon DEF Consistent
  <2> USE <2>map, <2>res, <2>plan, <2>fl, <2>run, <2>dry
  <2>1. /\ flight \notin {"spawn", "input", "missing", "template"}
        /\ flight = "runnable" =>
               /\ machine.script = "fine"
               /\ EffectiveUser(user) # "" => ValidUser(user) /\ machine.sudo = "fine"
    BY <2>fl, PreflightSound
  <2>2. CASE ~map.ok \/ ~resolved.ok
    <3>1. run = Refusal("input") /\ dry = Refusal("input")
      BY <2>2, Zenon DEF ExecuteInOrder, TestInOrder
    <3>2. run.why = "input" /\ dry.why = "input" /\ dry.status = 400
      BY <3>1, RefusalIs
    <3>3. Consistent(run.why, dry.why, dry.status)
      BY <3>2, SMT DEF Consistent
    <3> QED BY <3>2, <3>3, Zenon
  <2>3. ASSUME map.ok, resolved.ok
        PROVE  /\ dry.status = 200 /\ dry.plan = plan
               /\ dry.why = IF resolved.is.missing # {} THEN "missing"
                            ELSE IF ~plan.ok THEN "template"
                            ELSE IF flight # "runnable" THEN flight
                            ELSE "spawn"
    <3>1. dry.status = 200
      BY <2>3, Zenon DEF TestInOrder
    <3>2. dry.plan = plan
      BY <2>3, Zenon DEF TestInOrder
    <3>3. dry.why = IF resolved.is.missing # {} THEN "missing"
                    ELSE IF ~plan.ok THEN "template"
                    ELSE IF flight # "runnable" THEN flight
                    ELSE "spawn"
      BY <2>3, Zenon DEF TestInOrder
    <3> QED BY <3>1, <3>2, <3>3
  <2>4. CASE map.ok /\ resolved.ok /\ resolved.is.missing # {}
    <3>1. run = Refusal("missing") /\ dry.why = "missing" /\ dry.status = 200
      BY <2>3, <2>4, Zenon DEF ExecuteInOrder
    <3>2. run.why = "missing"
      BY <3>1, RefusalIs
    <3>3. Consistent(run.why, dry.why, dry.status)
      BY <2>1, <3>1, <3>2, Verdicts, Zenon
    <3> QED BY <2>1, <3>2, <3>3, Zenon
  <2>5. CASE map.ok /\ resolved.ok /\ resolved.is.missing = {} /\ flight # "runnable"
    <3>1. run = Refusal(flight) /\ (dry.why = flight \/ dry.why = "template") /\ dry.status = 200
      BY <2>3, <2>5, Zenon DEF ExecuteInOrder
    <3>2. run.why = flight
      BY <3>1, RefusalIs
    <3>3. Consistent(run.why, dry.why, dry.status)
      BY <2>1, <3>1, <3>2, Verdicts, Zenon
    <3> QED BY <2>1, <3>2, <3>3, Zenon
  <2>6. CASE map.ok /\ resolved.ok /\ resolved.is.missing = {} /\ flight = "runnable" /\ ~plan.ok
    <3>1. run = Refusal("template") /\ dry.why = "template" /\ dry.status = 200
      BY <2>3, <2>6, Zenon DEF ExecuteInOrder
    <3>2. run.why = "template"
      BY <3>1, RefusalIs
    <3>3. Consistent(run.why, dry.why, dry.status)
      BY <2>1, <3>1, <3>2, Verdicts, Zenon
    <3> QED BY <2>1, <3>2, <3>3, Zenon
  <2>7. CASE map.ok /\ resolved.ok /\ resolved.is.missing = {} /\ flight = "runnable" /\ plan.ok
    <3>1. run = [status |-> 200, why |-> "spawn", plan |-> plan]
      BY <2>7, Zenon DEF ExecuteInOrder
    <3>2. run.why = "spawn" /\ run.plan = plan
      BY <3>1
    <3>3. dry.why = "spawn" /\ dry.status = 200 /\ dry.plan = plan
      BY <2>3, <2>7, Zenon
    <3>4. Closed(template, declared, map.is, plan.is)
      <4>1. PICK supplied : supplied = map.is
        OBVIOUS
      <4>2. \A k \in DOMAIN supplied : supplied[k] \in Json
        BY <2>7, <4>1, ExtractedJson
      <4>3. /\ resolved.is.values = Values(declared, supplied)
            /\ \A k \in DOMAIN supplied : Coerces(supplied[k])
        BY <2>7, <4>1, ResolvedValues
      <4>4. plan = BuildCommandPlan(user, template, Values(declared, supplied))
        BY <4>3
      <4> QED BY <2>7, <4>1, <4>2, <4>3, <4>4, PlanClosed
    <3>5. Consistent(run.why, dry.why, dry.status)
      BY <3>2, <3>3, Verdicts, Zenon
    <3>6. /\ machine.script = "fine"
          /\ EffectiveUser(user) # "" => ValidUser(user) /\ machine.sudo = "fine"
      BY <2>1, <2>7, Zenon
    <3> QED BY <3>2, <3>3, <3>4, <3>5, <3>6, Zenon
  <2> QED BY <2>2, <2>4, <2>5, <2>6, <2>7
<1> QED BY <1>1, Zenon DEF DryRunAgrees
=============================================================================
