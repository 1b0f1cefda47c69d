---------------------------- MODULE RequestAuth ----------------------------
(* What auth_middleware and invocation_auth_middleware answer to one request: *)
(* the keyed path of authenticate_bearer_key, the keyless path that the       *)
(* target hook's auth_mode opens, the signature check of crypto.rs and the    *)
(* secrets at rest it reads.  Source: middleware.rs and crypto.rs.            *)
(*                                                                            *)
(* A signature is symbolic: the secret it was made with and the string it was *)
(* made over.  HookRegistry brings the hook rows that these operators judge   *)
(* requests against.  Which signatures were used before is ReplayGuard's.     *)
EXTENDS Integers, FiniteSets

CONSTANT
    Cipher             \* the SIGNING_SECRET_KEY in force, or "none"

ASSUME AuthAssumption == Cipher \in STRING

-----------------------------------------------------------------------------
(* Secrets at rest: SecretCipher.                                            *)

Forms == {"none", "plain", "sealed", "malformed"}
NoSecret == [form |-> "none", secret |-> "", under |-> ""]
Plain(s) == [form |-> "plain", secret |-> s, under |-> ""]
Sealed(s, k) == [form |-> "sealed", secret |-> s, under |-> k]

Seal(s) == IF Cipher = "none" THEN Plain(s) ELSE Sealed(s, Cipher)

(* A plaintext row is readable under every key, a sealed one under its own. *)
Opens(stored) == stored.form = "plain" \/ (stored.form = "sealed" /\ stored.under = Cipher)

(* A column with no secret, one of this service, one from before encryption *)
(* was enabled, one sealed under a key since lost, and a damaged one.       *)
AtRest(s) == {NoSecret, Seal(s), Plain(s), Sealed(s, "lost"),
              [form |-> "malformed", secret |-> s, under |-> ""]}

-----------------------------------------------------------------------------
(* Requests.                                                                 *)

(* A header: not sent, sent with bytes that to_str refuses, or text with its *)
(* prefix, whether the rest is hexadecimal, and the signature it spells.     *)
Signature == [sent : {"no", "garbled", "text"}, tag : {"", "sha256=", "own="},
              hex : BOOLEAN, by : {"key", "hook", "other"},
              over : {"default", "key", "hook", "body", "other"}]
Unsent == [sent |-> "no", tag |-> "", hex |-> FALSE, by |-> "other", over |-> "other"]
Garbled == [Unsent EXCEPT !.sent = "garbled"]
Texts == {s \in Signature : s.sent = "text"}

(* The key row the presented X-API-Key hashes to; known is FALSE for none.   *)
KeyRow == [known : BOOLEAN, manager : BOOLEAN, master : BOOLEAN, secret : AtRest("key"),
           template : {"none", "key"}, bound : {"any", "listed", "corrupt"}]
Stranger == [known |-> FALSE, manager |-> FALSE, master |-> FALSE, secret |-> NoSecret,
             template |-> "none", bound |-> "any"]

(* X-Timestamp: missing, outside the window, leaving it between the two      *)
(* looks at it, or inside it.                                                *)
Stamps == {"none", "stale", "expiring", "fresh"}

(* The part of a hook row that the middleware reads.                         *)
Modes == {"CANONICAL_V1", "API_KEY_ONLY", "HMAC_ONLY", "NONE"}
HookShape == [mode : Modes, secret : AtRest("hook"), template : {"none", "hook"},
              header : {"default", "own"}, prefix : {"sha256=", "own="}]
NoHook == [mode |-> "unresolved", secret |-> NoSecret, template |-> "none",
           header |-> "default", prefix |-> "sha256="]

-----------------------------------------------------------------------------
(* Answers.                                                                  *)

Admit == [status |-> 200, body |-> "next"]
Internal == [status |-> 500, body |-> "internal"]
TooLarge == [status |-> 400, body |-> "too large"]
Forbidden == [status |-> 403, body |-> "client IP not allowed"]
Unauthorized(why) == [status |-> 401, body |-> why]
InvocationUnauthorized == Unauthorized("Unauthorized")

(* verify_signature_with_prefix. *)
Verify(secret, payload, given, prefix) ==
    IF given.tag # prefix THEN "MissingPrefix"
    ELSE IF ~given.hex THEN "MalformedHex"
    ELSE IF given.by # secret \/ given.over # payload THEN "Mismatch"
    ELSE "verified"

(* The string that a keyed signature must be over: the template of a hook in *)
(* CANONICAL_V1 before the key's own before the service's.                   *)
Governing(key, hook) ==
    IF hook.mode = "CANONICAL_V1" /\ hook.template # "none" THEN hook.template
    ELSE IF key.template # "none" THEN key.template
    ELSE "default"

MustSign(req) == req.required \/ (req.key.manager /\ ~req.key.master)

(* bound_ips, checked once the caller is known. *)
CheckNetwork(req) ==
    IF req.key.bound = "corrupt" THEN Internal
    ELSE IF req.key.bound = "listed" /\ ~req.inside THEN Forbidden
    ELSE Admit

CheckSignature(req, hook) ==
    LET seen == Verify(req.key.secret.secret, Governing(req.key, hook), req.sig, "sha256=")
    IN  IF req.stamp = "none" THEN Unauthorized("no timestamp")
        ELSE IF req.stamp # "fresh" THEN Unauthorized("window")
        ELSE IF req.key.secret = NoSecret THEN Unauthorized("no secret")
        ELSE IF ~Opens(req.key.secret) THEN Internal
        ELSE IF req.oversize THEN TooLarge
        ELSE IF seen # "verified" THEN Unauthorized(seen)
        ELSE IF req.replayed THEN Unauthorized("already used")
        ELSE CheckNetwork(req)

(* A mutant: the network is checked before the caller has proven anything. *)
AuthenticateNetworkFirst(req, hook) ==
    IF req.sig.sent # "no" /\ req.stamp = "stale" THEN Unauthorized("window")
    ELSE IF req.key.known /\ CheckNetwork(req) # Admit THEN CheckNetwork(req)
    ELSE IF ~req.key.known THEN Unauthorized("invalid key")
    ELSE IF req.sig.sent = "text" THEN CheckSignature(req, hook)
    ELSE IF MustSign(req) THEN Unauthorized("unsigned")
    ELSE Admit

AuthenticateBearerKey(req, hook) ==
    IF req.sig.sent # "no" /\ req.stamp = "stale" THEN Unauthorized("window")
    ELSE IF ~req.key.known THEN Unauthorized("invalid key")
    ELSE IF req.sig.sent = "text" THEN CheckSignature(req, hook)
    ELSE IF MustSign(req) THEN Unauthorized("unsigned")
    ELSE CheckNetwork(req)

(* auth_middleware, in front of the administrative routes. *)
AdminVerdict(req) ==
    IF req.presented # "text" THEN Unauthorized("missing credentials")
    ELSE AuthenticateBearerKey(req, NoHook)

Uniform(verdict) == IF verdict.status = 401 THEN InvocationUnauthorized ELSE verdict

(* signature_material_present, and the header that HMAC_ONLY reads. *)
Material(req, hook) == req.sig.sent # "no" \/ (hook.header = "own" /\ req.own.sent # "no")
Provided(req, hook) == IF hook.header = "own" THEN req.own ELSE req.sig

CheckHookSignature(req, hook) ==
    LET given == Provided(req, hook)
        seen == Verify(hook.secret.secret, "body", given, hook.prefix)
    IN  IF given.sent # "text" THEN InvocationUnauthorized
        ELSE IF hook.secret = NoSecret \/ ~Opens(hook.secret) THEN Internal
        ELSE IF req.oversize THEN TooLarge
        ELSE IF seen # "verified" THEN Unauthorized(seen)
        ELSE Admit

(* The keyless branch of invocation_auth_middleware. *)
KeylessVerdict(req, hook) ==
    IF hook = NoHook THEN InvocationUnauthorized
    ELSE IF hook.mode \in {"API_KEY_ONLY", "NONE"} /\ Material(req, hook)
         THEN InvocationUnauthorized
    ELSE IF hook.mode \in {"CANONICAL_V1", "API_KEY_ONLY"} THEN InvocationUnauthorized
    ELSE IF hook.mode = "NONE"
         THEN IF req.required THEN InvocationUnauthorized ELSE Admit
    ELSE CheckHookSignature(req, hook)

(* invocation_auth_middleware; hook is NoHook when the path names none. *)
InvocationVerdict(req, hook) ==
    IF req.presented = "text" THEN Uniform(AuthenticateBearerKey(req, hook))
    ELSE KeylessVerdict(req, hook)

-----------------------------------------------------------------------------
(* The requests the verdicts are compared on.                                *)

(* One request: its headers, the row its key hashes to, whether it comes     *)
(* from inside the key's networks, whether its body is over the limit,       *)
(* whether the replay guard has its signature, and REQUIRE_SIGNED_REQUESTS   *)
(* of the service that receives it.                                          *)
Request(presented, key, stamp, sig, own, inside, oversize, replayed, required) ==
    [presented |-> presented, key |-> key, stamp |-> stamp, sig |-> sig, own |-> own,
     inside |-> inside, oversize |-> oversize, replayed |-> replayed, required |-> required]

(* Signatures a keyed caller may send: none, an unreadable one, a malformed  *)
(* one of each kind, and a well-formed one by anyone over anything.          *)
KeyedSignatures ==
    {Unsent, Garbled} \cup {s \in Texts : s.tag = "sha256=" /\ s.hex /\ s.by # "hook" /\ s.over # "body"}
    \cup {[CHOOSE s \in Texts : s.by = "key" /\ s.over = "default" EXCEPT
              !.tag = t, !.hex = h] : t \in {"", "sha256="}, h \in {FALSE}}

KeyedRequests ==
    {Request("text", k, t, s, Unsent, i, o, r, q) :
        k \in {row \in KeyRow : row.known /\ (row.master => row.manager)} \cup {Stranger},
        t \in Stamps, s \in KeyedSignatures,
        i \in BOOLEAN, o \in BOOLEAN, r \in BOOLEAN, q \in BOOLEAN}

KeylessSignatures ==
    {Unsent, Garbled} \cup {s \in Texts : s.by # "key" /\ s.over \in {"body", "other"}}

(* The standard header, the hook's own, or the same in both. *)
KeylessHeaders ==
    {<<x, Unsent>> : x \in KeylessSignatures}
    \cup {<<Unsent, x>> : x \in KeylessSignatures}
    \cup {<<x, x>> : x \in KeylessSignatures}

KeylessRequests ==
    {Request(p, Stranger, "none", s[1], s[2], TRUE, o, FALSE, q) :
        p \in {"no", "garbled"}, o \in BOOLEAN, q \in BOOLEAN, s \in KeylessHeaders}

-----------------------------------------------------------------------------
(* What a caller must have shown, said without the order of the checks.      *)

(* The caller holds the secret of the key and signed this very request.      *)
Genuine(req, hook) ==
    /\ req.key.secret.secret = "key" /\ Opens(req.key.secret)
    /\ req.sig.tag = "sha256=" /\ req.sig.hex
    /\ req.sig.by = "key" /\ req.sig.over = Governing(req.key, hook)
    /\ req.stamp = "fresh" /\ ~req.replayed /\ ~req.oversize

(* Who is calling is settled: the key alone where that suffices, with a      *)
(* genuine signature wherever a readable one is sent or one is due.          *)
Identified(req, hook) ==
    /\ req.key.known
    /\ req.sig.sent = "garbled" => req.stamp # "stale"
    /\ req.sig.sent = "text" \/ MustSign(req) => req.sig.sent = "text" /\ Genuine(req, hook)

KeyedEntitled(req, hook) ==
    /\ Identified(req, hook)
    /\ req.key.bound = "any" \/ (req.key.bound = "listed" /\ req.inside)

KeylessEntitled(req, hook) ==
    \/ /\ hook.mode = "NONE" /\ ~req.required
       /\ req.sig = Unsent /\ (hook.header = "own" => req.own = Unsent)
    \/ /\ hook.mode = "HMAC_ONLY"
       /\ hook.secret.secret = "hook" /\ Opens(hook.secret) /\ ~req.oversize
       /\ Provided(req, hook) \in {s \in Texts : s.hex /\ s.tag = hook.prefix
                                                 /\ s.by = "hook" /\ s.over = "body"}

(* A signature sent in time for a key that exists cannot even be compared:    *)
(* its stored secret does not open, or the body is too large to read.         *)
Faulted(req) ==
    /\ req.key.known /\ req.sig.sent = "text" /\ req.stamp = "fresh"
    /\ req.key.secret # NoSecret
    /\ ~Opens(req.key.secret) \/ req.oversize

(* A keyed request is admitted exactly when its caller is entitled, and a     *)
(* network refusal is only told to a caller that is identified.  A caller     *)
(* that is not is told the same as with a key that does not exist, in every   *)
(* case but two: the 500 of a stored secret that does not open and the 400 of *)
(* a body too large to verify, which an unknown key never gets.               *)
KeyedSound(hook) ==
    \A r \in KeyedRequests :
       LET v == InvocationVerdict(r, hook)
       IN  /\ v = Admit <=> KeyedEntitled(r, hook)
           /\ v = Forbidden => Identified(r, hook)
           /\ ~Identified(r, hook) =>
                 v = IF ~Faulted(r) THEN InvocationVerdict([r EXCEPT !.key = Stranger], hook)
                     ELSE IF Opens(r.key.secret) THEN TooLarge ELSE Internal
           /\ AdminVerdict(r) = Admit <=> KeyedEntitled(r, NoHook)

(* A keyless request is admitted exactly when the hook is open to it, and one *)
(* that is refused is told the same of every hook and of none, until it sends *)
(* a hook in HMAC_ONLY the header that this hook reads.                       *)
KeylessSound(hook) ==
    \A r \in KeylessRequests :
       LET v == InvocationVerdict(r, hook)
       IN  /\ v = Admit <=> KeylessEntitled(r, hook)
           /\ \/ v \in {Admit, InvocationVerdict(r, NoHook)}
              \/ hook.mode = "HMAC_ONLY" /\ Provided(r, hook).sent = "text"

(* Both, for every hook the middleware may meet.  A keyed request depends on  *)
(* the mode and the template alone.                                           *)
ReadByKeyed(m, t) == [NoHook EXCEPT !.mode = m, !.template = t]
KeyedTable ==
    {<<m, t, KeyedSound(ReadByKeyed(m, t))>> : m \in Modes, t \in {"none", "hook"}}
KeylessTable == {<<h, KeylessSound(h)>> : h \in HookShape}
=============================================================================
