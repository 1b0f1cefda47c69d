---------------------------- MODULE CommandPlan ----------------------------
(* From the body of an invocation to the command that runs: the parameter map *)
(* of the body, its merge with the declared parameters, the argument vector   *)
(* and the environment, and the pre-flight of the script; once in the order   *)
(* of execute and once in the order of its dry run.  Source: executor.rs,     *)
(* extract_parameter_map of support.rs, run_hook_request and test_hook.       *)
(*                                                                            *)
(* Strings are abstract: a value is the parameter it came from and whether it *)
(* was the caller's or the default, and whether it has a forbidden sequence.  *)
EXTENDS Integers, Sequences, FiniteSets

CONSTANTS
    ParamKeys,         \* keys that is_valid_param_key accepts
    Upper,             \* [ParamKeys -> variable names]: HOOK_PARAM_<KEY>, upper-cased
    Passthrough,       \* names of ALLOWED_ENV_VARS that the daemon has set
    Bodies,            \* the request bodies considered
    Machines           \* the states of the file system considered

Wrapper == "parameters"

(* A JSON value: null, a scalar, a scalar with a sequence no template takes,  *)
(* one with a NUL byte, or an array or object.                                *)
Json == {"null", "scalar", "forbidden", "nul", "nested"}

(* hook_parameter rows in the order of load_parameters.  A default is missing *)
(* or a text, which may hold a forbidden sequence too.                        *)
Parameter == [key : ParamKeys, default : {"none", "default", "forbidden"}, required : BOOLEAN]

(* An args_template: tokens of pieces.  A piece is literal text, a reference, *)
(* the empty reference ${}, or a ${ that is never closed.                     *)
Piece == [kind : {"text", "ref", "empty", "open"}, name : ParamKeys \cup {""}]
Text == [kind |-> "text", name |-> ""]
Empty == [kind |-> "empty", name |-> ""]
Open == [kind |-> "open", name |-> ""]
Ref(k) == [kind |-> "ref", name |-> k]

BodyForms ==
    {"empty", "null", "malformed", "scalar", "flat", "wrapped", "wrapped null", "wrapped other"}

(* A machine is what canonicalize, metadata and the mode bits say of the      *)
(* script, and what they say of sudo.                                         *)
Scripts == {"absent", "denied", "outside", "vanished", "directory", "no x bit", "fine"}
Sudo == {"absent", "unreachable", "no x bit", "fine"}

ASSUME PlanAssumption ==
    /\ IsFiniteSet(ParamKeys)
    /\ Upper \in [ParamKeys -> STRING]
    /\ Passthrough \subseteq STRING
    /\ Machines \subseteq [script : Scripts, sudo : Sudo]
    /\ \A b \in Bodies :
          /\ b.form \in BodyForms
          /\ b.map \in [DOMAIN b.map -> Json]
          /\ DOMAIN b.map \subseteq ParamKeys /\ Wrapper \notin DOMAIN b.map

-----------------------------------------------------------------------------
(* Parameters.                                                               *)

Accepted(v) == [ok |-> TRUE, is |-> v]
Rejected == [ok |-> FALSE, is |-> <<>>]

(* extract_parameter_map.  A body is empty, no JSON, null, no object, or an   *)
(* object: its own fields, with or without a field named by Wrapper.          *)
ExtractParameterMap(body) ==
    CASE body.form \in {"empty", "null"} -> Accepted(<<>>)
      [] body.form \in {"malformed", "scalar", "wrapped other"} -> Rejected
      [] body.form \in {"flat", "wrapped"} -> Accepted(body.map)
      [] body.form = "wrapped null" ->
            Accepted([k \in DOMAIN body.map \cup {Wrapper} |->
                         IF k = Wrapper THEN "null" ELSE body.map[k]])

KeysOf(declared) == {declared[i].key : i \in DOMAIN declared}

(* coerce_param_value, and the default where nothing was supplied. *)
Coerces(v) == v \notin {"nul", "nested"}
ValueOf(d, supplied) ==
    IF d.key \in DOMAIN supplied /\ supplied[d.key] # "null" THEN supplied[d.key] ELSE d.default

(* resolve_parameters: the values, each at the position of its declaration,  *)
(* and what is missing.                                                      *)
ResolveParameters(declared, supplied) ==
    LET given == {i \in DOMAIN declared : ValueOf(declared[i], supplied) # "none"}
    IN  IF \/ DOMAIN supplied \ KeysOf(declared) # {}
           \/ \E k \in DOMAIN supplied : ~Coerces(supplied[k])
        THEN Rejected
        ELSE Accepted([values |-> [i \in given |-> [key |-> declared[i].key,
                                                   value |-> ValueOf(declared[i], supplied)]],
                       missing |-> {declared[i].key : i \in {j \in DOMAIN declared \ given :
                                                                declared[j].required}}])

-----------------------------------------------------------------------------
(* Templates.                                                                *)

(* extract_template_variable_names: an unclosed ${ swallows what follows it. *)
VariableNames(template) ==
    LET Places == UNION {{i} \X DOMAIN template[i] : i \in DOMAIN template}
        At(p) == template[p[1]][p[2]]
        Before(p, q) == p[1] < q[1] \/ (p[1] = q[1] /\ p[2] < q[2])
    IN  {At(p).name : p \in {q \in Places :
            At(q).kind = "ref" /\ ~\E o \in Places : Before(o, q) /\ At(o).kind = "open"}}

(* validate_args_template_matches_parameters. *)
TemplateFits(template, keys) == VariableNames(template) \subseteq keys

Lookup(values, k) == {values[i].value : i \in {j \in DOMAIN values : values[j].key = k}}

(* One step of substitute_token: what a piece turns into, if into anything. *)
Fills(piece, values) ==
    \/ piece.kind = "text"
    \/ piece.kind = "ref" /\ Lookup(values, piece.name) # {}
                          /\ "forbidden" \notin Lookup(values, piece.name)

Filled(piece, values) ==
    IF piece.kind = "text" THEN [key |-> "", value |-> "text"]
    ELSE [key |-> piece.name, value |-> CHOOSE v \in Lookup(values, piece.name) : TRUE]

(* resolve_args_template. *)
ResolveTemplate(template, values) ==
    IF \A i \in DOMAIN template : \A j \in DOMAIN template[i] : Fills(template[i][j], values)
    THEN Accepted([i \in DOMAIN template |->
                      [j \in DOMAIN template[i] |-> Filled(template[i][j], values)]])
    ELSE Rejected

-----------------------------------------------------------------------------
(* build_command_plan.                                                       *)

EffectiveUser(user) == IF user \in {"", "blank"} THEN "" ELSE user

(* Parameters are injected after the passthrough, in declaration order.      *)
Environment(values) ==
    [n \in Passthrough \cup {Upper[values[i].key] : i \in DOMAIN values} |->
        LET injected == {i \in DOMAIN values : Upper[values[i].key] = n}
        IN  IF injected = {} THEN [key |-> "", value |-> "daemon"]
            ELSE values[CHOOSE i \in injected : \A j \in injected : j <= i]]

(* An args_template that is blank counts as none. *)
Arguments(template, values) ==
    IF template = <<>> THEN Accepted([i \in DOMAIN values |-> <<values[i]>>])
    ELSE ResolveTemplate(template, values)

BuildCommandPlan(user, template, values) ==
    LET args == Arguments(template, values)
    IN  IF ~args.ok THEN Rejected
        ELSE Accepted([user |-> EffectiveUser(user), args |-> args.is, env |-> Environment(values)])

-----------------------------------------------------------------------------
(* The pre-flight.                                                           *)

(* ensure_executable, with the reason that classify_io_error would give. *)
EnsureExecutable(machine) ==
    CASE machine.script \in {"absent", "vanished"} -> "NotFound"
      [] machine.script = "denied" -> "PermissionDenied"
      [] machine.script = "outside" -> "OutsideAllowedRoots"
      [] machine.script = "directory" -> "NotARegularFile"
      [] machine.script = "no x bit" -> "NotExecutable"
      [] machine.script = "fine" -> "runnable"

EnsureSudo(machine) == IF machine.sudo = "fine" THEN "runnable" ELSE "SudoUnavailable"

(* validate_run_as_user: "-i" stands for every name it refuses. *)
ValidUser(user) == user # "-i"

EnsureRunnable(user, machine) ==
    IF EffectiveUser(user) # "" /\ ~ValidUser(EffectiveUser(user)) THEN "InvalidRunAsUser"
    ELSE IF EffectiveUser(user) # "" /\ EnsureSudo(machine) # "runnable" THEN "SudoUnavailable"
    ELSE EnsureExecutable(machine)

-----------------------------------------------------------------------------
(* The two ways to a plan.                                                   *)

Refusal(why) == [status |-> 400, why |-> why, plan |-> Rejected]

(* run_hook_request and execute_hook up to the spawn, given whether a permit  *)
(* is free.                                                                   *)
Execute(user, template, declared, body, machine, free) ==
    LET map == ExtractParameterMap(body)
        resolved == ResolveParameters(declared, map.is)
        plan == BuildCommandPlan(user, template, resolved.is.values)
    IN  IF ~map.ok \/ ~resolved.ok THEN Refusal("input")
        ELSE IF resolved.is.missing # {} THEN Refusal("missing")
        ELSE IF EnsureRunnable(user, machine) # "runnable"
             THEN Refusal(EnsureRunnable(user, machine))
        ELSE IF ~free THEN [Refusal("busy") EXCEPT !.status = 429]
        ELSE IF ~plan.ok THEN Refusal("template")
        ELSE [status |-> 200, why |-> "spawn", plan |-> plan]

(* A mutant: the preview reports missing parameters but does not count them. *)
PreviewIgnoringMissing(user, template, declared, body, machine) ==
    LET map == ExtractParameterMap(body)
        resolved == ResolveParameters(declared, map.is)
        plan == BuildCommandPlan(user, template, resolved.is.values)
    IN  IF ~map.ok \/ ~resolved.ok THEN Refusal("input")
        ELSE [status |-> 200, plan |-> plan,
              why |-> IF ~plan.ok THEN "template"
                      ELSE IF EnsureRunnable(user, machine) # "runnable"
                           THEN EnsureRunnable(user, machine)
                      ELSE "spawn"]

(* test_hook: why is blocking_reason, "spawn" where would_execute is true. *)
TestHook(user, template, declared, body, machine) ==
    LET map == ExtractParameterMap(body)
        resolved == ResolveParameters(declared, map.is)
        plan == BuildCommandPlan(user, template, resolved.is.values)
    IN  IF ~map.ok \/ ~resolved.ok THEN Refusal("input")
        ELSE [status |-> 200, plan |-> plan,
              why |-> IF resolved.is.missing # {} THEN "missing"
                      ELSE IF ~plan.ok THEN "template"
                      ELSE IF EnsureRunnable(user, machine) # "runnable"
                           THEN EnsureRunnable(user, machine)
                      ELSE "spawn"]

-----------------------------------------------------------------------------
(* What a plan owes to its caller, said of the finished command.             *)

(* Every fragment of the argument vector is literal text or a permitted value *)
(* that the caller gave or the hook's contract defaults, every reference of   *)
(* the template has been replaced, and each value is in the environment under *)
(* its name unless a later parameter has the same name in upper case.         *)
Closed(template, declared, supplied, plan) ==
    /\ template # <<>> =>
          /\ Len(plan.args) = Len(template)
          /\ \A i \in DOMAIN template : \A j \in DOMAIN template[i] :
                LET out == plan.args[i][j]
                IN  IF template[i][j].kind = "text" THEN out.value = "text"
                    ELSE /\ out.key = template[i][j].name
                         /\ out.value \in {"scalar", "default"}
                         /\ \E d \in {declared[n] : n \in DOMAIN declared} :
                               d.key = out.key /\ out.value = ValueOf(d, supplied)
    /\ \A n \in DOMAIN declared :
          LET d == declared[n]
          IN  \/ ValueOf(d, supplied) = "none"
              \/ plan.env[Upper[d.key]] = [key |-> d.key, value |-> ValueOf(d, supplied)]
              \/ \E m \in DOMAIN declared : m > n /\ Upper[declared[m].key] = Upper[d.key]

(* For one hook, every body and every machine: the dry run says "would        *)
(* execute" exactly when an execution with a free permit spawns, and shows    *)
(* the very command it spawns; no refused execution is previewed as input the *)
(* caller got wrong unless it was; and what is spawned is closed, runs a file *)
(* inside the allowed roots, and never as a user sudo might take for a flag.  *)
DryRunAgrees(user, template, declared) ==
    \A body \in Bodies, machine \in Machines :
       LET run == Execute(user, template, declared, body, machine, TRUE)
           dry == TestHook(user, template, declared, body, machine)
       IN  /\ run.why = "spawn" <=> dry.why = "spawn"
           /\ run.why = "spawn" => dry.plan = run.plan
           /\ run.why = "input" <=> dry.status = 400
           /\ run.why = "missing" <=> dry.why = "missing"
           /\ run.why = "spawn" =>
                 /\ Closed(template, declared, ExtractParameterMap(body).is, run.plan.is)
                 /\ machine.script = "fine"
                 /\ EffectiveUser(user) # "" => ValidUser(user) /\ machine.sudo = "fine"
=============================================================================
