------------------------ MODULE HookRegistry_proofs ------------------------
(* Proofs about HookRegistry: its types, the audit of deletions, the secrets  *)
(* of HMAC_ONLY hooks, the purge that is never early, and that whatever the   *)
(* table comes to hold, the theorems of Invocation_proofs apply to it.        *)
EXTENDS HookRegistry, Invocation_proofs, FiniteSetTheorems

(* The rows of the two tables. *)
Row == [name : Names, mode : Modes, secret : {NoSecret, Seal("hook")}, template : AllTemplates,
        deletedAt : Int]
Bare(r) == [key |-> r.key, default |-> r.default, required |-> r.required]
ParamRow == [key : ParamKeys, default : {"none", "default", "forbidden"}, required : BOOLEAN,
             by : Int]

Rows ==
    /\ hooks \in [DOMAIN hooks -> Row]
    /\ DOMAIN hooks \subseteq Ids
    /\ \A i \in DOMAIN hooks : hooks[i].deletedAt \in 0..day \cup {Never}

(* A list of parameters as the endpoints may leave it. *)
Admissible(rows) ==
    /\ rows \in Seq(ParamRow)
    /\ \A n \in DOMAIN rows : Bare(rows[n]) \in AllAmended
    /\ Distinct(rows)

Lists ==
    /\ params \in [Ids -> Seq(ParamRow)]
    /\ \A i \in Ids : Admissible(params[i])

(* What a request in flight carries, by the statement it is about to run.     *)
Stages ==
    {"idle", "declare", "fit", "write", "trash", "drop", "restore", "insert", "amend", "remove",
     "audit", "resolve"}
Vetted(j) ==
    /\ j.pay \in Updates
    /\ j.row \in Row
    /\ SecretAccepted(EffectiveMode(j.pay, j.row), j.pay.secret, j.row.secret)
Carries(j) ==
    /\ j.at \in Stages
    /\ j.id \in Ids
    /\ j.at = "declare" => j.pay \in Seq(ParamRow) /\ \A n \in DOMAIN j.pay : Bare(j.pay[n]) \in AllDeclarations
    /\ j.at \in {"fit", "write"} => Vetted(j)
    /\ j.at \in {"insert", "amend"} => j.pay \in ParamRow /\ Bare(j.pay) \in AllDeclarations
    /\ j.at = "resolve" => j.pay \in 0..day

Jobs ==
    /\ job = [w \in Workers |-> job[w]]
    /\ \A w \in Workers : Carries(job[w])

(* A request audits at most once. *)
Busy == {w \in Workers : ~At(w, "idle")}
Counted == trail \in [Ids -> Nat] /\ \A i \in Ids : trail[i] + Cardinality(Busy) <= ops

(* A hook in the trash was not live after it went there, unless a             *)
(* delete_api_key dated it late.                                              *)
Trashing ==
    \A i \in Ids :
       liveOn[i] <= day /\ (Trashed(i) /\ i \notin late => liveOn[i] <= hooks[i].deletedAt)

Rest ==
    /\ ops \in 0..MaxOps
    /\ day \in Days
    /\ stuck \in BOOLEAN
    /\ runs \in [Ids -> SUBSET Days]
    /\ liveOn \in [Ids -> Days]
    /\ trashings \in [Ids -> Nat]
    /\ cascaded \in [Ids -> Nat]
    /\ late \subseteq Ids
    /\ cut \subseteq Ids
    /\ raced \subseteq Ids

IInv == Rest /\ Rows /\ Lists /\ Jobs /\ Counted /\ Trashing /\ DeletionsAudited /\ SecretKept

-----------------------------------------------------------------------------
(* Lists of parameters.                                                       *)

LEMMA DeclarationsTyped ==
    /\ AllDeclarations \subseteq Parameter
    /\ Declarations \subseteq AllDeclarations
    /\ \A p \in Creations : \A n \in DOMAIN p.params : p.params[n] \in AllDeclarations
    /\ \A p \in Creations : p.params \in Seq(Parameter)
    /\ AllDeclarations \subseteq AllAmended
<1>1. \A p \in Creations : p.params \in Seq(Parameter)
  BY RegistryAssumption DEF CreateHookPayload
<1>2. \A p \in Creations : \A n \in DOMAIN p.params : p.params[n] \in Parameter
  BY <1>1
<1>3. ASSUME NEW p \in Creations, NEW n \in DOMAIN p.params
      PROVE  p.params[n] \in AllDeclarations
  <2> DEFINE of(q) == {q.params[m] : m \in DOMAIN q.params}
  <2>1. p.params[n] \in of(p) /\ of(p) \in {of(q) : q \in Creations}
    BY Zenon
  <2>2. p.params[n] \in UNION {of(q) : q \in Creations}
    BY <2>1, Zenon
  <2> QED BY <2>2, Zenon DEF AllDeclarations
<1>4. AllDeclarations \subseteq Parameter
  <2> SUFFICES ASSUME NEW d \in AllDeclarations PROVE d \in Parameter
    OBVIOUS
  <2>1. d \in Declarations \/ \E p \in Creations : \E n \in DOMAIN p.params : d = p.params[n]
    BY Zenon DEF AllDeclarations
  <2> QED BY <1>2, <2>1, RegistryAssumption
<1>5. AllDeclarations \subseteq AllAmended
  BY <1>4 DEF AllAmended
<1>6. Declarations \subseteq AllDeclarations
  BY DEF AllDeclarations
<1> QED BY <1>1, <1>3, <1>4, <1>5, <1>6

LEMMA DeclareTyped ==
    ASSUME NEW d \in Parameter, NEW n \in Int
    PROVE  /\ Declare(d, n) \in ParamRow
           /\ Declare(d, n).key = d.key
           /\ Bare(Declare(d, n)) = d
BY DEF Declare, ParamRow, Parameter, Bare

LEMMA EmptyAdmissible == Admissible(<<>>)
BY DEF Admissible, Distinct

LEMMA DeclaredTyped ==
    ASSUME NEW ds \in Seq(Parameter), \A n \in DOMAIN ds : ds[n] \in AllDeclarations, NEW by \in Int
    PROVE  /\ Declared(ds, by) \in Seq(ParamRow)
           /\ \A n \in DOMAIN Declared(ds, by) : Bare(Declared(ds, by)[n]) \in AllDeclarations
           /\ Distinct(ds) => Admissible(Declared(ds, by))
<1>1. \A n \in DOMAIN ds : /\ Declare(ds[n], by) \in ParamRow
                           /\ Declare(ds[n], by).key = ds[n].key
                           /\ Bare(Declare(ds[n], by)) = ds[n]
  BY DeclareTyped
<1>2. DOMAIN ds = 1..Len(ds) /\ Len(ds) \in Nat
  OBVIOUS
<1>3. PICK out : out = Declared(ds, by)
  OBVIOUS
<1>4. DOMAIN out = DOMAIN ds /\ \A n \in DOMAIN ds : out[n] = Declare(ds[n], by)
  BY <1>3 DEF Declared
<1>5. out \in Seq(ParamRow)
  <2>1. out \in [1..Len(ds) -> ParamRow]
    BY <1>1, <1>2, <1>3 DEF Declared
  <2> QED BY <1>2, <2>1
<1>6. \A n \in DOMAIN out : Bare(out[n]) \in AllDeclarations
  BY <1>1, <1>4
<1>7. Distinct(ds) => Distinct(out)
  BY <1>1, <1>4 DEF Distinct
<1> QED BY <1>3, <1>5, <1>6, <1>7, DeclarationsTyped DEF Admissible

LEMMA AppendAdmissible ==
    ASSUME NEW rows, Admissible(rows), NEW r \in ParamRow, Bare(r) \in AllAmended,
           r.key \notin KeysOf(rows)
    PROVE  Admissible(Append(rows, r))
<1>1. rows \in Seq(ParamRow)
  BY DEF Admissible
<1>2. PICK out : out = Append(rows, r)
  OBVIOUS
<1>3. /\ out \in Seq(ParamRow)
      /\ DOMAIN out = DOMAIN rows \cup {Len(rows) + 1}
      /\ \A n \in DOMAIN rows : out[n] = rows[n]
      /\ out[Len(rows) + 1] = r
  BY <1>1, <1>2
<1>4. \A n \in DOMAIN rows : rows[n].key # r.key
  BY DEF KeysOf
<1>5. \A n \in DOMAIN out : Bare(out[n]) \in AllAmended
  BY <1>3 DEF Admissible
<1>6. Distinct(out)
  BY <1>3, <1>4 DEF Distinct, Admissible
<1> QED BY <1>2, <1>3, <1>5, <1>6 DEF Admissible

(* Keys are what make the rows of a list distinct. *)
LEMMA AmendAdmissible ==
    ASSUME NEW rows, Admissible(rows), NEW p \in ParamRow, Bare(p) \in AllDeclarations
    PROVE  Admissible([n \in DOMAIN rows |->
                          IF IsRow(rows[n], p) THEN Amended(rows[n], p) ELSE rows[n]])
<1>1. rows \in Seq(ParamRow) /\ DOMAIN rows = 1..Len(rows) /\ Len(rows) \in Nat
  BY DEF Admissible
<1>2. ASSUME NEW r \in ParamRow, Bare(r) \in AllAmended, IsRow(r, p)
      PROVE  /\ Amended(r, p) \in ParamRow
             /\ Amended(r, p).key = r.key
             /\ Bare(Amended(r, p)) \in AllAmended
  <2>1. PICK d, e \in AllDeclarations :
           d.key = r.key /\ e.key = r.key /\ d.default = r.default /\ e.required = r.required
    BY <1>2 DEF AllAmended, Bare
  <2>2. PICK c : c = Bare(p)
    OBVIOUS
  <2>3. /\ c \in AllDeclarations
        /\ c.key = r.key /\ c.default = p.default /\ c.required = p.required
    BY <1>2, <2>2 DEF IsRow, Bare
  <2>4. PICK a : a = Amended(r, p)
    OBVIOUS
  <2>5. /\ a \in ParamRow /\ a.key = r.key /\ a.required = p.required
        /\ a.default = IF p.default = "none" THEN r.default ELSE p.default
    BY <2>4 DEF Amended, ParamRow
  <2>6. /\ Bare(a) \in Parameter
        /\ Bare(a).key = a.key /\ Bare(a).default = a.default /\ Bare(a).required = a.required
    BY <2>5 DEF Bare, ParamRow, Parameter
  <2>7. \E x, y \in AllDeclarations :
           x.key = Bare(a).key /\ y.key = Bare(a).key /\ x.default = Bare(a).default
           /\ y.required = Bare(a).required
    BY <2>1, <2>3, <2>5, <2>6
  <2> QED BY <2>4, <2>5, <2>6, <2>7 DEF AllAmended
<1>3. PICK out : out = [n \in DOMAIN rows |->
                          IF IsRow(rows[n], p) THEN Amended(rows[n], p) ELSE rows[n]]
  OBVIOUS
<1>4. \A n \in DOMAIN rows :
         out[n] \in ParamRow /\ out[n].key = rows[n].key /\ Bare(out[n]) \in AllAmended
  BY <1>1, <1>2, <1>3 DEF Admissible
<1>5. DOMAIN out = DOMAIN rows
  BY <1>3
<1>6. out \in Seq(ParamRow)
  <2>1. out \in [1..Len(rows) -> ParamRow]
    BY <1>1, <1>3, <1>4
  <2> QED BY <1>1, <2>1
<1>7. Distinct(out)
  BY <1>4, <1>5 DEF Distinct, Admissible
<1> QED BY <1>3, <1>4, <1>5, <1>6, <1>7 DEF Admissible

(* A sequence without its n-th element. *)
LEMMA Joined ==
    ASSUME NEW S, NEW rows \in Seq(S), NEW n \in 1..Len(rows),
           NEW a \in Seq(S), Len(a) = n - 1, \A i \in 1..(n - 1) : a[i] = rows[i],
           NEW b \in Seq(S), Len(b) = Len(rows) - n,
           \A i \in 1..(Len(rows) - n) : b[i] = rows[n + i]
    PROVE  /\ a \o b \in Seq(S)
           /\ Len(a \o b) = Len(rows) - 1
           /\ \A i \in 1..(Len(rows) - 1) : (a \o b)[i] = IF i < n THEN rows[i] ELSE rows[i + 1]
<1>1. PICK out : out = a \o b
  OBVIOUS
<1>2. out \in Seq(S) /\ Len(out) = Len(rows) - 1
  BY <1>1
<1>3. ASSUME NEW i \in 1..(Len(rows) - 1), i < n PROVE out[i] = rows[i]
  BY <1>1, <1>3
<1>4. ASSUME NEW i \in 1..(Len(rows) - 1), ~(i < n) PROVE out[i] = rows[i + 1]
  <2>1. PICK m \in 1..(Len(rows) - n) : m = i - (n - 1)
    BY <1>4
  <2>2. i \in 1..(Len(a) + Len(b)) /\ ~(i <= Len(a)) /\ i - Len(a) = m
    BY <1>4, <2>1
  <2>3. (a \o b)[i] = b[i - Len(a)]
    BY <2>2, ConcatProperties
  <2>4. b[m] = rows[n + m] /\ n + m = i + 1
    BY <2>1
  <2> QED BY <1>1, <2>2, <2>3, <2>4
<1> QED BY <1>1, <1>2, <1>3, <1>4

LEMMA Cut ==
    ASSUME NEW S, NEW rows \in Seq(S), NEW n \in 1..Len(rows)
    PROVE  LET out == SubSeq(rows, 1, n - 1) \o SubSeq(rows, n + 1, Len(rows))
           IN  /\ out \in Seq(S)
               /\ Len(out) = Len(rows) - 1
               /\ \A i \in 1..(Len(rows) - 1) : out[i] = IF i < n THEN rows[i] ELSE rows[i + 1]
<1>1. PICK a : a = SubSeq(rows, 1, n - 1)
  OBVIOUS
<1>2. PICK b : b = SubSeq(rows, n + 1, Len(rows))
  OBVIOUS
<1>3. a \in Seq(S) /\ Len(a) = n - 1 /\ \A i \in 1..(n - 1) : a[i] = rows[i]
  BY <1>1
<1>4. /\ b \in Seq(S) /\ Len(b) = Len(rows) - n
      /\ \A i \in 1..(Len(rows) - n) : b[i] = rows[n + i]
  BY <1>2
<1>5. /\ a \o b \in Seq(S)
      /\ Len(a \o b) = Len(rows) - 1
      /\ \A i \in 1..(Len(rows) - 1) : (a \o b)[i] = IF i < n THEN rows[i] ELSE rows[i + 1]
  BY <1>3, <1>4, Joined
<1> QED BY <1>1, <1>2, <1>5, Zenon

LEMMA OthersAdmissible ==
    ASSUME NEW rows, Admissible(rows), NEW p
    PROVE  Admissible(Others(rows, p))
<1>1. rows \in Seq(ParamRow) /\ DOMAIN rows = 1..Len(rows) /\ Len(rows) \in Nat
  BY DEF Admissible
<1>2. CASE \A n \in DOMAIN rows : ~IsRow(rows[n], p)
  BY <1>2 DEF Others
<1>3. CASE ~\A n \in DOMAIN rows : ~IsRow(rows[n], p)
  <2>1. PICK n : n = CHOOSE m \in DOMAIN rows : IsRow(rows[m], p)
    OBVIOUS
  <2>2. n \in 1..Len(rows)
    BY <1>1, <1>3, <2>1
  <2>3. PICK out : out = SubSeq(rows, 1, n - 1) \o SubSeq(rows, n + 1, Len(rows))
    OBVIOUS
  <2>4. Others(rows, p) = out
    BY <1>3, <2>1, <2>3, Zenon DEF Others
  <2>5. /\ out \in Seq(ParamRow)
        /\ Len(out) = Len(rows) - 1
        /\ \A i \in 1..(Len(rows) - 1) : out[i] = IF i < n THEN rows[i] ELSE rows[i + 1]
    BY <1>1, <2>2, <2>3, Cut
  <2>7. /\ DOMAIN out = 1..(Len(rows) - 1)
        /\ \A i \in DOMAIN out : out[i] = IF i < n THEN rows[i] ELSE rows[i + 1]
    BY <2>5
  <2>8. \A i \in DOMAIN out : \E m \in DOMAIN rows :
           out[i] = rows[m] /\ m = IF i < n THEN i ELSE i + 1
    BY <1>1, <2>2, <2>7
  <2>9. Distinct(out)
    BY <1>1, <2>2, <2>7, <2>8 DEF Distinct, Admissible
  <2> QED BY <2>4, <2>5, <2>8, <2>9 DEF Admissible
<1> QED BY <1>2, <1>3

-----------------------------------------------------------------------------
(* Requests in flight.                                                        *)

Types == Rest /\ Rows /\ Lists /\ Jobs

LEMMA Bounds == MaxOps \in Nat /\ MaxDay \in Nat /\ 0 \in Ids /\ Ids \subseteq Nat /\ Days \subseteq Nat
BY RegistryAssumption DEF Ids, Days

LEMMA IdleCarries == Carries(Idle) /\ Idle.at = "idle" /\ Idle.id = 0
BY Bounds DEF Carries, Idle, Stages

(* A request that waits at p, for a p that asks nothing of what it carries. *)
LEMMA PlainCarries ==
    ASSUME NEW p \in {"trash", "drop", "restore", "remove", "audit"}, NEW id \in Ids, NEW row, NEW pay
    PROVE  Carries([at |-> p, id |-> id, row |-> row, pay |-> pay])
BY DEF Carries, Stages

LEMMA ResolveCarries ==
    ASSUME NEW id \in Ids, NEW row, NEW pay \in 0..day
    PROVE  Carries([at |-> "resolve", id |-> id, row |-> row, pay |-> pay])
BY DEF Carries, Stages

(* What a request carries is as good the next day. *)
LEMMA CarriesOn ==
    ASSUME NEW j, Carries(j), day \in Nat, day' \in Nat, day <= day'
    PROVE  Carries(j)'
BY DEF Carries, Vetted

LEMMA DeclareCarries ==
    ASSUME NEW id \in Ids, NEW row, NEW pay \in Seq(ParamRow),
           \A n \in DOMAIN pay : Bare(pay[n]) \in AllDeclarations
    PROVE  Carries([at |-> "declare", id |-> id, row |-> row, pay |-> pay])
BY DEF Carries, Stages

LEMMA UpdateCarries ==
    ASSUME NEW p \in {"fit", "write"}, NEW id \in Ids, NEW row \in Row, NEW pay \in Updates,
           SecretAccepted(EffectiveMode(pay, row), pay.secret, row.secret)
    PROVE  Carries([at |-> p, id |-> id, row |-> row, pay |-> pay])
BY DEF Carries, Stages, Vetted

LEMMA ParameterCarries ==
    ASSUME NEW p \in {"insert", "amend"}, NEW id \in Ids, NEW row, NEW pay \in ParamRow,
           Bare(pay) \in AllDeclarations
    PROVE  Carries([at |-> p, id |-> id, row |-> row, pay |-> pay])
BY DEF Carries, Stages

(* The four kinds of step of a request, by what they mean for the audit.      *)
Turns(w, j) == job' = [job EXCEPT ![w] = j]
Paid(w) == \/ ~At(w, "idle") /\ ops' = ops
           \/ ops < MaxOps /\ ops' = ops + 1
Quiet(w, j) == ~At(w, "audit") /\ j.at # "audit" /\ trail' = trail /\ Paid(w)
Wins(w, j) ==
    /\ At(w, "trash") /\ Live(job[w].id)
    /\ j.at = "audit" /\ j.id = job[w].id
    /\ hooks' = [hooks EXCEPT ![job[w].id].deletedAt = day]
    /\ trail' = trail /\ ops' = ops
Step(w, j) == Carries(j) /\ Turns(w, j) /\ (Quiet(w, j) \/ Wins(w, j) \/ (Audit(w) /\ j = Idle)
                                             \/ (Abandon(w) /\ j = Idle))

LEMMA CarriedRow ==
    ASSUME Jobs, NEW w \in Workers PROVE Carries(job[w]) /\ job[w].id \in Ids
BY DEF Jobs, Carries

LEMMA HeldRow ==
    ASSUME Rows, NEW i \in DOMAIN hooks PROVE hooks[i] \in Row /\ i \in Ids
BY DEF Rows

LEMMA CreateSteps ==
    ASSUME Types, NEW w \in Workers, NEW p \in Creations, CreateHook(w, p)
    PROVE  \E j : Step(w, j)
<1> DEFINE pay == Declared(p.params, ops + 1)
           j == [at |-> "declare", id |-> ops + 1, row |-> NoRow, pay |-> pay]
<1>1. ops \in 0..MaxOps /\ ops < MaxOps /\ At(w, "idle") /\ ops' = ops + 1
  BY DEF Types, Rest, CreateHook, Begin
<1>2. ops + 1 \in Ids /\ ops + 1 \in Int
  BY <1>1, Bounds DEF Ids
<1>3. pay \in Seq(ParamRow) /\ \A n \in DOMAIN pay : Bare(pay[n]) \in AllDeclarations
  BY <1>2, DeclarationsTyped, DeclaredTyped
<1>4. Carries(j)
  BY <1>2, <1>3, DeclareCarries
<1>5. Turns(w, j) /\ trail' = trail
  BY DEF CreateHook, Start, Hold, Turns
<1>6. j.at # "audit" /\ ~At(w, "audit")
  BY <1>1 DEF At
<1>7. Quiet(w, j)
  BY <1>1, <1>5, <1>6 DEF Quiet, Paid
<1> QED BY <1>4, <1>5, <1>7 DEF Step

LEMMA DeclareSteps ==
    ASSUME Types, NEW w \in Workers, DeclareNext(w)
    PROVE  \E j : Step(w, j)
<1>1. At(w, "declare") /\ trail' = trail /\ ops' = ops
  BY DEF DeclareNext
<1>2. ~At(w, "audit") /\ Paid(w)
  BY <1>1 DEF At, Paid
<1>3. CASE job[w].id \notin DOMAIN hooks \/ job[w].pay = <<>>
           \/ Head(job[w].pay).key \in KeysOf(params[job[w].id])
  <2>1. Turns(w, Idle)
    BY <1>3 DEF DeclareNext, Finish, Turns
  <2>2. Quiet(w, Idle)
    BY <1>1, <1>2, IdleCarries DEF Quiet
  <2> QED BY <2>1, <2>2, IdleCarries DEF Step
<1>4. CASE ~(job[w].id \notin DOMAIN hooks \/ job[w].pay = <<>>
             \/ Head(job[w].pay).key \in KeysOf(params[job[w].id]))
  <2>1. PICK left : left = job[w].pay
    OBVIOUS
  <2>2. left \in Seq(ParamRow) /\ \A n \in DOMAIN left : Bare(left[n]) \in AllDeclarations
    BY <1>1, <2>1, CarriedRow DEF Types, Carries, At
  <2>3. PICK rest : rest = Tail(left)
    OBVIOUS
  <2>4. /\ rest \in Seq(ParamRow)
        /\ \A n \in DOMAIN rest : n + 1 \in DOMAIN left /\ rest[n] = left[n + 1]
    BY <1>4, <2>1, <2>2, <2>3
  <2>5. PICK j : j = [at |-> "declare", id |-> job[w].id, row |-> job[w].row, pay |-> rest]
    OBVIOUS
  <2>6. Carries(j)
    BY <2>2, <2>4, <2>5, CarriedRow, DeclareCarries DEF Types
  <2>7. Turns(w, j)
    BY <1>4, <2>1, <2>3, <2>5 DEF DeclareNext, Hold, Turns
  <2>8. Quiet(w, j)
    BY <1>1, <1>2, <2>5 DEF Quiet
  <2> QED BY <2>6, <2>7, <2>8 DEF Step
<1> QED BY <1>3, <1>4

LEMMA UpdateSteps ==
    ASSUME Types, NEW w \in Workers,
           (\E p \in Updates : ReadForUpdate(w, p)) \/ FitTemplate(w) \/ WriteUpdate(w)
    PROVE  \E j : Step(w, j)
<1>1. ASSUME NEW p \in Updates, ReadForUpdate(w, p) PROVE \E j : Step(w, j)
  <2>1. PICK id \in DOMAIN hooks :
           /\ Begin(w)
           /\ SecretAccepted(EffectiveMode(p, hooks[id]), p.secret, hooks[id].secret)
           /\ Hold(w, "fit", id, hooks[id], p)
           /\ trail' = trail
    BY <1>1 DEF ReadForUpdate
  <2>2. PICK row : row = hooks[id]
    OBVIOUS
  <2>3. row \in Row /\ id \in Ids
    BY <2>2, HeldRow DEF Types
  <2>4. PICK j : j = [at |-> "fit", id |-> id, row |-> row, pay |-> p]
    OBVIOUS
  <2>5. Carries(j)
    BY <2>1, <2>2, <2>3, <2>4, UpdateCarries
  <2>6. Turns(w, j)
    BY <2>1, <2>2, <2>4 DEF Hold, Turns
  <2>7. Quiet(w, j)
    BY <2>1, <2>4 DEF Quiet, Begin, At, Paid
  <2> QED BY <2>5, <2>6, <2>7 DEF Step
<1>2. CASE FitTemplate(w)
  <2>1. At(w, "fit") /\ trail' = trail /\ ops' = ops
    BY <1>2 DEF FitTemplate
  <2>2. PICK j : j = [at |-> "write", id |-> job[w].id, row |-> job[w].row, pay |-> job[w].pay]
    OBVIOUS
  <2>3. Carries(j)
    BY <2>1, <2>2, CarriedRow, UpdateCarries DEF Types, Carries, Vetted, At
  <2>4. Turns(w, j) \/ Turns(w, Idle)
    BY <1>2, <2>2 DEF FitTemplate, Hold, Finish, Turns
  <2>5. Quiet(w, j) /\ Quiet(w, Idle)
    BY <2>1, <2>2, IdleCarries DEF Quiet, At, Paid
  <2> QED BY <2>3, <2>4, <2>5, IdleCarries DEF Step
<1>3. CASE WriteUpdate(w)
  <2>1. At(w, "write") /\ trail' = trail /\ ops' = ops /\ Turns(w, Idle)
    BY <1>3 DEF WriteUpdate, Finish, Turns
  <2>2. Quiet(w, Idle)
    BY <2>1, IdleCarries DEF Quiet, At, Paid
  <2> QED BY <2>1, <2>2, IdleCarries DEF Step
<1> QED BY <1>1, <1>2, <1>3

LEMMA DeleteSteps ==
    ASSUME Types, NEW w \in Workers,
           ReadForDelete(w) \/ Trash(w) \/ ReadForHardDelete(w) \/ Drop(w) \/ ReadForRestore(w)
           \/ Restore(w) \/ ReadForRemove(w) \/ DeleteParameter(w) \/ ReadForResolve(w) \/ Resolve(w)
    PROVE  \E j : Step(w, j)
<1>1. ASSUME NEW p \in {"trash", "drop", "restore", "remove"}, NEW id \in DOMAIN hooks, NEW pay,
             Begin(w), Start(w, p, id, pay), trail' = trail
      PROVE  \E j : Step(w, j)
  <2>1. PICK j : j = [at |-> p, id |-> id, row |-> NoRow, pay |-> pay]
    OBVIOUS
  <2>2. Carries(j)
    BY <2>1, HeldRow, PlainCarries DEF Types
  <2>3. Turns(w, j)
    BY <1>1, <2>1 DEF Start, Hold, Turns
  <2>4. Quiet(w, j)
    BY <1>1, <2>1 DEF Quiet, Begin, At, Paid
  <2> QED BY <2>2, <2>3, <2>4 DEF Step
<1>2. ASSUME NEW p \in {"trash", "drop", "restore", "remove", "resolve"}, At(w, p), Finish(w), trail' = trail,
             ops' = ops
      PROVE  \E j : Step(w, j)
  <2>1. Turns(w, Idle)
    BY <1>2 DEF Finish, Turns
  <2>2. Quiet(w, Idle)
    BY <1>2, IdleCarries DEF Quiet, At, Paid
  <2> QED BY <2>1, <2>2, IdleCarries DEF Step
<1>3. CASE ReadForDelete(w)
  BY <1>1, <1>3 DEF ReadForDelete
<1>4. CASE Trash(w)
  <2>1. CASE Live(job[w].id)
    <3>1. PICK j : j = [at |-> "audit", id |-> job[w].id, row |-> NoRow, pay |-> <<>>]
      OBVIOUS
    <3>2. Carries(j)
      BY <3>1, CarriedRow, PlainCarries DEF Types
    <3>3. Turns(w, j)
      BY <1>4, <2>1, <3>1 DEF Trash, Start, Hold, Turns
    <3>4. Wins(w, j)
      BY <1>4, <2>1, <3>1 DEF Trash, Wins
    <3> QED BY <3>2, <3>3, <3>4 DEF Step
  <2>2. CASE ~Live(job[w].id)
    BY <1>2, <1>4, <2>2 DEF Trash
  <2> QED BY <2>1, <2>2
<1>5. CASE ReadForHardDelete(w)
  BY <1>1, <1>5 DEF ReadForHardDelete
<1>6. CASE Drop(w)
  BY <1>2, <1>6 DEF Drop
<1>7. CASE ReadForRestore(w)
  BY <1>1, <1>7 DEF ReadForRestore
<1>8. CASE Restore(w)
  BY <1>2, <1>8 DEF Restore
<1>9. CASE ReadForRemove(w)
  BY <1>1, <1>9 DEF ReadForRemove
<1>10. CASE DeleteParameter(w)
  BY <1>2, <1>10 DEF DeleteParameter
<1>11. CASE ReadForResolve(w)
  <2>1. PICK id \in DOMAIN hooks : Begin(w) /\ Start(w, "resolve", id, day) /\ trail' = trail
    BY <1>11 DEF ReadForResolve
  <2>2. PICK now : now = day
    OBVIOUS
  <2>3. now \in 0..day
    BY <2>2, Bounds DEF Types, Rest
  <2>4. PICK j : j = [at |-> "resolve", id |-> id, row |-> NoRow, pay |-> now]
    OBVIOUS
  <2>5. Carries(j)
    BY <2>3, <2>4, HeldRow, ResolveCarries DEF Types
  <2>6. Turns(w, j)
    BY <2>1, <2>2, <2>4 DEF Start, Hold, Turns
  <2>7. Quiet(w, j)
    BY <2>1, <2>4 DEF Quiet, Begin, At, Paid
  <2> QED BY <2>5, <2>6, <2>7 DEF Step
<1>12. CASE Resolve(w)
  BY <1>2, <1>12 DEF Resolve
<1> QED BY <1>3, <1>4, <1>5, <1>6, <1>7, <1>8, <1>9, <1>10, <1>11, <1>12

LEMMA ParameterSteps ==
    ASSUME Types, NEW w \in Workers,
           (\E d \in Declarations : ReadForInsert(w, d) \/ ReadForAmend(w, d))
           \/ InsertParameter(w) \/ UpdateParameter(w)
    PROVE  \E j : Step(w, j)
<1>1. ASSUME NEW p \in {"insert", "amend"}, NEW id \in DOMAIN hooks, NEW d \in Declarations,
             NEW by \in Int, Begin(w), Start(w, p, id, Declare(d, by)), trail' = trail
      PROVE  \E j : Step(w, j)
  <2>1. PICK pay : pay = Declare(d, by)
    OBVIOUS
  <2>2. d \in AllDeclarations /\ d \in Parameter
    BY DeclarationsTyped
  <2>3. pay \in ParamRow /\ Bare(pay) \in AllDeclarations
    BY <2>1, <2>2, DeclareTyped
  <2>4. PICK j : j = [at |-> p, id |-> id, row |-> NoRow, pay |-> pay]
    OBVIOUS
  <2>5. Carries(j)
    BY <2>3, <2>4, HeldRow, ParameterCarries DEF Types
  <2>6. Turns(w, j)
    BY <1>1, <2>1, <2>4 DEF Start, Hold, Turns
  <2>7. Quiet(w, j)
    BY <1>1, <2>4 DEF Quiet, Begin, At, Paid
  <2> QED BY <2>5, <2>6, <2>7 DEF Step
<1>2. ASSUME NEW d \in Declarations, ReadForInsert(w, d) PROVE \E j : Step(w, j)
  <2>1. ops + 1 \in Int
    BY DEF Types, Rest
  <2> QED BY <1>1, <1>2, <2>1 DEF ReadForInsert
<1>3. ASSUME NEW d \in Declarations, ReadForAmend(w, d) PROVE \E j : Step(w, j)
  <2>0. PICK id \in DOMAIN hooks : \E n \in DOMAIN params[id] :
           Begin(w) /\ Start(w, "amend", id, Declare(d, params[id][n].by)) /\ trail' = trail
    BY <1>3 DEF ReadForAmend
  <2>1. PICK n \in DOMAIN params[id] :
           Begin(w) /\ Start(w, "amend", id, Declare(d, params[id][n].by)) /\ trail' = trail
    BY <2>0
  <2>2. params[id] \in Seq(ParamRow)
    BY HeldRow DEF Types, Lists
  <2>3. params[id][n].by \in Int
    <3>1. params[id][n] \in ParamRow
      BY <2>2
    <3>2. \A r \in ParamRow : r.by \in Int
      BY DEF ParamRow
    <3> QED BY <3>1, <3>2
  <2> QED BY <1>1, <2>1, <2>3
<1>4. CASE InsertParameter(w) \/ UpdateParameter(w)
  <2>1. (At(w, "insert") \/ At(w, "amend")) /\ Turns(w, Idle) /\ trail' = trail /\ ops' = ops
    BY <1>4 DEF InsertParameter, UpdateParameter, Finish, Turns
  <2>2. Quiet(w, Idle)
    BY <2>1, IdleCarries DEF Quiet, At, Paid
  <2> QED BY <2>1, <2>2, IdleCarries DEF Step
<1> QED BY <1>2, <1>3, <1>4

LEMMA OtherSteps ==
    ASSUME Types, NEW w \in Workers, Purge(w) \/ Audit(w) \/ Abandon(w)
    PROVE  \E j : Step(w, j)
<1>1. CASE Purge(w)
  <2>1. Begin(w) /\ job' = job /\ trail' = trail
    BY <1>1 DEF Purge
  <2>2. PICK j : j = job[w]
    OBVIOUS
  <2>3. Turns(w, j)
    <3>1. job = [v \in Workers |-> job[v]]
      BY DEF Types, Jobs
    <3> QED BY <2>1, <2>2, <3>1 DEF Turns
  <2>4. Quiet(w, j)
    BY <2>1, <2>2 DEF Quiet, Begin, At, Paid
  <2> QED BY <2>2, <2>3, <2>4, CarriedRow DEF Step, Types
<1>2. CASE Audit(w)
  BY <1>2, IdleCarries DEF Audit, Finish, Turns, Step
<1>3. CASE Abandon(w)
  BY <1>3, IdleCarries DEF Abandon, Finish, Turns, Step
<1> QED BY <1>1, <1>2, <1>3

(* Every step of a request is of one of the four kinds. *)
LEMMA HandlerSteps ==
    ASSUME Types, NEW w \in Workers, Handler(w)
    PROVE  \E j : Step(w, j)
BY CreateSteps, DeclareSteps, UpdateSteps, DeleteSteps, ParameterSteps, OtherSteps DEF Handler

LEMMA Turned ==
    ASSUME Jobs, NEW w \in Workers, NEW j, Turns(w, j)
    PROVE  /\ job'[w] = j
           /\ \A v \in Workers : v # w => job'[v] = job[v]
           /\ job' = [v \in Workers |-> job'[v]]
<1>1. job = [v \in Workers |-> job[v]]
  BY DEF Jobs
<1>2. job' = [v \in Workers |-> IF v = w THEN j ELSE job[v]]
  BY <1>1 DEF Turns
<1> QED BY <1>2

-----------------------------------------------------------------------------
(* The rows of hooks.                                                         *)

(* The ways in which a request changes the hooks table. *)
LEMMA Keeps ==
    ASSUME NEW w \in Workers, Handler(w)
    PROVE  \/ hooks' = hooks
           \/ \E p \in Creations : CreateHook(w, p)
           \/ WriteUpdate(w)
           \/ Trash(w) /\ Live(job[w].id)
           \/ Restore(w) /\ job[w].id \in DOMAIN hooks
           \/ Resolve(w) /\ job[w].id \in DOMAIN hooks
           \/ Drop(w)
           \/ Purge(w)
<1>1. Trash(w) /\ ~Live(job[w].id) => hooks' = hooks
  BY DEF Trash
<1>2. /\ Restore(w) /\ job[w].id \notin DOMAIN hooks => hooks' = hooks
      /\ Resolve(w) /\ job[w].id \notin DOMAIN hooks => hooks' = hooks
  BY DEF Restore, Resolve
<1>3. /\ DeclareNext(w) => hooks' = hooks
      /\ (\E p \in Updates : ReadForUpdate(w, p)) => hooks' = hooks
      /\ FitTemplate(w) => hooks' = hooks
      /\ ReadForDelete(w) => hooks' = hooks
      /\ ReadForHardDelete(w) => hooks' = hooks
      /\ ReadForRestore(w) => hooks' = hooks
      /\ ReadForResolve(w) => hooks' = hooks
  BY DEF DeclareNext, ReadForUpdate, FitTemplate, ReadForDelete, ReadForHardDelete,
         ReadForRestore, ReadForResolve, tables
<1>4. /\ (\E d \in Declarations : ReadForInsert(w, d)) => hooks' = hooks
      /\ InsertParameter(w) => hooks' = hooks
      /\ (\E d \in Declarations : ReadForAmend(w, d)) => hooks' = hooks
      /\ UpdateParameter(w) => hooks' = hooks
      /\ ReadForRemove(w) => hooks' = hooks
      /\ DeleteParameter(w) => hooks' = hooks
      /\ Audit(w) => hooks' = hooks
      /\ Abandon(w) => hooks' = hooks
  BY DEF ReadForInsert, InsertParameter, ReadForAmend, UpdateParameter, ReadForRemove,
         DeleteParameter, Audit, Abandon, tables
<1> QED BY <1>1, <1>2, <1>3, <1>4, Zenon DEF Handler

LEMMA HookEffects ==
    ASSUME NEW w \in Workers, Handler(w)
    PROVE  \/ hooks' = hooks
           \/ \E p \in Creations : CreateHook(w, p)
           \/ WriteUpdate(w)
           \/ Trash(w) /\ Live(job[w].id)
           \/ Restore(w) /\ job[w].id \in DOMAIN hooks
           \/ Resolve(w) /\ job[w].id \in DOMAIN hooks
           \/ ~At(w, "write") /\ \E ids : hooks' = Without(ids)
<1>1. Drop(w) => ~At(w, "write") /\ \E ids : hooks' = Without(ids)
  BY DEF Drop, Remove, At
<1>2. Purge(w) => ~At(w, "write") /\ \E ids : hooks' = Without(ids)
  BY DEF Purge, Remove, Begin, At
<1> QED BY <1>1, <1>2, Keeps, Zenon

LEMMA HandlerDay == ASSUME NEW w \in Workers, Handler(w) PROVE day' = day /\ stuck' = stuck
<1>1. /\ (\E p \in Creations : CreateHook(w, p)) => day' = day /\ stuck' = stuck
      /\ DeclareNext(w) => day' = day /\ stuck' = stuck
      /\ (\E p \in Updates : ReadForUpdate(w, p)) => day' = day /\ stuck' = stuck
      /\ FitTemplate(w) => day' = day /\ stuck' = stuck
      /\ WriteUpdate(w) => day' = day /\ stuck' = stuck
      /\ ReadForDelete(w) => day' = day /\ stuck' = stuck
      /\ Trash(w) => day' = day /\ stuck' = stuck
      /\ ReadForHardDelete(w) => day' = day /\ stuck' = stuck
      /\ Drop(w) => day' = day /\ stuck' = stuck
      /\ ReadForRestore(w) => day' = day /\ stuck' = stuck
      /\ Restore(w) => day' = day /\ stuck' = stuck
      /\ ReadForResolve(w) => day' = day /\ stuck' = stuck
      /\ Resolve(w) => day' = day /\ stuck' = stuck
  BY DEF CreateHook, DeclareNext, ReadForUpdate, FitTemplate, WriteUpdate, ReadForDelete, Trash,
         ReadForHardDelete, Drop, ReadForRestore, Restore, ReadForResolve, Resolve
<1>2. /\ (\E d \in Declarations : ReadForInsert(w, d)) => day' = day /\ stuck' = stuck
      /\ InsertParameter(w) => day' = day /\ stuck' = stuck
      /\ (\E d \in Declarations : ReadForAmend(w, d)) => day' = day /\ stuck' = stuck
      /\ UpdateParameter(w) => day' = day /\ stuck' = stuck
      /\ ReadForRemove(w) => day' = day /\ stuck' = stuck
      /\ DeleteParameter(w) => day' = day /\ stuck' = stuck
      /\ Purge(w) => day' = day /\ stuck' = stuck
      /\ Audit(w) => day' = day /\ stuck' = stuck
      /\ Abandon(w) => day' = day /\ stuck' = stuck
  BY DEF ReadForInsert, InsertParameter, ReadForAmend, UpdateParameter, ReadForRemove,
         DeleteParameter, Purge, Audit, Abandon
<1> QED BY <1>1, <1>2, Zenon DEF Handler

LEMMA Stored ==
    ASSUME NEW sent \in SecretFields, NEW existing \in {NoSecret, Seal("hook")}
    PROVE  SecretStored(sent, existing) \in {NoSecret, Seal("hook")}
BY DEF SecretFields, SecretStored

LEMMA CreatedRow ==
    ASSUME NEW p \in Creations, NEW d \in Int
    PROVE  RowOf(p, d) \in Row /\ RowOf(p, d).deletedAt = d
<1>1. p \in CreateHookPayload
  BY RegistryAssumption
<1>2. p.name \in Names /\ p.mode \in Modes /\ p.secret \in SecretFields
  BY <1>1 DEF CreateHookPayload
<1>3. p.template.is \in AllTemplates
  BY Zenon DEF AllTemplates
<1>4. SecretStored(p.secret, NoSecret) \in {NoSecret, Seal("hook")}
  BY <1>2, Stored
<1> QED BY <1>2, <1>3, <1>4 DEF RowOf, Row

LEMMA UpdatedRow ==
    ASSUME NEW p \in Updates, NEW row \in Row, NEW read \in Row
    PROVE  /\ Updated(row, p, read) \in Row
           /\ Updated(row, p, read).deletedAt = row.deletedAt
           /\ Updated(row, p, read).mode = EffectiveMode(p, row)
           /\ Updated(row, p, read).secret = SecretStored(p.secret, read.secret)
<1>1. p \in UpdateHookPayload
  BY RegistryAssumption
<1>2. p.name \in Names \cup {"omitted"} /\ p.mode \in Modes \cup {"omitted"}
      /\ p.secret \in SecretFields
  BY <1>1 DEF UpdateHookPayload
<1>3. p.template.is \in AllTemplates
  BY Zenon DEF AllTemplates
<1>4. row.name \in Names /\ row.mode \in Modes /\ row.template \in AllTemplates
      /\ read.secret \in {NoSecret, Seal("hook")}
  BY DEF Row
<1>5. PICK n : n = IF p.name = "omitted" THEN row.name ELSE p.name
  OBVIOUS
<1>6. PICK m : m = EffectiveMode(p, row)
  OBVIOUS
<1>7. PICK s : s = SecretStored(p.secret, read.secret)
  OBVIOUS
<1>8. PICK t : t = EffectiveTemplate(p, row)
  OBVIOUS
<1>9. n \in Names
  BY <1>2, <1>4, <1>5
<1>10. m \in Modes
  BY <1>2, <1>4, <1>6 DEF EffectiveMode
<1>11. s \in {NoSecret, Seal("hook")}
  BY <1>2, <1>4, <1>7, Stored
<1>12. t \in AllTemplates
  BY <1>3, <1>4, <1>8, Zenon DEF EffectiveTemplate
<1>13. Updated(row, p, read) = [row EXCEPT !.name = n, !.mode = m, !.secret = s, !.template = t]
  BY <1>5, <1>6, <1>7, <1>8 DEF Updated
<1> QED BY <1>6, <1>7, <1>9, <1>10, <1>11, <1>12, <1>13 DEF Row

(* A row of the table after a step of a request: what became of it. *)
Same(i) == i \in DOMAIN hooks /\ hooks'[i] = hooks[i]
Redated(i, d) ==
    i \in DOMAIN hooks /\ hooks'[i] = [hooks[i] EXCEPT !.deletedAt = d]

LEMMA NewRows ==
    ASSUME Types, NEW w \in Workers, Handler(w)
    PROVE  /\ hooks' = [i \in DOMAIN hooks' |-> hooks'[i]]
           /\ \A i \in DOMAIN hooks' :
                 \/ Same(i)
                 \/ i = ops + 1 /\ ops < MaxOps /\ \E p \in Creations :
                       CreateHook(w, p) /\ hooks'[i] = RowOf(p, Never)
                 \/ /\ WriteUpdate(w) /\ i = job[w].id /\ i \in DOMAIN hooks
                    /\ hooks'[i] = Updated(hooks[i], job[w].pay, job[w].row)
                 \/ Trash(w) /\ Live(i) /\ i = job[w].id /\ Redated(i, day)
                 \/ Restore(w) /\ Redated(i, Never)
                 \/ Resolve(w) /\ i = job[w].id /\ Redated(i, job[w].pay)
<1>0. hooks = [i \in DOMAIN hooks |-> hooks[i]]
  BY DEF Types, Rows
<1>1. CASE hooks' = hooks
  BY <1>0, <1>1 DEF Same
<1>2. ASSUME NEW p \in Creations, CreateHook(w, p)
      PROVE  /\ hooks' = [i \in DOMAIN hooks' |-> hooks'[i]]
             /\ \A i \in DOMAIN hooks' :
                   Same(i) \/ (i = ops + 1 /\ ops < MaxOps /\ hooks'[i] = RowOf(p, Never))
  <2>1. ops < MaxOps
    BY <1>2 DEF CreateHook, Begin
  <2>2. hooks' = [i \in DOMAIN hooks \cup {ops + 1} |->
                    IF i = ops + 1 THEN RowOf(p, Never) ELSE hooks[i]]
    BY <1>2 DEF CreateHook
  <2> QED BY <2>1, <2>2 DEF Same
<1>3. CASE WriteUpdate(w)
  <2>1. CASE hooks' = hooks
    BY <1>0, <2>1 DEF Same
  <2>2. CASE hooks' # hooks
    <3>1. /\ job[w].id \in DOMAIN hooks
          /\ hooks' = [hooks EXCEPT ![job[w].id] = Updated(hooks[job[w].id], job[w].pay, job[w].row)]
      BY <1>3, <2>2 DEF WriteUpdate
    <3>2. hooks' = [i \in DOMAIN hooks |->
                      IF i = job[w].id THEN Updated(hooks[i], job[w].pay, job[w].row) ELSE hooks[i]]
      BY <1>0, <3>1
    <3> QED BY <1>3, <3>1, <3>2 DEF Same
  <2> QED BY <2>1, <2>2
<1>4. CASE Trash(w) /\ Live(job[w].id)
  <2>1. job[w].id \in DOMAIN hooks /\ hooks' = [hooks EXCEPT ![job[w].id].deletedAt = day]
    BY <1>4 DEF Trash, Live
  <2>2. hooks' = [i \in DOMAIN hooks |->
                    IF i = job[w].id THEN [hooks[i] EXCEPT !.deletedAt = day] ELSE hooks[i]]
    BY <1>0, <2>1
  <2> QED BY <1>4, <2>1, <2>2 DEF Same, Redated
<1>5. CASE Restore(w) /\ job[w].id \in DOMAIN hooks
  <2>1. hooks' = [hooks EXCEPT ![job[w].id].deletedAt = Never]
    BY <1>5 DEF Restore
  <2>2. hooks' = [i \in DOMAIN hooks |->
                    IF i = job[w].id THEN [hooks[i] EXCEPT !.deletedAt = Never] ELSE hooks[i]]
    BY <1>0, <2>1
  <2> QED BY <1>5, <2>1, <2>2 DEF Same, Redated
<1>7. CASE Resolve(w) /\ job[w].id \in DOMAIN hooks
  <2>1. hooks' = [hooks EXCEPT ![job[w].id].deletedAt = job[w].pay]
    BY <1>7 DEF Resolve
  <2>2. hooks' = [i \in DOMAIN hooks |->
                    IF i = job[w].id THEN [hooks[i] EXCEPT !.deletedAt = job[w].pay] ELSE hooks[i]]
    BY <1>0, <2>1
  <2> QED BY <1>7, <2>1, <2>2 DEF Same, Redated
<1>6. ASSUME NEW ids, hooks' = Without(ids)
      PROVE  hooks' = [i \in DOMAIN hooks' |-> hooks'[i]] /\ \A i \in DOMAIN hooks' : Same(i)
  <2>1. hooks' = [i \in DOMAIN hooks \ ids |-> hooks[i]]
    BY <1>6 DEF Without
  <2> QED BY <2>1 DEF Same
<1> QED BY <1>1, <1>2, <1>3, <1>4, <1>5, <1>6, <1>7, HookEffects, Zenon

LEMMA Redating ==
    ASSUME NEW row \in Row, NEW d \in Int
    PROVE  /\ [row EXCEPT !.deletedAt = d] \in Row
           /\ [row EXCEPT !.deletedAt = d].deletedAt = d
           /\ [row EXCEPT !.deletedAt = d].mode = row.mode
           /\ [row EXCEPT !.deletedAt = d].secret = row.secret
BY DEF Row

LEMMA SweptRows ==
    ASSUME Types, SweepStep \/ (NextDay /\ Observe) \/ UNCHANGED vars
    PROVE  /\ hooks' = [i \in DOMAIN hooks' |-> hooks'[i]]
           /\ \A i \in DOMAIN hooks' : Same(i)
<1>0. hooks = [i \in DOMAIN hooks |-> hooks[i]]
  BY DEF Types, Rows
<1>1. CASE SweepStep
  <2>1. hooks' = [i \in DOMAIN hooks \ Expired(Retention) |-> hooks[i]]
    BY <1>1 DEF SweepStep, Sweep, Swept, Without
  <2> QED BY <2>1 DEF Same
<1>2. CASE (NextDay /\ Observe) \/ UNCHANGED vars
  <2>1. hooks' = hooks
    BY <1>2 DEF NextDay, vars, tables
  <2> QED BY <1>0, <2>1 DEF Same
<1> QED BY <1>1, <1>2

(* Time does not go backwards. *)
LEMMA DayAdvances ==
    ASSUME Types, [Next]_vars
    PROVE  /\ day \in Days /\ day' \in Days /\ day <= day'
           /\ stuck' \in BOOLEAN
           /\ (\E w \in Workers : Handler(w)) \/ SweepStep => day' = day
<1>1. day \in Days /\ stuck \in BOOLEAN /\ Days = 0..MaxDay
  BY DEF Types, Rest, Days
<1>2. ASSUME NEW w \in Workers, Handler(w) PROVE day' = day /\ stuck' = stuck
  BY <1>2, HandlerDay
<1>3. SweepStep \/ UNCHANGED vars => day' = day /\ stuck' = stuck
  BY DEF SweepStep, Sweep, Swept, vars
<1>4. NextDay => day < MaxDay /\ day' = day + 1 /\ stuck' = stuck
  BY DEF NextDay
<1>5. \/ day' = day /\ stuck' = stuck
      \/ day < MaxDay /\ day' = day + 1 /\ stuck' = stuck
  BY <1>2, <1>3, <1>4, Zenon DEF Next
<1>6. stuck' \in BOOLEAN
  BY <1>1, <1>5, Zenon
<1>7. day' \in Days /\ day <= day'
  <2>1. day' = day \/ (day < MaxDay /\ day' = day + 1)
    BY <1>5, Zenon
  <2> QED BY <1>1, <2>1, Bounds
<1> QED BY <1>1, <1>2, <1>3, <1>6, <1>7

LEMMA JobsKept == ASSUME Types, [Next]_vars PROVE Jobs'
<1>0. day \in Nat /\ day' \in Nat /\ day <= day'
  BY DayAdvances, Bounds
<1>1. ASSUME job' = job PROVE Jobs'
  <2>1. ASSUME NEW v \in Workers PROVE Carries(job[v])'
    <3>1. PICK j : j = job[v]
      OBVIOUS
    <3>2. Carries(j)'
      BY <1>0, <3>1, CarriedRow, CarriesOn DEF Types
    <3> QED BY <1>1, <3>1, <3>2
  <2>2. job' = [w \in Workers |-> job'[w]]
    BY <1>1 DEF Types, Jobs
  <2> QED BY <2>1, <2>2 DEF Jobs
<1>2. ASSUME NEW w \in Workers, Handler(w) PROVE Jobs'
  <2>1. PICK j : Carries(j) /\ Turns(w, j)
    BY <1>2, HandlerSteps DEF Step
  <2>2. /\ job'[w] = j
        /\ \A v \in Workers : v # w => job'[v] = job[v]
        /\ job' = [v \in Workers |-> job'[v]]
    BY <2>1, Turned DEF Types
  <2>3. ASSUME NEW v \in Workers PROVE Carries(job[v])'
    <3>1. PICK k : k = job'[v]
      OBVIOUS
    <3>2. Carries(k)
      BY <2>1, <2>2, <3>1, CarriedRow DEF Types
    <3>3. Carries(k)'
      BY <1>0, <3>2, CarriesOn
    <3> QED BY <3>1, <3>3
  <2> QED BY <2>2, <2>3 DEF Jobs
<1>3. CASE SweepStep \/ (NextDay /\ Observe) \/ UNCHANGED vars
  BY <1>1, <1>3 DEF SweepStep, Sweep, Swept, NextDay, vars
<1> QED BY <1>2, <1>3 DEF Next

LEMMA RowsKept == ASSUME Types, [Next]_vars PROVE Rows'
<1>1. day \in Nat /\ day' \in Nat /\ day <= day'
  BY DayAdvances, Bounds
<1>2. \A i \in DOMAIN hooks :
         i \in Ids /\ hooks[i] \in Row /\ hooks[i].deletedAt \in 0..day \cup {Never}
  BY DEF Types, Rows
<1>3. SUFFICES /\ hooks' = [i \in DOMAIN hooks' |-> hooks'[i]]
               /\ \A i \in DOMAIN hooks' :
                     i \in Ids /\ hooks'[i] \in Row /\ hooks'[i].deletedAt \in 0..day' \cup {Never}
  BY DEF Rows
<1>4. ASSUME NEW i \in DOMAIN hooks', Same(i)
      PROVE  i \in Ids /\ hooks'[i] \in Row /\ hooks'[i].deletedAt \in 0..day' \cup {Never}
  BY <1>1, <1>2, <1>4 DEF Same
<1>5. ASSUME NEW i \in DOMAIN hooks', NEW d \in 0..day \cup {Never}, Redated(i, d)
      PROVE  i \in Ids /\ hooks'[i] \in Row /\ hooks'[i].deletedAt \in 0..day' \cup {Never}
  <2>1. d \in Int /\ d \in 0..day' \cup {Never}
    BY <1>1 DEF Never
  <2> QED BY <1>2, <1>5, <2>1, Redating DEF Redated
<1>6. ASSUME NEW w \in Workers, Handler(w)
      PROVE  /\ hooks' = [i \in DOMAIN hooks' |-> hooks'[i]]
             /\ \A i \in DOMAIN hooks' :
                   i \in Ids /\ hooks'[i] \in Row /\ hooks'[i].deletedAt \in 0..day' \cup {Never}
  <2>1. hooks' = [i \in DOMAIN hooks' |-> hooks'[i]]
    BY <1>6, NewRows
  <2>2. ASSUME NEW i \in DOMAIN hooks'
        PROVE  i \in Ids /\ hooks'[i] \in Row /\ hooks'[i].deletedAt \in 0..day' \cup {Never}
    <3>1. CASE Same(i)
      BY <1>4, <3>1
    <3>2. CASE i = ops + 1 /\ ops < MaxOps /\ \E p \in Creations : hooks'[i] = RowOf(p, Never)
      <4>1. i \in Ids
        BY <3>2, Bounds DEF Types, Rest, Ids
      <4>2. Never \in Int
        BY DEF Never
      <4> QED BY <3>2, <4>1, <4>2, CreatedRow
    <3>3. CASE /\ WriteUpdate(w) /\ i = job[w].id /\ i \in DOMAIN hooks
               /\ hooks'[i] = Updated(hooks[i], job[w].pay, job[w].row)
      <4>1. job[w].pay \in Updates /\ job[w].row \in Row
        BY <3>3, CarriedRow DEF WriteUpdate, At, Types, Carries, Vetted
      <4>2. hooks'[i] \in Row /\ hooks'[i].deletedAt = hooks[i].deletedAt
        BY <1>2, <3>3, <4>1, UpdatedRow
      <4> QED BY <1>1, <1>2, <3>3, <4>2
    <3>4. CASE Redated(i, day) \/ Redated(i, Never)
      <4>1. day \in 0..day \cup {Never} /\ Never \in 0..day \cup {Never}
        BY <1>1
      <4> QED BY <1>5, <3>4, <4>1, Zenon
    <3>5. CASE Resolve(w) /\ Redated(i, job[w].pay)
      <4>1. PICK d : d = job[w].pay
        OBVIOUS
      <4>2. d \in 0..day \cup {Never}
        BY <3>5, <4>1, CarriedRow DEF Resolve, At, Types, Carries
      <4> QED BY <1>5, <3>5, <4>1, <4>2
    <3> QED BY <1>6, <3>1, <3>2, <3>3, <3>4, <3>5, NewRows
  <2> QED BY <2>1, <2>2
<1>7. CASE SweepStep \/ (NextDay /\ Observe) \/ UNCHANGED vars
  BY <1>4, <1>7, SweptRows
<1> QED BY <1>6, <1>7 DEF Next

-----------------------------------------------------------------------------
(* The rows of hook_parameters.                                               *)

LEMMA ListsKeptIf ==
    ASSUME Lists, NEW id \in Ids, NEW rows, Admissible(rows), params' = [params EXCEPT ![id] = rows]
    PROVE  Lists'
BY DEF Lists, Admissible

LEMMA RemovedLists ==
    ASSUME Lists, NEW ids, params' = [i \in Ids |-> IF i \in ids THEN <<>> ELSE params[i]]
    PROVE  Lists'
<1>1. \A i \in Ids : params'[i] = <<>> \/ params'[i] = params[i]
  OBVIOUS
<1>2. \A i \in Ids : Admissible(params'[i])
  BY <1>1, EmptyAdmissible DEF Lists
<1>3. params' \in [Ids -> Seq(ParamRow)]
  BY <1>2 DEF Admissible
<1> QED BY <1>2, <1>3 DEF Lists

LEMMA ListsKept == ASSUME Types, [Next]_vars PROVE Lists'
<1>0. Lists /\ \A i \in Ids : Admissible(params[i])
  BY DEF Types, Lists
<1>1. CASE params' = params
  BY <1>0, <1>1 DEF Lists
<1>2. ASSUME NEW w \in Workers, Handler(w) PROVE Lists'
  <2>0. Carries(job[w]) /\ job[w].id \in Ids
    BY CarriedRow DEF Types
  <2>1. CASE DeclareNext(w)
    <3>1. CASE params' = params
      BY <1>1, <3>1
    <3>2. CASE params' # params
      <4>1. PICK left : left = job[w].pay
        OBVIOUS
      <4>2. PICK rows : rows = params[job[w].id]
        OBVIOUS
      <4>3. /\ left # <<>> /\ Head(left).key \notin KeysOf(rows)
            /\ params' = [params EXCEPT ![job[w].id] = Append(rows, Head(left))]
        BY <2>1, <3>2, <4>1, <4>2 DEF DeclareNext
      <4>4. left \in Seq(ParamRow) /\ \A n \in DOMAIN left : Bare(left[n]) \in AllDeclarations
        BY <2>0, <2>1, <4>1 DEF DeclareNext, At, Carries
      <4>5. Head(left) \in ParamRow /\ Head(left) = left[1] /\ 1 \in DOMAIN left
        BY <4>3, <4>4
      <4>6. Bare(Head(left)) \in AllAmended
        BY <4>4, <4>5, DeclarationsTyped
      <4>7. Admissible(Append(rows, Head(left)))
        BY <1>0, <2>0, <4>2, <4>3, <4>5, <4>6, AppendAdmissible
      <4> QED BY <1>0, <2>0, <4>3, <4>7, ListsKeptIf
    <3> QED BY <3>1, <3>2
  <2>2. CASE InsertParameter(w)
    <3>1. CASE params' = params
      BY <1>1, <3>1
    <3>2. CASE params' # params
      <4>1. PICK p : p = job[w].pay
        OBVIOUS
      <4>2. PICK rows : rows = params[job[w].id]
        OBVIOUS
      <4>3. /\ p.key \notin KeysOf(rows)
            /\ params' = [params EXCEPT ![job[w].id] = Append(rows, p)]
        BY <2>2, <3>2, <4>1, <4>2 DEF InsertParameter
      <4>4. p \in ParamRow /\ Bare(p) \in AllAmended
        BY <2>0, <2>2, <4>1, DeclarationsTyped DEF InsertParameter, At, Carries
      <4>5. Admissible(Append(rows, p))
        BY <1>0, <2>0, <4>2, <4>3, <4>4, AppendAdmissible
      <4> QED BY <1>0, <2>0, <4>3, <4>5, ListsKeptIf
    <3> QED BY <3>1, <3>2
  <2>3. CASE UpdateParameter(w)
    <3>1. PICK p : p = job[w].pay
      OBVIOUS
    <3>2. PICK rows : rows = params[job[w].id]
      OBVIOUS
    <3>3. PICK out : out = [n \in DOMAIN rows |->
                              IF IsRow(rows[n], p) THEN Amended(rows[n], p) ELSE rows[n]]
      OBVIOUS
    <3>4. params' = [params EXCEPT ![job[w].id] = out]
      BY <2>3, <3>1, <3>2, <3>3 DEF UpdateParameter
    <3>5. p \in ParamRow /\ Bare(p) \in AllDeclarations
      BY <2>0, <2>3, <3>1 DEF UpdateParameter, At, Carries
    <3>6. Admissible(out)
      BY <1>0, <2>0, <3>2, <3>3, <3>5, AmendAdmissible
    <3> QED BY <1>0, <2>0, <3>4, <3>6, ListsKeptIf
  <2>4. CASE DeleteParameter(w)
    <3>1. PICK out : out = Others(params[job[w].id], job[w].pay)
      OBVIOUS
    <3>2. params' = [params EXCEPT ![job[w].id] = out]
      BY <2>4, <3>1 DEF DeleteParameter
    <3>3. Admissible(out)
      BY <1>0, <2>0, <3>1, OthersAdmissible
    <3> QED BY <1>0, <2>0, <3>2, <3>3, ListsKeptIf
  <2>5. CASE Drop(w) \/ Purge(w)
    <3>1. \E ids : params' = [i \in Ids |-> IF i \in ids THEN <<>> ELSE params[i]]
      BY <2>5 DEF Drop, Purge, Remove
    <3> QED BY <1>0, <3>1, RemovedLists
  <2>6. CASE (\E p \in Creations : CreateHook(w, p)) \/ (\E p \in Updates : ReadForUpdate(w, p))
             \/ FitTemplate(w) \/ WriteUpdate(w) \/ ReadForDelete(w) \/ Trash(w)
             \/ ReadForHardDelete(w) \/ ReadForRestore(w) \/ Restore(w) \/ ReadForResolve(w) \/ Resolve(w)
    <3>1. params' = params
      BY <2>6 DEF CreateHook, ReadForUpdate, FitTemplate, WriteUpdate, ReadForDelete, Trash,
                  ReadForHardDelete, ReadForRestore, Restore, ReadForResolve, Resolve, tables
    <3> QED BY <1>1, <3>1
  <2>7. CASE (\E d \in Declarations : ReadForInsert(w, d)) \/ (\E d \in Declarations : ReadForAmend(w, d))
             \/ ReadForRemove(w) \/ Audit(w) \/ Abandon(w)
    <3>1. params' = params
      BY <2>7 DEF ReadForInsert, ReadForAmend, ReadForRemove, Audit, Abandon, tables
    <3> QED BY <1>1, <3>1
  <2> QED BY <1>2, <2>1, <2>2, <2>3, <2>4, <2>5, <2>6, <2>7, Zenon DEF Handler
<1>3. CASE SweepStep
  <2>1. \E ids : params' = [i \in Ids |-> IF i \in ids THEN <<>> ELSE params[i]]
    BY <1>3 DEF SweepStep, Sweep, Swept
  <2> QED BY <1>0, <2>1, RemovedLists
<1>4. CASE (NextDay /\ Observe) \/ UNCHANGED vars
  BY <1>1, <1>4 DEF NextDay, vars, tables
<1> QED BY <1>2, <1>3, <1>4 DEF Next

-----------------------------------------------------------------------------
(* The other columns, and the history.                                        *)

(* The executions of a hook go with it, or stay. *)
LEMMA HandlerRuns ==
    ASSUME NEW w \in Workers, Handler(w)
    PROVE  runs' = runs \/ \E ids : Remove(ids)
<1>1. CASE Drop(w) \/ Purge(w)
  BY <1>1 DEF Drop, Purge
<1>2. CASE (\E p \in Creations : CreateHook(w, p)) \/ DeclareNext(w)
           \/ (\E p \in Updates : ReadForUpdate(w, p))
           \/ FitTemplate(w) \/ WriteUpdate(w) \/ ReadForDelete(w) \/ Trash(w)
           \/ ReadForHardDelete(w) \/ ReadForRestore(w) \/ Restore(w) \/ ReadForResolve(w) \/ Resolve(w)
  BY <1>2 DEF CreateHook, DeclareNext, ReadForUpdate, FitTemplate, WriteUpdate, ReadForDelete,
              Trash, ReadForHardDelete, ReadForRestore, Restore, ReadForResolve, Resolve, tables
<1>3. CASE (\E d \in Declarations : ReadForInsert(w, d)) \/ InsertParameter(w)
           \/ (\E d \in Declarations : ReadForAmend(w, d)) \/ UpdateParameter(w)
           \/ ReadForRemove(w) \/ DeleteParameter(w) \/ Audit(w) \/ Abandon(w)
  BY <1>3 DEF ReadForInsert, InsertParameter, ReadForAmend, UpdateParameter, ReadForRemove,
              DeleteParameter, Audit, Abandon, tables
<1> QED BY <1>1, <1>2, <1>3, Zenon DEF Handler

LEMMA RunsKept == ASSUME Types, [Next]_vars PROVE runs' \in [Ids -> SUBSET Days]
<1>1. runs \in [Ids -> SUBSET Days]
  BY DEF Types, Rest
<1>2. ASSUME NEW w \in Workers, Handler(w) PROVE runs' \in [Ids -> SUBSET Days]
  <2>1. ASSUME NEW ids, Remove(ids) PROVE runs' \in [Ids -> SUBSET Days]
    <3>1. runs' = [i \in Ids |-> IF i \in ids THEN {} ELSE runs[i]]
      BY <2>1 DEF Remove
    <3> QED BY <1>1, <3>1
  <2> QED BY <1>1, <1>2, <2>1, HandlerRuns
<1>3. CASE SweepStep
  <2>1. runs' = [i \in Ids |-> IF i \in Expired(Retention) THEN {} ELSE runs[i] \ OldRuns(i)]
    BY <1>3 DEF SweepStep, Sweep, Swept
  <2> QED BY <1>1, <2>1
<1>4. CASE (NextDay /\ Observe) \/ UNCHANGED vars
  BY <1>1, <1>4 DEF NextDay, vars, tables
<1> QED BY <1>2, <1>3, <1>4 DEF Next

LEMMA OpsKept ==
    ASSUME Types, [Next]_vars PROVE ops' \in 0..MaxOps
<1>1. ops \in 0..MaxOps
  BY DEF Types, Rest
<1>2. ASSUME NEW w \in Workers, Handler(w) PROVE ops' \in 0..MaxOps
  <2>1. ops' = ops \/ (ops < MaxOps /\ ops' = ops + 1)
    BY <1>2, HandlerSteps DEF Step, Quiet, Paid, Wins, Audit, Abandon
  <2> QED BY <1>1, <2>1, Bounds
<1>3. CASE SweepStep \/ (NextDay /\ Observe) \/ UNCHANGED vars
  BY <1>1, <1>3 DEF SweepStep, Sweep, Swept, NextDay, vars
<1> QED BY <1>2, <1>3 DEF Next

(* Observe, field by field. *)
LiveNext(i) == i \in DOMAIN hooks' /\ hooks'[i].deletedAt = Never
Moved(i) == Live(i) /\ i \in DOMAIN hooks' /\ ~LiveNext(i)
Dated == {i \in DOMAIN hooks \cap DOMAIN hooks' : hooks'[i].deletedAt # hooks[i].deletedAt}
Resolving == \E w \in Workers : At(w, "resolve") /\ job'[w] # job[w]
Edited == {w \in Workers : At(w, "write") /\ job'[w] = Idle /\ hooks' # hooks}
Unread(w) == ~(/\ hooks[job[w].id].mode = job[w].row.mode
               /\ hooks[job[w].id].secret = job[w].row.secret)

LEMMA Observed ==
    ASSUME Observe
    PROVE  /\ liveOn' = [i \in Ids |-> IF LiveNext(i) THEN day' ELSE liveOn[i]]
           /\ trashings' = [i \in Ids |-> IF Moved(i) THEN trashings[i] + 1 ELSE trashings[i]]
           /\ cascaded' = [i \in Ids |-> IF Moved(i) /\ Resolving THEN cascaded[i] + 1 ELSE cascaded[i]]
           /\ late' = (late \ Dated) \cup {i \in Dated : Resolving /\ hooks'[i].deletedAt < day}
           /\ cut' = cut \cup {job[w].id : w \in {v \in Workers :
                                 At(v, "audit") /\ job'[v] = Idle /\ trail' = trail}}
           /\ raced' = (raced \ {job[w].id : w \in Edited})
                          \cup {job[w].id : w \in {v \in Edited : Unread(v)}}
BY Zenon DEF Observe, LiveNext, Moved, Dated, Resolving, Edited, Unread

LEMMA NextObserves == ASSUME [Next]_vars PROVE Observe \/ UNCHANGED vars
BY DEF Next, SweepStep

LEMMA RestKept == ASSUME Types, [Next]_vars PROVE Rest'
<1>1. /\ liveOn \in [Ids -> Days] /\ trashings \in [Ids -> Nat] /\ cut \subseteq Ids
      /\ cascaded \in [Ids -> Nat] /\ late \subseteq Ids /\ DOMAIN hooks \subseteq Ids
      /\ raced \subseteq Ids
  BY DEF Types, Rest, Rows
<1>2. day' \in Days /\ stuck' \in BOOLEAN
  BY DayAdvances
<1>3. CASE Observe
  <2>1. \A w \in Workers : job[w].id \in Ids
    BY CarriedRow DEF Types
  <2>2. liveOn' \in [Ids -> Days]
    BY <1>1, <1>2, <1>3, Observed
  <2>3. trashings' \in [Ids -> Nat]
    BY <1>1, <1>3, Observed
  <2>4. cut' \subseteq Ids
    BY <1>1, <1>3, <2>1, Observed
  <2>5. raced' \subseteq Ids
    <3>1. Edited \subseteq Workers
      BY DEF Edited
    <3> QED BY <1>1, <1>3, <2>1, <3>1, Observed
  <2>6. cascaded' \in [Ids -> Nat]
    BY <1>1, <1>3, Observed
  <2>7. late' \subseteq Ids
    <3>1. Dated \subseteq Ids
      BY <1>1 DEF Dated
    <3> QED BY <1>1, <1>3, <3>1, Observed
  <2> QED BY <1>2, <2>2, <2>3, <2>4, <2>5, <2>6, <2>7, OpsKept, RunsKept DEF Rest
<1>4. CASE UNCHANGED vars
  BY <1>4 DEF vars, tables, Types, Rest
<1> QED BY <1>3, <1>4, NextObserves

LEMMA TypesKept == ASSUME Types, [Next]_vars PROVE Types'
BY RestKept, RowsKept, ListsKept, JobsKept DEF Types

-----------------------------------------------------------------------------
(* The audit.                                                                 *)

LEMMA BusyFinite == IsFiniteSet(Busy) /\ Cardinality(Busy) \in Nat
<1>1. IsFiniteSet(Workers) /\ Busy \subseteq Workers
  BY RegistryAssumption DEF Busy
<1> QED BY <1>1, FS_Subset, FS_CardinalityType

LEMMA Fewer ==
    ASSUME NEW S, IsFiniteSet(S), NEW T, T \subseteq S
    PROVE  IsFiniteSet(T) /\ Cardinality(S) \in Nat /\ Cardinality(T) \in Nat
           /\ Cardinality(T) <= Cardinality(S)
BY FS_Subset, FS_CardinalityType

LEMMA CountedKept == ASSUME Types, Counted, [Next]_vars PROVE Counted'
<1>1. trail \in [Ids -> Nat] /\ \A i \in Ids : trail[i] + Cardinality(Busy) <= ops
  BY DEF Counted
<1>2. IsFiniteSet(Busy) /\ Cardinality(Busy) \in Nat
  BY BusyFinite
<1>3. ops \in Nat
  BY Bounds DEF Types, Rest
<1>4. ASSUME NEW w \in Workers, Handler(w) PROVE Counted'
  <2>1. PICK j : Step(w, j)
    BY <1>4, HandlerSteps
  <2>2. job'[w] = j /\ \A v \in Workers : v # w => job'[v] = job[v]
    BY <2>1, Turned DEF Step, Types
  <2>3. PICK busy : busy = Busy'
    OBVIOUS
  <2>4. busy = {v \in Workers : job'[v].at # "idle"}
    BY <2>3 DEF Busy, At
  <2>5. busy \subseteq Busy \cup {w}
    BY <2>2, <2>4 DEF Busy, At
  <2>6. ~At(w, "idle") => w \in Busy
    BY DEF Busy
  <2>7. CASE w \in Busy /\ ops' = ops /\ trail' = trail
    <3>1. busy \subseteq Busy
      BY <2>5, <2>7
    <3>2. Cardinality(busy) \in Nat /\ Cardinality(busy) <= Cardinality(Busy)
      BY <1>2, <3>1, Fewer
    <3> QED BY <1>1, <1>2, <1>3, <2>3, <2>7, <3>2 DEF Counted
  <2>8. CASE ops' = ops + 1 /\ trail' = trail
    <3>1. IsFiniteSet(Busy \cup {w}) /\ Cardinality(Busy \cup {w}) <= Cardinality(Busy) + 1
      <4>1. IsFiniteSet(Busy \cup {w})
        BY <1>2, FS_AddElement
      <4>2. Cardinality(Busy \cup {w}) = IF w \in Busy THEN Cardinality(Busy) ELSE Cardinality(Busy) + 1
        BY <1>2, FS_AddElement
      <4> QED BY <1>2, <4>1, <4>2
    <3>2. Cardinality(busy) \in Nat /\ Cardinality(busy) <= Cardinality(Busy \cup {w})
          /\ Cardinality(Busy \cup {w}) \in Nat
      BY <2>5, <3>1, Fewer
    <3>3. \A i \in Ids : trail[i] \in Nat /\ trail[i] + Cardinality(busy) <= ops + 1
      BY <1>1, <1>2, <1>3, <3>1, <3>2
    <3> QED BY <1>1, <2>3, <2>8, <3>3 DEF Counted
  <2>9. CASE Audit(w) /\ j = Idle
    <3>1. w \in Busy /\ w \notin busy
      BY <2>2, <2>4, <2>9, IdleCarries DEF Audit, At, Busy
    <3>2. busy \subseteq Busy \ {w}
      BY <2>5, <3>1
    <3>3. IsFiniteSet(Busy \ {w}) /\ Cardinality(Busy \ {w}) = Cardinality(Busy) - 1
      BY <1>2, <3>1, FS_RemoveElement
    <3>4. Cardinality(busy) \in Nat /\ Cardinality(busy) <= Cardinality(Busy \ {w})
      BY <3>2, <3>3, Fewer
    <3>5. ops' = ops /\ trail' = [trail EXCEPT ![job[w].id] = @ + 1]
      BY <2>9 DEF Audit
    <3>6. trail' \in [Ids -> Nat] /\ \A i \in Ids : trail'[i] <= trail[i] + 1
      <4>1. trail' = [i \in Ids |-> IF i = job[w].id THEN trail[i] + 1 ELSE trail[i]]
        BY <1>1, <3>5
      <4>2. \A i \in Ids : trail[i] \in Nat
        BY <1>1
      <4> QED BY <4>1, <4>2
    <3>7. \A i \in Ids : trail'[i] + Cardinality(busy) <= ops
      <4> SUFFICES ASSUME NEW i \in Ids PROVE trail'[i] + Cardinality(busy) <= ops
        OBVIOUS
      <4>1. trail[i] \in Nat /\ trail'[i] \in Nat /\ trail'[i] <= trail[i] + 1
            /\ trail[i] + Cardinality(Busy) <= ops
        BY <1>1, <3>6
      <4> QED BY <1>2, <1>3, <3>3, <3>4, <4>1
    <3> QED BY <2>3, <3>5, <3>6, <3>7 DEF Counted
  <2>10. \/ w \in Busy /\ ops' = ops /\ trail' = trail
         \/ ops' = ops + 1 /\ trail' = trail
         \/ Audit(w) /\ j = Idle
    BY <2>1, <2>6 DEF Step, Quiet, Paid, Wins, Abandon, At
  <2> QED BY <2>7, <2>8, <2>9, <2>10
<1>5. CASE SweepStep \/ (NextDay /\ Observe) \/ UNCHANGED vars
  BY <1>1, <1>5 DEF SweepStep, Sweep, Swept, NextDay, vars, Counted, Busy, At
<1> QED BY <1>4, <1>5 DEF Next

(* The requests that have trashed a hook and not yet audited it. *)
Due(id) == {w \in Workers : At(w, "audit") /\ job[w].id = id}
Balanced(told, id, n, k, c) ==
    told + k[id] <= n[id] /\ (id \notin c => told + k[id] = n[id])

LEMMA DueFinite == \A id : IsFiniteSet(Due(id)) /\ Cardinality(Due(id)) \in Nat
<1> SUFFICES ASSUME NEW id PROVE IsFiniteSet(Due(id)) /\ Cardinality(Due(id)) \in Nat
  OBVIOUS
<1>1. IsFiniteSet(Workers) /\ Due(id) \subseteq Workers
  BY RegistryAssumption DEF Due
<1> QED BY <1>1, Fewer

(* No step but a deletion takes a live hook that stays in the table to the    *)
(* trash.                                                                     *)
LEMMA Stays ==
    ASSUME Types, NEW w \in Workers, Handler(w), ~(Trash(w) /\ Live(job[w].id)), ~Resolve(w)
    PROVE  \A i \in DOMAIN hooks' : Live(i) => LiveNext(i)
<1> SUFFICES ASSUME NEW i \in DOMAIN hooks', Live(i) PROVE hooks'[i].deletedAt = Never
  BY DEF LiveNext
<1>1. i \in DOMAIN hooks /\ hooks[i] \in Row /\ hooks[i].deletedAt = Never /\ Never \in Int
  BY HeldRow DEF Live, Types, Never
<1>2. CASE Same(i)
  BY <1>1, <1>2 DEF Same
<1>3. CASE \E p \in Creations : hooks'[i] = RowOf(p, Never)
  BY <1>1, <1>3, CreatedRow
<1>4. CASE WriteUpdate(w) /\ hooks'[i] = Updated(hooks[i], job[w].pay, job[w].row)
  <2>1. job[w].pay \in Updates /\ job[w].row \in Row
    BY <1>4, CarriedRow DEF WriteUpdate, At, Types, Carries, Vetted
  <2> QED BY <1>1, <1>4, <2>1, UpdatedRow
<1>5. CASE Redated(i, Never)
  BY <1>1, <1>5, Redating DEF Redated
<1> QED BY <1>2, <1>3, <1>4, <1>5, NewRows

LEMMA TrashingsSame ==
    ASSUME Types, Observe, \A i \in DOMAIN hooks' : Live(i) => LiveNext(i)
    PROVE  \A i \in Ids : trashings'[i] = trashings[i] /\ cascaded'[i] = cascaded[i]
BY Observed DEF Moved

(* But for a deletion, a step adds to both counts or to neither. *)
Even(i) ==
    \/ trashings'[i] = trashings[i] /\ cascaded'[i] = cascaded[i]
    \/ trashings'[i] = trashings[i] + 1 /\ cascaded'[i] = cascaded[i] + 1

LEMMA CascadeCounts ==
    ASSUME Types, NEW w \in Workers, Handler(w), ~(Trash(w) /\ Live(job[w].id)), Observe
    PROVE  \A i \in Ids : Even(i)
<1>1. CASE ~Resolve(w)
  BY <1>1, Stays, TrashingsSame DEF Even
<1>2. CASE Resolve(w)
  <2>1. Turns(w, Idle) /\ At(w, "resolve")
    BY <1>2 DEF Resolve, Finish, Turns
  <2>2. job'[w] = Idle
    BY <2>1, Turned DEF Types
  <2>3. Resolving
    BY <2>1, <2>2, IdleCarries DEF Resolving, At
  <2> QED BY <2>3, Observed DEF Even
<1> QED BY <1>1, <1>2

LEMMA DeletionsKept == ASSUME Types, Counted, DeletionsAudited, [Next]_vars PROVE DeletionsAudited'
<1>1. \A id \in Ids : Balanced(trail[id] + Cardinality(Due(id)), id, trashings, cascaded, cut)
  BY DEF DeletionsAudited, Balanced, Due
<1>2. SUFFICES ASSUME NEW id \in Ids
               PROVE  Balanced(trail'[id] + Cardinality(Due(id)'), id, trashings', cascaded', cut')
  BY DEF DeletionsAudited, Balanced, Due
<1>3. PICK due : due = Due(id)'
  OBVIOUS
<1>4. due = {v \in Workers : job'[v].at = "audit" /\ job'[v].id = id}
  BY <1>3 DEF Due, At
<1>5. Due(id) = {v \in Workers : job[v].at = "audit" /\ job[v].id = id}
  BY DEF Due, At
<1>6. trail \in [Ids -> Nat] /\ trashings \in [Ids -> Nat] /\ trail[id] \in Nat /\ trashings[id] \in Nat
      /\ cascaded[id] \in Nat
  BY DEF Counted, Types, Rest
<1>7. IsFiniteSet(Due(id)) /\ Cardinality(Due(id)) \in Nat
  BY DueFinite
<1>8. Observe => cut \subseteq cut'
  BY Observed
<1>9. ASSUME trail'[id] = trail[id], due = Due(id), Even(id), cut \subseteq cut'
      PROVE  Balanced(trail'[id] + Cardinality(due), id, trashings', cascaded', cut')
  <2>1. Balanced(trail[id] + Cardinality(Due(id)), id, trashings, cascaded, cut)
    BY <1>1
  <2> QED BY <1>6, <1>7, <1>9, <2>1 DEF Balanced, Even
<1>10. CASE UNCHANGED vars
  <2>1. job' = job /\ trail' = trail /\ trashings' = trashings /\ cascaded' = cascaded
        /\ cut' = cut
    BY <1>10 DEF vars
  <2> QED BY <1>3, <1>4, <1>5, <1>9, <2>1 DEF Even
<1>11. CASE SweepStep \/ (NextDay /\ Observe)
  <2>1. job' = job /\ trail' = trail /\ Observe
    BY <1>11 DEF SweepStep, Sweep, Swept, NextDay
  <2>2. \A i \in DOMAIN hooks' : Live(i) => LiveNext(i)
    BY <1>11, SweptRows DEF Same, Live, LiveNext
  <2>3. Even(id)
    BY <2>1, <2>2, TrashingsSame DEF Even
  <2> QED BY <1>3, <1>4, <1>5, <1>8, <1>9, <2>1, <2>3
<1>12. ASSUME NEW w \in Workers, Handler(w), Observe
       PROVE  Balanced(trail'[id] + Cardinality(due), id, trashings', cascaded', cut')
  <2>1. PICK j : Step(w, j)
    BY <1>12, HandlerSteps
  <2>2. job'[w] = j /\ \A v \in Workers : v # w => job'[v] = job[v]
    BY <2>1, Turned DEF Step, Types
  <2>3. PICK at : at = job[w].id
    OBVIOUS
  <2>4. cut \subseteq cut'
    BY <1>8, <1>12
  <2>5. Balanced(trail[id] + Cardinality(Due(id)), id, trashings, cascaded, cut)
    BY <1>1
  <2>6. ASSUME ~(Trash(w) /\ Live(at)) PROVE Even(id)
    BY <1>12, <2>3, <2>6, CascadeCounts
  <2>7. Trash(w) /\ Live(at) => j.at = "audit"
    <3>1. Trash(w) /\ Live(at) =>
            Turns(w, [at |-> "audit", id |-> at, row |-> NoRow, pay |-> <<>>])
      BY <2>3 DEF Trash, Start, Hold, Turns
    <3> QED BY <2>2, <3>1, Turned DEF Types
  <2>8. CASE Quiet(w, j)
    <3>1. due = Due(id)
      BY <1>4, <1>5, <2>2, <2>8 DEF Quiet, At
    <3>2. Even(id) /\ trail'[id] = trail[id]
      BY <2>6, <2>7, <2>8 DEF Quiet
    <3> QED BY <1>9, <2>4, <3>1, <3>2
  <2>9. CASE Wins(w, j)
    <3>1. /\ job[w].at = "trash" /\ Live(at) /\ j.at = "audit" /\ j.id = at /\ trail' = trail
          /\ hooks' = [hooks EXCEPT ![at].deletedAt = day]
      BY <2>3, <2>9 DEF Wins, At
    <3>2. at \in DOMAIN hooks /\ hooks = [i \in DOMAIN hooks |-> hooks[i]] /\ hooks[at] \in Row
          /\ day \in Int /\ day # Never
      BY <3>1, Bounds DEF Live, Types, Rows, Rest, Never
    <3>3. hooks' = [i \in DOMAIN hooks |->
                      IF i = at THEN [hooks[i] EXCEPT !.deletedAt = day] ELSE hooks[i]]
      BY <3>1, <3>2
    <3>4. at \in DOMAIN hooks' /\ ~LiveNext(at)
      BY <3>2, <3>3, Redating DEF LiveNext
    <3>5. \A i \in DOMAIN hooks' : i # at /\ Live(i) => LiveNext(i)
      BY <3>3 DEF LiveNext, Live
    <3>9. ~Resolving
      BY <2>2, <3>1 DEF Resolving, At
    <3>6. /\ trashings'[id] = IF id = at THEN trashings[id] + 1 ELSE trashings[id]
          /\ cascaded'[id] = cascaded[id]
      BY <1>12, <3>1, <3>4, <3>5, <3>9, Observed DEF Moved
    <3>7. CASE id = at
      <4>1. due = Due(id) \cup {w} /\ w \notin Due(id)
        BY <1>4, <1>5, <2>2, <3>1, <3>7
      <4>2. Cardinality(due) = Cardinality(Due(id)) + 1
        BY <1>7, <4>1, FS_AddElement
      <4>3. trashings'[id] = trashings[id] + 1 /\ trail'[id] = trail[id] /\ cascaded'[id] = cascaded[id]
        BY <3>1, <3>6, <3>7
      <4> QED BY <1>6, <1>7, <2>4, <2>5, <4>2, <4>3 DEF Balanced
    <3>8. CASE id # at
      <4>1. due = Due(id)
        BY <1>4, <1>5, <2>2, <3>1, <3>8
      <4> QED BY <1>9, <2>4, <3>1, <3>6, <3>8, <4>1 DEF Even
    <3> QED BY <3>7, <3>8
  <2>10. CASE (Audit(w) \/ Abandon(w)) /\ j = Idle
    <3>1. Even(id)
      BY <2>6, <2>7, <2>10, IdleCarries
    <3>2. CASE ~(id = at /\ At(w, "audit"))
      <4>1. due = Due(id)
        BY <1>4, <1>5, <2>2, <2>3, <2>10, <3>2, IdleCarries DEF At
      <4>2. trail'[id] = trail[id]
        BY <1>6, <2>3, <2>10, <3>2 DEF Audit, Abandon
      <4> QED BY <1>9, <2>4, <3>1, <4>1, <4>2
    <3>3. CASE id = at /\ At(w, "audit")
      <4>1. due = Due(id) \ {w} /\ w \in Due(id)
        BY <1>4, <1>5, <2>2, <2>3, <2>10, <3>3, IdleCarries DEF At
      <4>2. Cardinality(due) = Cardinality(Due(id)) - 1
        BY <1>7, <4>1, FS_RemoveElement
      <4>3. CASE Audit(w)
        <5>1. trail'[id] = trail[id] + 1
          BY <1>6, <2>3, <3>3, <4>3 DEF Audit
        <5> QED BY <1>6, <1>7, <2>4, <2>5, <3>1, <4>2, <5>1 DEF Balanced, Even
      <4>4. CASE Abandon(w)
        <5>1. trail' = trail
          BY <4>4 DEF Abandon
        <5>2. id \in cut'
          BY <1>12, <2>2, <2>3, <2>10, <3>3, <5>1, Observed
        <5> QED BY <1>6, <1>7, <2>5, <3>1, <4>2, <5>1, <5>2 DEF Balanced, Even
      <4> QED BY <2>10, <4>3, <4>4
    <3> QED BY <3>2, <3>3
  <2> QED BY <2>1, <2>8, <2>9, <2>10 DEF Step
<1> QED BY <1>3, <1>10, <1>11, <1>12 DEF Next

-----------------------------------------------------------------------------
(* The secrets of hooks in HMAC_ONLY.                                         *)

LEMMA SealIsSecret == Seal("hook") # NoSecret
BY DEF Seal, Plain, Sealed, NoSecret

(* What validate_and_seal_hmac_secret lets a hook in HMAC_ONLY keep. *)
LEMMA SecretSettled ==
    ASSUME NEW sent \in SecretFields, NEW existing, SecretAccepted("HMAC_ONLY", sent, existing)
    PROVE  SecretStored(sent, existing) # NoSecret
BY SealIsSecret DEF SecretFields, SecretAccepted, SecretStored

(* Only the UPDATE of an edit overwrites what it read. *)
LEMMA NothingEdited ==
    ASSUME Types, NEW w \in Workers, Handler(w), ~WriteUpdate(w), Observe
    PROVE  raced' = raced
<1>1. PICK j : Turns(w, j)
  BY HandlerSteps DEF Step
<1>2. \A v \in Workers : v # w => job'[v] = job[v]
  BY <1>1, Turned DEF Types
<1>3. hooks' # hooks => ~At(w, "write")
  BY HookEffects DEF CreateHook, Begin, Trash, Restore, Resolve, At
<1>4. Edited = {}
  BY <1>2, <1>3, IdleCarries DEF Edited, At
<1> QED BY <1>4, Observed

LEMMA SecretsKept == ASSUME Types, SecretKept, [Next]_vars PROVE SecretKept'
<1>1. \A i \in DOMAIN hooks :
         hooks[i].mode = "HMAC_ONLY" /\ hooks[i].secret = NoSecret => i \in raced
  BY DEF SecretKept
<1>2. SUFFICES ASSUME NEW i \in DOMAIN hooks', hooks'[i].mode = "HMAC_ONLY",
                      hooks'[i].secret = NoSecret
               PROVE  i \in raced'
  BY DEF SecretKept
<1>3. ASSUME Same(i), raced' = raced PROVE i \in raced'
  BY <1>1, <1>2, <1>3 DEF Same
<1>4. CASE UNCHANGED vars
  <2>1. Same(i) /\ raced' = raced
    BY <1>4, SweptRows DEF vars
  <2> QED BY <1>3, <2>1
<1>5. CASE SweepStep \/ (NextDay /\ Observe)
  <2>1. job' = job /\ Observe
    BY <1>5 DEF SweepStep, Sweep, Swept, NextDay
  <2>2. Edited = {}
    BY <2>1, IdleCarries DEF Edited, At
  <2>3. raced' = raced
    BY <2>1, <2>2, Observed
  <2>4. Same(i)
    BY <1>5, SweptRows
  <2> QED BY <1>3, <2>3, <2>4
<1>6. ASSUME NEW w \in Workers, Handler(w), Observe, ~WriteUpdate(w) PROVE i \in raced'
  <2>1. raced' = raced
    BY <1>6, NothingEdited
  <2>2. CASE Same(i)
    BY <1>3, <2>1, <2>2
  <2>3. ASSUME NEW p \in Creations, CreateHook(w, p), hooks'[i] = RowOf(p, Never) PROVE FALSE
    <3>1. p.secret \in SecretFields
      BY RegistryAssumption DEF CreateHookPayload
    <3>2. SecretAccepted(p.mode, p.secret, NoSecret)
      BY <2>3 DEF CreateHook, CreationAccepted
    <3>3. hooks'[i].mode = p.mode /\ hooks'[i].secret = SecretStored(p.secret, NoSecret)
      BY <2>3 DEF RowOf
    <3> QED BY <1>2, <3>1, <3>2, <3>3, SecretSettled
  <2>4. ASSUME NEW d \in Int, Redated(i, d) PROVE i \in raced'
    <3>1. hooks[i] \in Row /\ i \in DOMAIN hooks
      BY <2>4, HeldRow DEF Redated, Types
    <3>2. hooks'[i].mode = hooks[i].mode /\ hooks'[i].secret = hooks[i].secret
      BY <2>4, <3>1, Redating DEF Redated
    <3> QED BY <1>1, <1>2, <2>1, <3>1, <3>2
  <2>5. day \in Int /\ Never \in Int
    BY Bounds DEF Types, Rest, Never
  <2>6. \/ Same(i)
        \/ \E p \in Creations : CreateHook(w, p) /\ hooks'[i] = RowOf(p, Never)
        \/ Redated(i, day)
        \/ Redated(i, Never)
        \/ Resolve(w) /\ Redated(i, job[w].pay)
    BY <1>2, <1>6, NewRows
  <2>7. CASE Resolve(w) /\ Redated(i, job[w].pay)
    <3>1. job[w].pay \in Int
      BY <2>5, <2>7, CarriedRow DEF Resolve, At, Types, Carries
    <3> QED BY <2>4, <2>7, <3>1
  <2> QED BY <2>2, <2>3, <2>4, <2>5, <2>6, <2>7
<1>7. ASSUME NEW w \in Workers, WriteUpdate(w), Handler(w), Observe PROVE i \in raced'
  <2>1. PICK id : id = job[w].id
    OBVIOUS
  <2>2. Turns(w, Idle) /\ At(w, "write")
    BY <1>7 DEF WriteUpdate, Finish, Turns
  <2>3. job'[w] = Idle /\ \A v \in Workers : v # w => job'[v] = job[v]
    BY <2>2, Turned DEF Types
  <2>4. CASE hooks' = hooks
    <3>1. Edited = {}
      BY <2>4 DEF Edited
    <3>2. raced' = raced
      BY <1>7, <3>1, Observed
    <3> QED BY <1>1, <1>2, <2>4, <3>2
  <2>5. CASE hooks' # hooks
    <3>1. Edited = {w}
      BY <2>2, <2>3, <2>5, IdleCarries DEF Edited, At
    <3>2. raced' = (raced \ {id}) \cup {job[v].id : v \in {u \in {w} : Unread(u)}}
      BY <1>7, <2>1, <3>1, Observed
    <3>3. CASE i # id
      <4>1. Same(i)
        BY <1>2, <1>7, <2>1, <2>2, <3>3, NewRows DEF At, CreateHook, Begin, Trash, Restore, Resolve
      <4> QED BY <1>1, <1>2, <3>2, <3>3, <4>1 DEF Same
    <3>4. CASE i = id /\ Unread(w)
      BY <2>1, <3>2, <3>4
    <3>5. CASE i = id /\ ~Unread(w)
      <4>1. job[w].pay \in Updates /\ job[w].row \in Row
            /\ SecretAccepted(EffectiveMode(job[w].pay, job[w].row), job[w].pay.secret,
                              job[w].row.secret)
        BY <2>2, CarriedRow DEF At, Types, Carries, Vetted
      <4>2. id \in DOMAIN hooks
            /\ hooks' = [hooks EXCEPT ![id] = Updated(hooks[id], job[w].pay, job[w].row)]
        BY <1>7, <2>1, <2>5 DEF WriteUpdate
      <4>3. hooks[id] \in Row /\ hooks'[id] = Updated(hooks[id], job[w].pay, job[w].row)
        BY <4>2, HeldRow DEF Types
      <4>4. hooks'[id].mode = EffectiveMode(job[w].pay, hooks[id])
            /\ hooks'[id].secret = SecretStored(job[w].pay.secret, job[w].row.secret)
        BY <4>1, <4>3, UpdatedRow
      <4>5. EffectiveMode(job[w].pay, hooks[id]) = EffectiveMode(job[w].pay, job[w].row)
        BY <2>1, <3>5 DEF EffectiveMode, Unread
      <4>6. job[w].pay.secret \in SecretFields
        BY <4>1, RegistryAssumption DEF UpdateHookPayload
      <4> QED BY <1>2, <3>5, <4>1, <4>4, <4>5, <4>6, SecretSettled
    <3> QED BY <3>3, <3>4, <3>5
  <2> QED BY <2>4, <2>5
<1> QED BY <1>4, <1>5, <1>6, <1>7 DEF Next

-----------------------------------------------------------------------------
(* The trash and its clock.                                                   *)

LEMMA TrashingKept == ASSUME Types, Trashing, [Next]_vars PROVE Trashing'
<1>1. \A i \in Ids :
         liveOn[i] <= day /\ (Trashed(i) /\ i \notin late => liveOn[i] <= hooks[i].deletedAt)
  BY DEF Trashing
<1>2. day \in Nat /\ day' \in Nat /\ day <= day' /\ liveOn \in [Ids -> Days]
      /\ \A i \in Ids : liveOn[i] \in Nat
  BY DayAdvances, Bounds DEF Types, Rest
<1>3. SUFFICES ASSUME NEW i \in Ids
               PROVE  /\ liveOn'[i] <= day'
                      /\ i \in DOMAIN hooks' /\ hooks'[i].deletedAt # Never /\ i \notin late' =>
                            liveOn'[i] <= hooks'[i].deletedAt
  BY DEF Trashing, Trashed
<1>4. CASE UNCHANGED vars
  BY <1>1, <1>4 DEF vars, tables, Trashed
<1>5. CASE Observe
  <2>1. liveOn'[i] = IF LiveNext(i) THEN day' ELSE liveOn[i]
    BY <1>5, Observed
  <2>2. liveOn'[i] <= day'
    BY <1>1, <1>2, <2>1
  <2>3. ASSUME i \in DOMAIN hooks', hooks'[i].deletedAt # Never, i \notin late'
        PROVE  liveOn[i] <= hooks'[i].deletedAt
    <3>0. late' = (late \ Dated) \cup {k \in Dated : Resolving /\ hooks'[k].deletedAt < day}
      BY <1>5, Observed
    <3>1. ASSUME i \in DOMAIN hooks, hooks'[i].deletedAt = hooks[i].deletedAt
          PROVE  liveOn[i] <= hooks'[i].deletedAt
      <4>1. i \notin late
        BY <2>3, <3>0, <3>1 DEF Dated
      <4> QED BY <1>1, <2>3, <3>1, <4>1 DEF Trashed
    <3>2. ASSUME Same(i) PROVE liveOn[i] <= hooks'[i].deletedAt
      BY <3>1, <3>2 DEF Same
    <3>3. CASE SweepStep \/ (NextDay /\ Observe)
      BY <2>3, <3>2, <3>3, SweptRows
    <3>4. ASSUME NEW w \in Workers, Handler(w) PROVE liveOn[i] <= hooks'[i].deletedAt
      <4>1. i \in DOMAIN hooks => hooks[i] \in Row
        BY HeldRow DEF Types
      <4>2. day \in Int /\ Never \in Int
        BY <1>2 DEF Never
      <4>3. CASE \E p \in Creations : hooks'[i] = RowOf(p, Never)
        BY <2>3, <4>2, <4>3, CreatedRow
      <4>4. CASE /\ WriteUpdate(w) /\ i \in DOMAIN hooks
                 /\ hooks'[i] = Updated(hooks[i], job[w].pay, job[w].row)
        <5>1. job[w].pay \in Updates /\ job[w].row \in Row
          BY <4>4, CarriedRow DEF WriteUpdate, At, Types, Carries, Vetted
        <5>2. hooks'[i].deletedAt = hooks[i].deletedAt
          BY <4>1, <4>4, <5>1, UpdatedRow
        <5> QED BY <3>1, <4>4, <5>2
      <4>5. CASE Redated(i, day)
        BY <1>1, <4>1, <4>2, <4>5, Redating DEF Redated
      <4>6. CASE Redated(i, Never)
        BY <2>3, <4>1, <4>2, <4>6, Redating DEF Redated
      <4>7. CASE Resolve(w) /\ Redated(i, job[w].pay)
        <5>1. PICK now : now = job[w].pay
          OBVIOUS
        <5>2. At(w, "resolve") /\ Turns(w, Idle)
          BY <4>7 DEF Resolve, Finish, Turns
        <5>3. now \in 0..day
          BY <5>1, <5>2, CarriedRow DEF At, Types, Carries
        <5>4. i \in DOMAIN hooks /\ hooks'[i].deletedAt = now
          BY <4>1, <4>7, <5>1, <5>3, Redating DEF Redated
        <5>5. CASE hooks'[i].deletedAt = hooks[i].deletedAt
          BY <3>1, <5>4, <5>5
        <5>6. CASE hooks'[i].deletedAt # hooks[i].deletedAt
          <6>1. i \in Dated
            BY <2>3, <5>4, <5>6 DEF Dated
          <6>2. job'[w] = Idle
            BY <5>2, Turned DEF Types
          <6>3. Resolving
            BY <5>2, <6>2, IdleCarries DEF Resolving, At
          <6>4. ~(hooks'[i].deletedAt < day)
            BY <2>3, <3>0, <6>1, <6>3
          <6> QED BY <1>1, <1>2, <5>3, <5>4, <6>4
        <5> QED BY <5>5, <5>6
      <4> QED BY <2>3, <3>2, <3>4, <4>3, <4>4, <4>5, <4>6, <4>7, NewRows
    <3>5. CASE UNCHANGED vars
      BY <2>3, <3>2, <3>5, SweptRows
    <3> QED BY <3>3, <3>4, <3>5 DEF Next
  <2>4. i \in DOMAIN hooks' /\ hooks'[i].deletedAt # Never => liveOn'[i] = liveOn[i]
    BY <2>1 DEF LiveNext
  <2> QED BY <2>2, <2>3, <2>4
<1> QED BY <1>4, <1>5, NextObserves

-----------------------------------------------------------------------------
(* The initial states.                                                        *)

LEMMA InitInv == ASSUME Init PROVE IInv
<1>1. /\ day = 0 /\ ops = 0 /\ stuck \in BOOLEAN /\ trail = [i \in Ids |-> 0]
      /\ job = [w \in Workers |-> Idle] /\ liveOn = [i \in Ids |-> 0] /\ raced = {}
      /\ runs = [i \in Ids |-> IF i \in DOMAIN hooks THEN {0} ELSE {}]
      /\ trashings = [i \in Ids |-> IF Trashed(i) THEN 1 ELSE 0]
      /\ cut = {i \in Ids : Trashed(i)} /\ cascaded = [i \in Ids |-> 0] /\ late = {}
  BY DEF Init
<1>2. 0 \in Days /\ 0 \in 0..MaxOps
  BY Bounds DEF Days
<1>3. Rest
  BY <1>1, <1>2 DEF Rest
<1>4. /\ Rows /\ Lists /\ SecretKept
      /\ \A i \in DOMAIN hooks : i \in Ids /\ hooks[i].deletedAt \in {Never, 0}
  <2>1. CASE hooks = [i \in {} |-> NoRow] /\ params = [i \in Ids |-> <<>>]
    BY <2>1, EmptyAdmissible DEF Rows, Lists, SecretKept
  <2>2. CASE \E p \in Creations, d \in {Never, 0} :
                /\ CreationAccepted(p)
                /\ Distinct(p.params)
                /\ hooks = [i \in {0} |-> RowOf(p, d)]
                /\ params = [i \in Ids |-> IF i = 0 THEN Declared(p.params, 0) ELSE <<>>]
    <3>1. PICK p \in Creations, d \in {Never, 0} :
                /\ CreationAccepted(p)
                /\ Distinct(p.params)
                /\ hooks = [i \in {0} |-> RowOf(p, d)]
                /\ params = [i \in Ids |-> IF i = 0 THEN Declared(p.params, 0) ELSE <<>>]
      BY <2>2
    <3>2. d \in Int /\ d \in 0..0 \cup {Never}
      BY DEF Never
    <3>3. RowOf(p, d) \in Row /\ RowOf(p, d).deletedAt = d
      BY <3>2, CreatedRow
    <3>4. Rows
      BY <1>1, <3>1, <3>2, <3>3, Bounds DEF Rows
    <3>5. Admissible(Declared(p.params, 0))
      BY <3>1, DeclaredTyped, DeclarationsTyped
    <3>6. \A i \in Ids : Admissible(params[i])
      BY <3>1, <3>5, EmptyAdmissible
    <3>7. params \in [Ids -> Seq(ParamRow)]
      BY <3>1, <3>6 DEF Admissible
    <3>8. p.secret \in SecretFields
      BY RegistryAssumption DEF CreateHookPayload
    <3>9. SecretAccepted(p.mode, p.secret, NoSecret)
      BY <3>1 DEF CreationAccepted
    <3>10. RowOf(p, d).mode = p.mode /\ RowOf(p, d).secret = SecretStored(p.secret, NoSecret)
      BY DEF RowOf
    <3>11. ~(RowOf(p, d).mode = "HMAC_ONLY" /\ RowOf(p, d).secret = NoSecret)
      BY <3>8, <3>9, <3>10, SecretSettled
    <3>12. SecretKept
      BY <3>1, <3>11 DEF SecretKept
    <3> QED BY <3>1, <3>3, <3>4, <3>6, <3>7, <3>12, Bounds DEF Lists
  <2> QED BY <2>1, <2>2 DEF Init
<1>5. Jobs
  BY <1>1, IdleCarries DEF Jobs
<1>6. \A w \in Workers : job[w].at = "idle"
  BY <1>1, IdleCarries
<1>7. Counted
  <2>1. Busy = {}
    BY <1>6 DEF Busy, At
  <2>2. Cardinality(Busy) = 0
    BY <2>1, FS_EmptySet
  <2> QED BY <1>1, <2>2 DEF Counted
<1>8. Trashing
  BY <1>1, <1>4 DEF Trashing, Trashed
<1>9. DeletionsAudited
  <2>1. SUFFICES ASSUME NEW id \in Ids
                 PROVE  Balanced(trail[id] + Cardinality(Due(id)), id, trashings, cascaded, cut)
    BY DEF DeletionsAudited, Balanced, Due
  <2>2. Due(id) = {}
    BY <1>6 DEF Due, At
  <2>3. trail[id] = 0 /\ Cardinality(Due(id)) = 0 /\ cascaded[id] = 0
    BY <1>1, <2>2, FS_EmptySet
  <2>4. (Trashed(id) <=> id \in cut) /\ trashings[id] = IF id \in cut THEN 1 ELSE 0
    BY <1>1
  <2>5. trashings[id] >= 0 /\ (id \notin cut => trashings[id] = 0)
    BY <2>4
  <2> QED BY <2>3, <2>5 DEF Balanced
<1> QED BY <1>3, <1>4, <1>5, <1>7, <1>8, <1>9 DEF IInv

LEMMA NextInv == ASSUME IInv, [Next]_vars PROVE IInv'
<1>1. Types
  BY DEF IInv, Types
<1>2. Types'
  BY <1>1, TypesKept
<1> QED BY <1>1, <1>2, CountedKept, TrashingKept, DeletionsKept, SecretsKept DEF IInv, Types

LEMMA Invariance == Spec => []IInv
BY InitInv, NextInv, PTL DEF Spec

-----------------------------------------------------------------------------
(* Theorems.                                                                  *)

(* Every state of the registry is well typed, whatever the payloads and       *)
(* however many requests interleave: in particular a secret column holds no   *)
(* secret or one this service sealed, the clock of a row is in the past, and  *)
(* no hook is audited more often than requests arrived.                       *)
THEOREM TypeCorrect == Spec => []TypeOK
<1>1. ASSUME IInv PROVE TypeOK
  <2>1. \A i \in DOMAIN hooks :
          /\ hooks[i].name \in Names /\ hooks[i].mode \in Modes
          /\ hooks[i].secret \in {NoSecret, Seal("hook")}
          /\ hooks[i].deletedAt \in 0..day \cup {Never}
    BY <1>1 DEF IInv, Rows, Row
  <2>2. \A i \in Ids : \A n \in DOMAIN params[i] : params[i][n].key \in ParamKeys
    <3>1. \A i \in Ids : params[i] \in Seq(ParamRow)
      BY <1>1 DEF IInv, Lists
    <3>2. \A i \in Ids : \A n \in DOMAIN params[i] : params[i][n] \in ParamRow
      BY <3>1
    <3>3. \A r \in ParamRow : r.key \in ParamKeys
      BY DEF ParamRow
    <3> QED BY <3>2, <3>3
  <2>3. trail \in [Ids -> 0..MaxOps]
    <3>1. trail \in [Ids -> Nat] /\ \A i \in Ids : trail[i] + Cardinality(Busy) <= ops
      BY <1>1 DEF IInv, Counted
    <3>2. \A i \in Ids : trail[i] \in 0..MaxOps
      BY <1>1, <3>1, BusyFinite, Bounds DEF IInv, Rest
    <3> QED BY <3>1, <3>2
  <2>4. DOMAIN params = Ids /\ DOMAIN hooks \subseteq Ids /\ \A w \in Workers : job[w].id \in Ids
    BY <1>1 DEF IInv, Lists, Rows, Jobs, Carries
  <2>5. Rest
    BY <1>1 DEF IInv
  <2> QED BY <2>1, <2>2, <2>3, <2>4, <2>5 DEF TypeOK, Rest
<1> QED BY <1>1, Invariance, PTL

(* delete_hook tells every trashing of its own exactly once, but for a        *)
(* request dropped between its two writes, for any number of concurrent       *)
(* deletions, restores, key cascades and purges; and the trashings no row     *)
(* tells are counted one for one by those of delete_api_key.                  *)
THEOREM DeletionsAreAudited == Spec => []DeletionsAudited
<1>1. IInv => DeletionsAudited
  BY DEF IInv
<1> QED BY <1>1, Invariance, PTL

(* A hook in HMAC_ONLY has its secret unless an update_hook overwrote a newer *)
(* row: no sequence of creations and edits that do not race loses it.         *)
THEOREM SecretsAreKept == Spec => []SecretKept
<1>1. IInv => SecretKept
  BY DEF IInv
<1> QED BY <1>1, Invariance, PTL

(* The purge of one step, as NothingPurgedEarly asks. *)
PurgedLate ==
    /\ ops' = ops /\ job' = job =>
          \A id \in DOMAIN hooks \ DOMAIN hooks' :
             id \notin late => day - liveOn[id] > Retention
    /\ \A id \in DOMAIN hooks' \cap DOMAIN hooks : \A d \in runs[id] \ runs'[id] :
          LogRetention > 0 /\ day - d > LogRetention

LEMMA PurgeWaits == ASSUME IInv, [Next]_vars PROVE PurgedLate
<1>0. Types /\ Trashing /\ Retention \in Int /\ LogRetention \in Int
  BY RegistryAssumption DEF IInv, Types
<1>1. day \in Nat /\ (\A i \in DOMAIN hooks : i \in Ids /\ hooks[i].deletedAt \in Int)
      /\ \A i \in Ids : liveOn[i] \in Nat /\ runs[i] \subseteq Nat
  BY <1>0, HeldRow, Bounds DEF Types, Rest, Row
<1>2. CASE (NextDay /\ Observe) \/ UNCHANGED vars
  <2>1. hooks' = hooks /\ runs' = runs
    BY <1>2 DEF NextDay, vars, tables
  <2> QED BY <2>1 DEF PurgedLate
<1>3. CASE SweepStep
  <2>1. DOMAIN hooks' = DOMAIN hooks \ Expired(Retention)
    BY <1>3 DEF SweepStep, Sweep, Swept, Without
  <2>2. runs' = [i \in Ids |-> IF i \in Expired(Retention) THEN {} ELSE runs[i] \ OldRuns(i)]
    BY <1>3 DEF SweepStep, Sweep, Swept
  <2>3. ASSUME NEW id \in DOMAIN hooks \ DOMAIN hooks', id \notin late
        PROVE  day - liveOn[id] > Retention
    <3>1. id \in Expired(Retention) /\ id \in Ids
      BY <1>1, <2>1
    <3>2. Trashed(id) /\ hooks[id].deletedAt < day - Retention
      BY <3>1 DEF Expired
    <3>3. liveOn[id] <= hooks[id].deletedAt
      BY <1>0, <2>3, <3>1, <3>2 DEF Trashing
    <3> QED BY <1>0, <1>1, <3>1, <3>2, <3>3
  <2>4. ASSUME NEW id \in DOMAIN hooks' \cap DOMAIN hooks, NEW d \in runs[id] \ runs'[id]
        PROVE  LogRetention > 0 /\ day - d > LogRetention
    <3>1. id \notin Expired(Retention) /\ id \in Ids
      BY <1>1, <2>1
    <3>2. d \in OldRuns(id) /\ d \in Nat
      BY <1>1, <2>2, <3>1
    <3>3. ~(LogRetention <= 0) /\ d < day - LogRetention
      BY <3>2 DEF OldRuns
    <3> QED BY <1>0, <1>1, <3>2, <3>3
  <2> QED BY <2>3, <2>4 DEF PurgedLate
<1>4. ASSUME NEW w \in Workers, Handler(w) PROVE PurgedLate
  <2>1. \A id \in DOMAIN hooks' \cap DOMAIN hooks : runs'[id] = runs[id]
    <3>1. CASE runs' = runs
      BY <3>1
    <3>2. ASSUME NEW ids, Remove(ids)
          PROVE  \A id \in DOMAIN hooks' \cap DOMAIN hooks : runs'[id] = runs[id]
      BY <1>1, <3>2 DEF Remove, Without
    <3> QED BY <1>4, <3>1, <3>2, HandlerRuns
  <2>2. ASSUME ops' = ops, job' = job PROVE DOMAIN hooks \subseteq DOMAIN hooks'
    <3>1. PICK j : Step(w, j)
      BY <1>0, <1>4, HandlerSteps
    <3>2. ops \in Nat
      BY <1>0, Bounds DEF Types, Rest
    <3>3. ~Begin(w)
      BY <2>2, <3>2 DEF Begin
    <3>4. ~Drop(w)
      <4>1. Drop(w) => At(w, "drop") /\ Turns(w, Idle)
        BY DEF Drop, Finish, Turns
      <4>2. Turns(w, Idle) => job'[w].at = "idle"
        BY <1>0, Turned, IdleCarries DEF Types
      <4> QED BY <2>2, <4>1, <4>2 DEF At
    <3>5. ~Purge(w)
      BY <3>3 DEF Purge
    <3>6. \/ hooks' = hooks
          \/ WriteUpdate(w)
          \/ Trash(w) /\ Live(job[w].id)
          \/ Restore(w) /\ job[w].id \in DOMAIN hooks
          \/ Resolve(w) /\ job[w].id \in DOMAIN hooks
      <4>1. \A p : ~CreateHook(w, p)
        BY <3>3 DEF CreateHook
      <4> QED BY <1>4, <3>4, <3>5, <4>1, Keeps
    <3> QED BY <3>6 DEF WriteUpdate, Trash, Restore, Resolve
  <2> QED BY <2>1, <2>2 DEF PurgedLate
<1> QED BY <1>2, <1>3, <1>4 DEF Next

(* The retention worker never takes a hook that was live within the window,   *)
(* nor an execution within its own, whatever was deleted, restored and        *)
(* deleted again meanwhile; but for a hook that a delete_api_key dated with   *)
(* the time it had read before its loop.                                      *)
THEOREM PurgesAreLate == Spec => NothingPurgedEarly
<1>1. ASSUME IInv, [Next]_vars PROVE [PurgedLate]_vars
  BY <1>1, PurgeWaits
<1> QED BY <1>1, Invariance, PTL DEF Spec, NothingPurgedEarly, PurgedLate

-----------------------------------------------------------------------------
(* What Invocation_proofs says, of the rows the table holds.                  *)

LEMMA HookRowsShaped ==
    ASSUME NEW m \in Modes, NEW s \in {NoSecret, Seal("hook")}, NEW t \in {"none", "hook"},
           NEW h \in {"default", "own"}, NEW p \in {"sha256=", "own="}
    PROVE  [mode |-> m, secret |-> s, template |-> t, header |-> h, prefix |-> p] \in HookShape
<1>1. s \in AtRest("hook")
  BY DEF AtRest
<1> QED BY <1>1 DEF HookShape

(* invocation_auth_middleware admits exactly the entitled, and answers the    *)
(* unidentified as it answers an unknown key but in the two cases that the    *)
(* property names, for every hook that creations and concurrent edits can     *)
(* leave in the table.                                                        *)
THEOREM InvocationsAreVetted == Spec => []InvocationsVetted
<1>1. ASSUME IInv PROVE InvocationsVetted
  <2>1. SUFFICES ASSUME NEW id \in DOMAIN hooks, NEW t \in {"none", "hook"}
                 PROVE  /\ <<hooks[id].mode, t, TRUE>> \in KeyedTable
                        /\ \A h \in {"default", "own"}, p \in {"sha256=", "own="} :
                              <<[mode |-> hooks[id].mode, secret |-> hooks[id].secret,
                                 template |-> t, header |-> h, prefix |-> p], TRUE>> \in KeylessTable
    BY Zenon DEF InvocationsVetted
  <2>2. PICK m : m = hooks[id].mode
    OBVIOUS
  <2>3. PICK s : s = hooks[id].secret
    OBVIOUS
  <2>4. m \in Modes /\ s \in {NoSecret, Seal("hook")}
    BY <1>1, <2>2, <2>3 DEF IInv, Rows, Row
  <2>5. <<m, t, TRUE>> \in KeyedTable
    <3>1. KeyedSound(ReadByKeyed(m, t)) = TRUE
      BY KeyedAlwaysSound, Zenon DEF KeyedSound
    <3>2. <<m, t, KeyedSound(ReadByKeyed(m, t))>> \in KeyedTable
      BY <2>4, SMT DEF KeyedTable
    <3> QED BY <3>1, <3>2, Zenon
  <2>6. ASSUME NEW h \in {"default", "own"}, NEW p \in {"sha256=", "own="}
        PROVE  <<[mode |-> m, secret |-> s, template |-> t, header |-> h, prefix |-> p], TRUE>>
                  \in KeylessTable
    <3>1. PICK hook : hook = [mode |-> m, secret |-> s, template |-> t, header |-> h, prefix |-> p]
      OBVIOUS
    <3>2. hook \in HookShape
      BY <2>4, <3>1, HookRowsShaped
    <3>3. KeylessSound(hook) = TRUE
      BY <3>2, KeylessAlwaysSound, Zenon DEF KeylessSound
    <3>4. <<hook, TRUE>> \in KeylessTable
      BY <3>2, <3>3, Zenon DEF KeylessTable
    <3> QED BY <3>1, <3>4, Zenon
  <2> QED BY <2>2, <2>3, <2>5, <2>6, Zenon
<1> QED BY <1>1, Invariance, PTL

(* A list of distinct parameters is no longer than there are keys. *)
LEMMA DistinctIsShort ==
    ASSUME NEW rows, Admissible(rows)
    PROVE  Len(rows) \in 0..Cardinality(ParamKeys)
<1>1. rows \in Seq(ParamRow) /\ DOMAIN rows = 1..Len(rows) /\ Len(rows) \in Nat
  BY DEF Admissible
<1>2. IsFiniteSet(ParamKeys) /\ Cardinality(ParamKeys) \in Nat
  BY PlanAssumption, FS_CardinalityType
<1>3. PICK f : f = [n \in DOMAIN rows |-> rows[n].key]
  OBVIOUS
<1>4. \A n \in DOMAIN rows : rows[n].key \in ParamKeys
  <2>1. \A n \in DOMAIN rows : rows[n] \in ParamRow
    BY <1>1
  <2>2. \A r \in ParamRow : r.key \in ParamKeys
    BY DEF ParamRow
  <2> QED BY <2>1, <2>2
<1>5. f \in [1..Len(rows) -> ParamKeys]
  BY <1>1, <1>3, <1>4
<1>6. \A m, n \in 1..Len(rows) : f[m] = f[n] => m = n
  BY <1>1, <1>3 DEF Admissible, Distinct
<1>7. f \in Injection(1..Len(rows), ParamKeys)
  BY <1>5, <1>6 DEF Injection, IsInjective
<1>8. Cardinality(1..Len(rows)) <= Cardinality(ParamKeys)
  BY <1>2, <1>7, FS_Injection
<1>9. Cardinality(1..Len(rows)) = Len(rows)
  BY <1>1, FS_Interval
<1> QED BY <1>1, <1>2, <1>8, <1>9

LEMMA ContractListed ==
    ASSUME NEW rows, Admissible(rows)
    PROVE  /\ Contract(rows) \in Contracts
           /\ Contract(rows) \in Seq(Parameter)
<1>1. rows \in Seq(ParamRow) /\ DOMAIN rows = 1..Len(rows) /\ Len(rows) \in Nat
  BY DEF Admissible
<1>2. PICK s : s = Contract(rows)
  OBVIOUS
<1>3. DOMAIN s = 1..Len(rows) /\ \A n \in 1..Len(rows) : s[n] = Bare(rows[n])
  BY <1>1, <1>2 DEF Contract, Bare
<1>4. s = [n \in 1..Len(rows) |-> s[n]]
  BY <1>1, <1>2 DEF Contract
<1>5. \A n \in 1..Len(rows) : s[n] \in AllAmended /\ s[n] \in Parameter /\ s[n].key = rows[n].key
  BY <1>1, <1>3 DEF Admissible, AllAmended, Bare
<1>6. s \in [1..Len(rows) -> AllAmended] /\ s \in [1..Len(rows) -> Parameter]
  BY <1>4, <1>5
<1>7. Distinct(s)
  BY <1>1, <1>3, <1>5 DEF Distinct, Admissible
<1>8. Len(rows) \in 0..Cardinality(ParamKeys)
  BY DistinctIsShort
<1>9. s \in UNION {[1..n -> AllAmended] : n \in 0..Cardinality(ParamKeys)}
  BY <1>6, <1>8
<1>10. s \in Contracts
  BY <1>7, <1>9, Zenon DEF Contracts
<1>11. s \in Seq(Parameter)
  BY <1>1, <1>6
<1> QED BY <1>2, <1>10, <1>11

LEMMA TemplatesTyped == AllTemplates \subseteq Seq(Seq(Piece))
<1>1. \A p \in Creations \cup Updates : p.template.is \in Seq(Seq(Piece))
  <2>1. \A p \in Creations \cup Updates : p.template \in Template
    BY RegistryAssumption DEF CreateHookPayload, UpdateHookPayload
  <2>2. \A t \in Template : t.is \in Seq(Seq(Piece))
    BY DEF Template
  <2> QED BY <2>1, <2>2
<1> QED BY <1>1 DEF AllTemplates

(* test_hook and execute agree, and what runs is closed, for every template   *)
(* and every list of parameters that concurrent edits can leave a hook with.  *)
THEOREM CommandsAlwaysAgree == Spec => []CommandsAgree
<1>1. ASSUME IInv PROVE CommandsAgree
  <2>1. SUFFICES ASSUME NEW id \in DOMAIN hooks, NEW u \in Users
                 PROVE  <<u, hooks[id].template, Contract(params[id]), TRUE>> \in PlanTable
    BY Zenon DEF CommandsAgree
  <2>2. PICK t : t = hooks[id].template
    OBVIOUS
  <2>3. PICK ds : ds = Contract(params[id])
    OBVIOUS
  <2>4. t \in AllTemplates /\ t \in Seq(Seq(Piece))
    BY <1>1, <2>2, TemplatesTyped DEF IInv, Rows, Row
  <2>5. Admissible(params[id])
    BY <1>1 DEF IInv, Rows, Lists
  <2>6. ds \in Contracts /\ ds \in Seq(Parameter)
    BY <2>3, <2>5, ContractListed
  <2>7. DryRunAgrees(u, t, ds)
    BY <2>4, <2>6, DryRunAlwaysAgrees
  <2>8. DryRunAgrees(u, t, ds) = TRUE
    BY <2>7, Zenon DEF DryRunAgrees
  <2>9. <<u, t, ds, DryRunAgrees(u, t, ds)>> \in PlanTable
    BY <2>4, <2>6, SMT DEF PlanTable
  <2>10. <<u, t, ds, TRUE>> \in PlanTable
    BY <2>8, <2>9, Zenon
  <2> QED BY <2>2, <2>3, <2>10, Zenon
<1> QED BY <1>1, Invariance, PTL
=============================================================================
