------------------------- MODULE SchemaRegistryProofs -------------------------
(***************************************************************************)
(* Proofs about ensureSchema for any number of schemas and clients: who is *)
(* told that a schema was created, and what a call that resolves has done. *)
(***************************************************************************)
EXTENDS SchemaRegistry, FiniteSetTheorems, TLAPS

Present(c, x) == ensuring[c][x] \in {"found", "created"}

PresentIsRegistered ==
    \A c \in Clients, x \in Schemas : Present(c, x) => x \in registered

OneCreator ==
    \A x \in Schemas : \A c, d \in Clients :
        ensuring[c][x] = "created" /\ ensuring[d][x] = "created" => c = d

ResolvedIsOver ==
    \A c \in Clients : outcome[c] = "resolved" =>
        \A x \in Schemas : ensuring[c][x] = "none" \/ Present(c, x)

(* The inductive invariant.  That a creator is the only one needs that the *)
(* schema was unregistered when it registered it, so nobody else had found *)
(* or created it; a resolved call must have no promise left that could     *)
(* still change.                                                           *)
SchemaInv == SchemaTypeOK /\ PresentIsRegistered /\ OneCreator /\ ResolvedIsOver

(* The state is well typed from the start. *)
LEMMA InitSchemaInv == SchemaInit => SchemaInv
BY DEF SchemaInit, SchemaInv, SchemaTypeOK, PresentIsRegistered, OneCreator,
       ResolvedIsOver, Present, Phases

(* A call whose promises are abandoned has none. *)
LEMMA AbandonedPromises ==
    ASSUME NEW c \in Clients, SchemaTypeOK, Abandon(c)
    PROVE  /\ ensuring' \in [Clients -> [Schemas -> Phases]]
           /\ leftover' \subseteq Schemas \ registered
           /\ \A d \in Clients, x \in Schemas :
                  ensuring'[d][x] = IF d = c THEN "none" ELSE ensuring[d][x]
BY DEF Abandon, SchemaTypeOK, Phases

(* A step of one promise that registers nothing and creates nothing, for a *)
(* call that has not resolved, keeps the invariant.                        *)
LEMMA ProceedKeepsInv ==
    ASSUME NEW c \in Clients, NEW x \in Schemas, NEW phase \in Phases,
           SchemaInv, Proceed(c, x, phase), UNCHANGED <<registered, leftover>>,
           Running(c, x), phase # "created",
           phase = "found" => x \in registered
    PROVE  SchemaInv'
<1> USE DEF SchemaInv, Proceed, Running, Present, Phases
<1>1. SchemaTypeOK'
  BY DEF SchemaTypeOK
<1>2. \A d \in Clients, y \in Schemas :
          ensuring'[d][y] = IF d = c /\ y = x THEN phase ELSE ensuring[d][y]
  BY DEF SchemaTypeOK
<1>3. PresentIsRegistered'
  BY <1>2 DEF PresentIsRegistered
<1>4. OneCreator'
  BY <1>2 DEF OneCreator
<1>5. ResolvedIsOver'
  BY <1>2 DEF ResolvedIsOver
<1> QED
  BY <1>1, <1>3, <1>4, <1>5

(* The transaction that registers a schema makes its sender its creator. *)
LEMMA RegisterKeepsInv ==
    ASSUME NEW c \in Clients, NEW x \in Schemas, SchemaInv, Register(c, x)
    PROVE  SchemaInv'
<1> USE DEF SchemaInv, Present, Phases
<1>1. PICK phase \in {"created", "failed"} : Proceed(c, x, phase)
  BY DEF Register
<1>2. /\ registered' = registered \cup {x} /\ x \notin registered /\ ensuring[c][x] = "register"
      /\ leftover' = leftover \ {x}
  BY DEF Register, Registers
<1>3. SchemaTypeOK'
  BY <1>1, <1>2 DEF SchemaTypeOK, Proceed
<1>4. \A d \in Clients, y \in Schemas :
          ensuring'[d][y] = IF d = c /\ y = x THEN phase ELSE ensuring[d][y]
  BY <1>1 DEF SchemaTypeOK, Proceed
<1>5. PresentIsRegistered'
  BY <1>2, <1>4 DEF PresentIsRegistered
<1>6. \A d \in Clients : ensuring[d][x] # "created"
  BY <1>2 DEF PresentIsRegistered
<1>7. OneCreator'
  BY <1>4, <1>6 DEF OneCreator
<1>8. ResolvedIsOver'
  BY <1>1, <1>2, <1>4 DEF ResolvedIsOver, Proceed
<1> QED
  BY <1>3, <1>5, <1>7, <1>8

(* A new call forgets the client's earlier promises. *)
LEMMA EnsureKeepsInv ==
    ASSUME NEW c \in Clients, NEW X, SchemaInv, Ensure(c, X)
    PROVE  SchemaInv'
<1> USE DEF SchemaInv, Present, Phases
<1>1. SchemaTypeOK'
  BY DEF SchemaTypeOK, Ensure
<1>2. \A d \in Clients, y \in Schemas :
          ensuring'[d][y] = IF d = c THEN (IF y \in X THEN "query" ELSE "none")
                            ELSE ensuring[d][y]
  BY DEF SchemaTypeOK, Ensure
<1>3. PresentIsRegistered' /\ OneCreator'
  BY <1>2 DEF PresentIsRegistered, OneCreator, Ensure
<1>4. ResolvedIsOver'
  BY <1>2 DEF ResolvedIsOver, Ensure, SchemaTypeOK
<1> QED
  BY <1>1, <1>3, <1>4

(* Resolving changes the outcome alone. *)
LEMMA ResolveKeepsInv ==
    ASSUME NEW c \in Clients, SchemaInv, Resolve(c)
    PROVE  SchemaInv'
<1> USE DEF SchemaInv, Present
<1>1. SchemaTypeOK'
  BY DEF SchemaTypeOK, Resolve
<1>2. PresentIsRegistered' /\ OneCreator'
  BY DEF PresentIsRegistered, OneCreator, Resolve
<1>3. ResolvedIsOver'
  <2> SUFFICES ASSUME NEW d \in Clients, outcome'[d] = "resolved", NEW x \in Schemas
               PROVE  ensuring[d][x] = "none" \/ Present(d, x)
    BY DEF ResolvedIsOver, Resolve
  <2>1. CASE d = c
    BY <2>1 DEF Resolve, SchemaTypeOK
  <2>2. CASE d # c
    BY <2>2 DEF Resolve, SchemaTypeOK, ResolvedIsOver
  <2> QED
    BY <2>1, <2>2
<1> QED
  BY <1>1, <1>2, <1>3

(* A rejected call has no promises any more. *)
LEMMA RejectKeepsInv ==
    ASSUME NEW c \in Clients, SchemaInv, RejectAll(c)
    PROVE  SchemaInv'
<1> USE DEF SchemaInv, Present
<1>1. Abandon(c) /\ outcome' = [outcome EXCEPT ![c] = "rejected"] /\ registered' = registered
  BY DEF RejectAll
<1>2. /\ ensuring' \in [Clients -> [Schemas -> Phases]]
      /\ leftover' \subseteq Schemas \ registered
      /\ \A d \in Clients, x \in Schemas :
             ensuring'[d][x] = IF d = c THEN "none" ELSE ensuring[d][x]
  BY <1>1, AbandonedPromises
<1>3. SchemaTypeOK'
  BY <1>1, <1>2 DEF SchemaTypeOK
<1>4. PresentIsRegistered' /\ OneCreator'
  BY <1>1, <1>2 DEF PresentIsRegistered, OneCreator
<1>5. ResolvedIsOver'
  BY <1>1, <1>2 DEF ResolvedIsOver, SchemaTypeOK
<1> QED
  BY <1>3, <1>4, <1>5

(* A promise that nobody awaits makes nobody a creator. *)
LEMMA LateRegisterKeepsInv ==
    ASSUME NEW x \in Schemas, SchemaInv, LateRegister(x)
    PROVE  SchemaInv'
BY DEF SchemaInv, LateRegister, Registers, SchemaTypeOK, PresentIsRegistered, OneCreator,
       ResolvedIsOver, Present

(* Every step keeps the invariant. *)
LEMMA NextSchemaInv == SchemaInv /\ [SchemaNext]_schemaVars => SchemaInv'
<1> SUFFICES ASSUME SchemaInv, [SchemaNext]_schemaVars
             PROVE  SchemaInv'
  OBVIOUS
<1>1. CASE UNCHANGED schemaVars
  BY <1>1 DEF schemaVars, SchemaInv, SchemaTypeOK, PresentIsRegistered, OneCreator,
              ResolvedIsOver, Present
<1>2. ASSUME NEW c \in Clients, NEW X \in Lists[c], Ensure(c, X)
      PROVE  SchemaInv'
  BY <1>2, EnsureKeepsInv
<1>3. ASSUME NEW c \in Clients, Resolve(c) \/ RejectAll(c)
      PROVE  SchemaInv'
  BY <1>3, ResolveKeepsInv, RejectKeepsInv
<1>4. ASSUME NEW c \in Clients, NEW x \in Schemas, Register(c, x)
      PROVE  SchemaInv'
  BY <1>4, RegisterKeepsInv
<1>5. ASSUME NEW c \in Clients, NEW x \in Schemas, QueryFound(c, x)
      PROVE  SchemaInv'
  <2>1. Proceed(c, x, "found") /\ UNCHANGED <<registered, leftover>> /\ Running(c, x) /\ x \in registered
    BY <1>5 DEF QueryFound, Running
  <2> QED
    BY <2>1, ProceedKeepsInv DEF Phases
<1>6. ASSUME NEW c \in Clients, NEW x \in Schemas, QueryThrows(c, x)
      PROVE  SchemaInv'
  <2>1. Proceed(c, x, "register") /\ UNCHANGED <<registered, leftover>> /\ Running(c, x)
    BY <1>6 DEF QueryThrows, Running
  <2> QED
    BY <2>1, ProceedKeepsInv DEF Phases
<1>7. ASSUME NEW c \in Clients, NEW x \in Schemas, RegisterFails(c, x)
      PROVE  SchemaInv'
  <2>1. Proceed(c, x, "failed") /\ UNCHANGED <<registered, leftover>> /\ Running(c, x)
    BY <1>7 DEF RegisterFails, Running
  <2> QED
    BY <2>1, ProceedKeepsInv DEF Phases
<1>8. ASSUME NEW x \in Schemas, LateRegister(x)
      PROVE  SchemaInv'
  BY <1>8, LateRegisterKeepsInv
<1> QED
  BY <1>1, <1>2, <1>3, <1>4, <1>5, <1>6, <1>7, <1>8 DEF SchemaNext, EnsureStep

(* The invariant gives both properties that the runs check. *)
LEMMA InvMeansCreatedOnce == SchemaInv => CreatedOnce
<1> SUFFICES ASSUME SchemaInv, NEW x \in Schemas
             PROVE  /\ Cardinality({c \in Clients : ensuring[c][x] = "created"}) <= 1
                    /\ \A c \in Clients : ensuring[c][x] \in {"found", "created"} => x \in registered
  BY DEF CreatedOnce
<1> DEFINE Creators == {c \in Clients : ensuring[c][x] = "created"}
<1>1. Cardinality(Creators) <= 1
  <2>1. CASE Creators = {}
    BY <2>1, FS_EmptySet
  <2>2. CASE Creators # {}
    <3>1. PICK c \in Clients : c \in Creators
      BY <2>2
    <3>2. Creators = {c}
      BY <3>1 DEF SchemaInv, OneCreator
    <3>3. Cardinality({c}) = 1
      BY FS_Singleton
    <3> HIDE DEF Creators
    <3> QED
      BY <3>2, <3>3
  <2> QED
    BY <2>1, <2>2
<1>2. \A c \in Clients : ensuring[c][x] \in {"found", "created"} => x \in registered
  BY DEF SchemaInv, PresentIsRegistered, Present
<1> QED
  BY <1>1, <1>2

(* However many clients ensure a schema at once, at most one of them is    *)
(* told that it created it, and it exists by then.                         *)
THEOREM SchemasCreatedOnce == SchemaSpec => []CreatedOnce
<1>1. SchemaSpec => []SchemaInv
  BY InitSchemaInv, NextSchemaInv, PTL DEF SchemaSpec
<1> QED
  BY <1>1, InvMeansCreatedOnce, PTL

(* A call that resolves leaves all its schemas registered. *)
THEOREM ResolvedCallsRegistered == SchemaSpec => []ResolvedMeansRegistered
<1>1. SchemaInv => ResolvedMeansRegistered
  BY DEF SchemaInv, ResolvedMeansRegistered, ResolvedIsOver, PresentIsRegistered
<1>2. SchemaSpec => []SchemaInv
  BY InitSchemaInv, NextSchemaInv, PTL DEF SchemaSpec
<1> QED
  BY <1>1, <1>2, PTL
=============================================================================
