--------------------------- MODULE KeyCacheProofs ---------------------------
(***************************************************************************)
(* Proofs about KeyCache, for all parameters, tags, indices and releases:  *)
(* Inv is inductive as it stands, and ClearsExactly follows from it.       *)
(***************************************************************************)
EXTENDS KeyCache, WellFoundedInduction, TLAPS

(* The context of p that a search finds or makes has the parameters p.     *)
LEMMA TheContextFacts ==
  ASSUME TypeOK, NEW p \in Param
  PROVE  /\ TheContext(p) \in Context
         /\ TheContext(p).params = p
         /\ FindContext(p) # {} => TheContext(p) \in AllContexts
         /\ FindContext(p) = {} => TheContext(p) = [params |-> p,
                                                    id |-> made[p]]
<1>1. CASE FindContext(p) # {}
  <2>1. TheContext(p) \in FindContext(p)
    BY <1>1 DEF TheContext
  <2> QED BY <1>1, <2>1 DEF FindContext, TypeOK
<1>2. CASE FindContext(p) = {}
  <2>1. TheContext(p) = [params |-> p, id |-> made[p]]
    BY <1>2 DEF TheContext
  <2>2. made[p] \in Nat
    BY DEF TypeOK
  <2> QED BY <1>2, <2>1, <2>2 DEF Context
<1> QED BY <1>1, <1>2

(* What loading an object does to the list of contexts: those of its       *)
(* parameters are listed afterwards, each once.                            *)
LEMMA LoadFacts ==
  ASSUME TypeOK, OneContext, NEW P \in SUBSET Param, Load(P)
  PROVE  /\ AllContexts' \subseteq Context /\ made' \in [Param -> Nat]
         /\ released' = released
         /\ AllContexts \subseteq AllContexts'
         /\ \A p \in P : TheContext(p) \in AllContexts'
         /\ OneContext'
<1>1. AllContexts' = AllContexts \cup {TheContext(p) : p \in P}
  BY DEF Load
<1>2. released' = released
  BY DEF Load
<1>3. /\ made' \in [Param -> Nat]
      /\ \A p \in Param : made'[p] >= made[p]
      /\ \A p \in P : FindContext(p) = {} => made'[p] = made[p] + 1
  BY DEF Load, TypeOK
<1>4. AllContexts' \subseteq Context
  BY <1>1, TheContextFacts DEF TypeOK
<1>5. ASSUME NEW c \in AllContexts', NEW d \in AllContexts',
             c.params = d.params
      PROVE  c = d
  <2>1. ASSUME NEW p \in P, NEW e \in AllContexts, e.params = p
        PROVE  e = TheContext(p)
    <3>1. e \in FindContext(p)
      BY <2>1 DEF FindContext
    <3>2. TheContext(p) \in AllContexts /\ TheContext(p).params = p
      BY <3>1, TheContextFacts
    <3> QED BY <2>1, <3>2 DEF OneContext
  <2>2. \A p \in P : TheContext(p).params = p
    BY TheContextFacts
  <2>3. CASE c \in AllContexts /\ d \in AllContexts
    BY <1>5, <2>3 DEF OneContext
  <2>4. CASE c \in AllContexts /\ d \notin AllContexts
    BY <1>1, <1>5, <2>1, <2>2, <2>4
  <2>5. CASE c \notin AllContexts /\ d \in AllContexts
    BY <1>1, <1>5, <2>1, <2>2, <2>5
  <2>6. CASE c \notin AllContexts /\ d \notin AllContexts
    BY <1>1, <1>5, <2>2, <2>6
  <2> QED BY <2>3, <2>4, <2>5, <2>6
<1>6. ASSUME NEW c \in AllContexts'
      PROVE  c.id < made'[c.params]
  <2>1. CASE c \in AllContexts
    <3>1. c.params \in Param /\ c.id \in Nat /\ c.id < made[c.params]
      BY <2>1 DEF TypeOK, Context, OneContext
    <3>2. made[c.params] \in Nat /\ made'[c.params] \in Nat
      BY <3>1, <1>3 DEF TypeOK
    <3> QED BY <3>1, <3>2, <1>3
  <2>2. CASE c \notin AllContexts
    <3>1. PICK p \in P : c = TheContext(p)
      BY <1>1, <2>2
    <3>2. FindContext(p) = {}
      BY <2>2, <3>1, TheContextFacts
    <3>3. c = [params |-> p, id |-> made[p]]
      BY <3>1, <3>2, TheContextFacts
    <3>4. made[p] \in Nat /\ made'[p] = made[p] + 1
      BY <3>2, <1>3 DEF TypeOK
    <3> QED BY <3>3, <3>4
  <2> QED BY <2>1, <2>2
<1>7. OneContext'
  BY <1>5, <1>6 DEF OneContext
<1> QED BY <1>1, <1>2, <1>3, <1>4, <1>7

(* Loading keeps whatever holds of the tables it does not write.           *)
LEMMA LoadInv ==
  ASSUME Inv, NEW P \in SUBSET Param, Load(P)
  PROVE  /\ OneContext' /\ made' \in [Param -> Nat]
         /\ AllContexts' \subseteq Context /\ released' = released
         /\ AllContexts \subseteq AllContexts'
         /\ \A p \in P : TheContext(p) \in Context \cap AllContexts'
         /\ \A p \in P : TheContext(p).params = p
BY LoadFacts, TheContextFacts DEF Inv

(* The factory's calls preserve the invariant: a generated key has a fresh *)
(* tag and a listed context, a reloaded one keeps tag and parameters.      *)
LEMMA FactoryInv ==
  ASSUME Inv, Factory
  PROVE  Inv'
<1>1. ASSUME NEW p \in Param, GetContext(p)
      PROVE  Inv'
  <2>1. Load({p}) /\ UNCHANGED <<secretKeys, multKeys, autoKeys, files>>
    BY <1>1 DEF GetContext
  <2>2. /\ OneContext' /\ made' \in [Param -> Nat]
        /\ AllContexts' \subseteq Context /\ released' = released
        /\ AllContexts \subseteq AllContexts'
    BY <2>1, LoadInv
  <2>3. TypeOK'
    BY <2>1, <2>2 DEF Inv, TypeOK, files
  <2>4. OneKey' /\ SameParams'
    BY <2>1 DEF Inv, OneKey, SameParams, Belongs, files
  <2>5. Listed'
    BY <2>1, <2>2 DEF Inv, Listed
  <2> QED BY <2>2, <2>3, <2>4, <2>5 DEF Inv
<1>2. CASE ReleaseAllContexts
  <2>1. /\ AllContexts' = {} /\ released' = released + 1
        /\ released < MaxReleases
        /\ UNCHANGED <<made, secretKeys, multKeys, autoKeys, files>>
    BY <1>2 DEF ReleaseAllContexts
  <2>2. released \in Nat /\ MaxReleases \in Nat /\ released <= MaxReleases
    BY KeyCacheAssumption DEF Inv, TypeOK
  <2>3. released' \in 0..MaxReleases /\ released' # 0
    BY <2>1, <2>2
  <2>4. TypeOK'
    BY <2>1, <2>3 DEF Inv, TypeOK, files
  <2>5. OneKey' /\ SameParams'
    BY <2>1 DEF Inv, OneKey, SameParams, Belongs, files
  <2>6. OneContext' /\ Listed'
    BY <2>1, <2>3 DEF OneContext, Listed
  <2> QED BY <2>4, <2>5, <2>6 DEF Inv
<1>3. ASSUME NEW c \in AllContexts, NEW u \in Tag, KeyGen(c, u)
      PROVE  Inv'
  <2>1. /\ \A s \in secretKeys : s.tag # u
        /\ secretKeys' = secretKeys \cup {[tag |-> u, cc |-> c]}
        /\ UNCHANGED <<registry, multKeys, autoKeys, files>>
    BY <1>3 DEF KeyGen
  <2>2. TypeOK' /\ OneContext' /\ OneKey'
    BY <2>1 DEF Inv, TypeOK, OneContext, OneKey, SecretKey, registry, files
  <2>3. SameParams'
    BY <2>1 DEF Inv, SameParams, Belongs, files
  <2>4. Listed'
    BY <2>1 DEF Inv, Listed, registry
  <2> QED BY <2>2, <2>3, <2>4 DEF Inv
<1>4. ASSUME NEW s \in secretKeys, ReloadSecretKey(s)
      PROVE  Inv'
  <2> DEFINE p == s.cc.params
             k == [tag |-> s.tag, cc |-> TheContext(p)]
  <2>1. p \in Param /\ s.tag \in Tag
    BY DEF Inv, TypeOK, SecretKey, Context
  <2>2. /\ Load({p}) /\ secretKeys' = secretKeys \cup {k}
        /\ UNCHANGED <<multKeys, autoKeys, files>>
    BY <1>4 DEF ReloadSecretKey
  <2>3. /\ OneContext' /\ made' \in [Param -> Nat]
        /\ AllContexts' \subseteq Context /\ released' = released
        /\ AllContexts \subseteq AllContexts'
        /\ k.cc \in Context \cap AllContexts' /\ k.cc.params = p
        /\ k.tag = s.tag /\ k \in SecretKey
    BY <2>1, <2>2, LoadInv DEF SecretKey
  <2> HIDE DEF k
  <2>4. TypeOK'
    BY <2>2, <2>3 DEF Inv, TypeOK, files
  <2>5. OneKey'
    BY <2>2 DEF Inv, OneKey, files
  <2>6. SameParams'
    BY <2>2, <2>3 DEF Inv, SameParams, Belongs, files
  <2>7. Listed'
    BY <2>2, <2>3 DEF Inv, Listed
  <2> QED BY <2>3, <2>4, <2>5, <2>6, <2>7 DEF Inv
<1> QED BY <1>1, <1>2, <1>3, <1>4 DEF Factory

(* Keeping some keys of a map keeps the invariant.                         *)
LEMMA KeepInv ==
  ASSUME Inv, NEW K,
         \/ K \subseteq multKeys /\ KeepMultKeys(K)
         \/ K \subseteq autoKeys /\ KeepAutoKeys(K)
  PROVE  Inv'
<1>1. /\ multKeys' \subseteq multKeys /\ autoKeys' \subseteq autoKeys
      /\ UNCHANGED <<registry, secretKeys, files>>
  BY DEF KeepMultKeys, KeepAutoKeys
<1> QED BY <1>1 DEF Inv, TypeOK, OneContext, OneKey, SameParams, Belongs,
                    Listed, registry, files

(* Saving some keys of a map keeps the invariant: an entry has the tag and *)
(* the parameters of a filed key.                                          *)
LEMMA SaveInv ==
  ASSUME Inv, NEW K,
         \/ K \subseteq multKeys /\ SaveMultKeys(K)
         \/ K \subseteq autoKeys /\ SaveAutoKeys(K)
  PROVE  Inv'
<1>1. UNCHANGED <<registry, secretKeys, multKeys, autoKeys>>
  BY DEF SaveMultKeys, SaveAutoKeys
<1>2. \A e \in multFile' : \E k \in multKeys :
        e = [tag |-> k.tag, params |-> k.cc.params]
  BY DEF SaveMultKeys, SaveAutoKeys
<1>3. \A e \in autoFile' : \E k \in autoKeys :
        e = [tag |-> k.tag, index |-> k.index, params |-> k.cc.params]
  BY DEF SaveMultKeys, SaveAutoKeys
<1>4. TypeOK'
  BY <1>1, <1>2, <1>3 DEF Inv, TypeOK, MultKey, AutoKey, Context, MultEntry,
                          AutoEntry, registry
<1>5. OneContext' /\ Listed'
  BY <1>1 DEF Inv, OneContext, Listed, registry
<1>6. OneKey'
  BY <1>1, <1>2, <1>3 DEF Inv, OneKey
<1>7. SameParams'
  BY <1>1, <1>2, <1>3 DEF Inv, SameParams, Belongs
<1> QED BY <1>4, <1>5, <1>6, <1>7 DEF Inv

(* Loading relinearization keys: each of those filed is the first of its   *)
(* tag.                                                                    *)
LEMMA DeserializeMultInv ==
  ASSUME Inv, DeserializeEvalMultKey
  PROVE  Inv'
<1> DEFINE P == {e.params : e \in multFile}
           Key(e) == [tag |-> e.tag, cc |-> TheContext(e.params)]
<1>1. P \in SUBSET Param
  BY DEF Inv, TypeOK, MultEntry
<1>2. /\ Load(P) /\ multKeys' = multKeys \cup {Key(e) : e \in InsertedMult}
      /\ UNCHANGED <<secretKeys, autoKeys, files>>
  BY DEF DeserializeEvalMultKey
<1>3. /\ OneContext' /\ made' \in [Param -> Nat]
      /\ AllContexts' \subseteq Context /\ released' = released
      /\ AllContexts \subseteq AllContexts'
      /\ \A p \in P : /\ TheContext(p) \in Context \cap AllContexts'
                      /\ TheContext(p).params = p
  BY <1>1, <1>2, LoadInv
<1>4. \A k \in multKeys' : k \in multKeys \/ \E e \in InsertedMult : k = Key(e)
  BY <1>2
<1>5. ASSUME NEW e \in InsertedMult
      PROVE  /\ e \in multFile /\ e.tag \in Tag /\ ~MultFiled(e.tag)
             /\ Key(e).tag = e.tag /\ Key(e).cc.params = e.params
             /\ Key(e).cc \in AllContexts' /\ Key(e) \in MultKey
  <2>1. e \in multFile /\ e.tag \in Tag /\ e.params \in P
    BY DEF InsertedMult, Inv, TypeOK, MultEntry
  <2>2. e.tag <= e.tag
    BY <2>1, KeyCacheAssumption
  <2>3. ~MultFiled(e.tag)
    BY <2>1, <2>2 DEF InsertedMult
  <2> QED BY <2>1, <2>3, <1>3 DEF MultKey
<1> HIDE DEF Key, P
<1>6. TypeOK'
  <2>1. multKeys' \subseteq MultKey
    BY <1>4, <1>5 DEF Inv, TypeOK
  <2> QED BY <2>1, <1>2, <1>3 DEF Inv, TypeOK, files
<1>7. OneKey'
  <2>1. ASSUME NEW j \in multKeys', NEW k \in multKeys', j.tag = k.tag
        PROVE  j = k
    <3>1. CASE j \in multKeys /\ k \in multKeys
      BY <2>1, <3>1 DEF Inv, OneKey
    <3>2. ASSUME NEW e \in InsertedMult, NEW i \in multKeys
          PROVE  i.tag # Key(e).tag
      BY <1>5, <3>2 DEF MultFiled
    <3>3. ASSUME NEW e \in InsertedMult, NEW f \in InsertedMult,
                 Key(e).tag = Key(f).tag
          PROVE  e = f
      BY <1>5, <3>3 DEF Inv, OneKey
    <3> QED BY <1>4, <2>1, <3>1, <3>2, <3>3
  <2> QED BY <2>1, <1>2 DEF Inv, OneKey, files
<1>8. SameParams'
  <2>1. ASSUME NEW e \in InsertedMult
        PROVE  Belongs(Key(e).tag, Key(e).cc.params)
    BY <1>5 DEF Inv, SameParams
  <2>2. \A k \in multKeys' : Belongs(k.tag, k.cc.params)
    BY <1>4, <2>1 DEF Inv, SameParams
  <2> QED BY <2>2, <1>2 DEF Inv, SameParams, Belongs, files
<1>9. Listed'
  <2>1. released = 0 => \A k \in multKeys' : k.cc \in AllContexts'
    BY <1>3, <1>4, <1>5 DEF Inv, Listed
  <2> QED BY <2>1, <1>2, <1>3 DEF Inv, Listed
<1> QED BY <1>3, <1>6, <1>7, <1>8, <1>9 DEF Inv

(* Loading automorphism keys: each of those filed is the first of its tag  *)
(* and index.                                                              *)
LEMMA DeserializeAutoInv ==
  ASSUME Inv, DeserializeEvalAutomorphismKey
  PROVE  Inv'
<1> DEFINE P == {e.params : e \in autoFile}
           E == {f \in autoFile : ~AutoFiled(f.tag, f.index)}
           Key(e) == [tag |-> e.tag, index |-> e.index,
                      cc |-> TheContext(e.params)]
<1>1. P \in SUBSET Param
  BY DEF Inv, TypeOK, AutoEntry
<1>2. /\ Load(P) /\ autoKeys' = autoKeys \cup {Key(e) : e \in E}
      /\ UNCHANGED <<secretKeys, multKeys, files>>
  BY DEF DeserializeEvalAutomorphismKey
<1>3. /\ OneContext' /\ made' \in [Param -> Nat]
      /\ AllContexts' \subseteq Context /\ released' = released
      /\ AllContexts \subseteq AllContexts'
      /\ \A p \in P : /\ TheContext(p) \in Context \cap AllContexts'
                      /\ TheContext(p).params = p
  BY <1>1, <1>2, LoadInv
<1>4. \A k \in autoKeys' : k \in autoKeys \/ \E e \in E : k = Key(e)
  BY <1>2
<1>5. ASSUME NEW e \in E
      PROVE  /\ e \in autoFile /\ ~AutoFiled(e.tag, e.index)
             /\ Key(e).tag = e.tag /\ Key(e).index = e.index
             /\ Key(e).cc.params = e.params
             /\ Key(e).cc \in AllContexts' /\ Key(e) \in AutoKey
  <2>1. e \in AutoEntry /\ e.params \in P
    BY DEF Inv, TypeOK
  <2> QED BY <2>1, <1>3 DEF AutoEntry, AutoKey
<1> HIDE DEF Key, P, E
<1>6. TypeOK'
  <2>1. autoKeys' \subseteq AutoKey
    BY <1>4, <1>5 DEF Inv, TypeOK
  <2> QED BY <2>1, <1>2, <1>3 DEF Inv, TypeOK, files
<1>7. OneKey'
  <2>1. ASSUME NEW j \in autoKeys', NEW k \in autoKeys',
               j.tag = k.tag, j.index = k.index
        PROVE  j = k
    <3>1. CASE j \in autoKeys /\ k \in autoKeys
      BY <2>1, <3>1 DEF Inv, OneKey
    <3>2. ASSUME NEW e \in E, NEW i \in autoKeys
          PROVE  i.tag # Key(e).tag \/ i.index # Key(e).index
      BY <1>5, <3>2 DEF AutoFiled
    <3>3. ASSUME NEW e \in E, NEW f \in E,
                 Key(e).tag = Key(f).tag, Key(e).index = Key(f).index
          PROVE  e = f
      BY <1>5, <3>3 DEF Inv, OneKey
    <3> QED BY <1>4, <2>1, <3>1, <3>2, <3>3
  <2> QED BY <2>1, <1>2 DEF Inv, OneKey, files
<1>8. SameParams'
  <2>1. ASSUME NEW e \in E
        PROVE  Belongs(Key(e).tag, Key(e).cc.params)
    BY <1>5 DEF Inv, SameParams
  <2>2. \A k \in autoKeys' : Belongs(k.tag, k.cc.params)
    BY <1>4, <2>1 DEF Inv, SameParams
  <2> QED BY <2>2, <1>2 DEF Inv, SameParams, Belongs, files
<1>9. Listed'
  <2>1. released = 0 => \A k \in autoKeys' : k.cc \in AllContexts'
    BY <1>3, <1>4, <1>5 DEF Inv, Listed
  <2> QED BY <2>1, <1>2, <1>3 DEF Inv, Listed
<1> QED BY <1>3, <1>6, <1>7, <1>8, <1>9 DEF Inv

(* Generating evaluation keys: they get the tag and the context of the     *)
(* secret key.                                                             *)
LEMMA GenerateInv ==
  ASSUME Inv, NEW s \in secretKeys,
         EvalMultKeyGen(s) \/ \E I \in SUBSET Index :
                                EvalAutomorphismKeyGen(s, I)
  PROVE  Inv'
<1>1. s.tag \in Tag /\ s.cc \in Context /\ Belongs(s.tag, s.cc.params)
  BY DEF Inv, TypeOK, SecretKey, Belongs
<1>2. /\ UNCHANGED <<registry, secretKeys, files>>
      /\ \A k \in multKeys' : k \in multKeys \/
                              k = [tag |-> s.tag, cc |-> s.cc]
      /\ \A k \in autoKeys' : k \in autoKeys \/
            \E i \in Index : /\ ~AutoFiled(s.tag, i)
                            /\ k = [tag |-> s.tag, index |-> i,
                                     cc |-> s.cc]
  BY DEF EvalMultKeyGen, EvalAutomorphismKeyGen
<1>3. multKeys' = multKeys \/ ~MultFiled(s.tag)
  BY DEF EvalMultKeyGen, EvalAutomorphismKeyGen
<1>4. TypeOK'
  BY <1>1, <1>2 DEF Inv, TypeOK, MultKey, AutoKey, registry, files
<1>5. OneKey'
  <2>1. \A j, k \in multKeys' : j.tag = k.tag => j = k
    BY <1>2, <1>3 DEF Inv, OneKey, MultFiled
  <2>2. \A j, k \in autoKeys' : j.tag = k.tag /\ j.index = k.index => j = k
    BY <1>2 DEF Inv, OneKey, AutoFiled
  <2> QED BY <1>2, <2>1, <2>2 DEF Inv, OneKey, files
<1>6. SameParams'
  BY <1>1, <1>2 DEF Inv, SameParams, Belongs, files
<1>7. OneContext' /\ Listed'
  BY <1>2 DEF Inv, OneContext, Listed, registry
<1> QED BY <1>4, <1>5, <1>6, <1>7 DEF Inv

(* The three tables agree through every call.                              *)
THEOREM Invariance == Spec => []Inv
<1>1. Init => Inv
  BY KeyCacheAssumption
  DEF Init, Inv, TypeOK, OneContext, OneKey, SameParams, Belongs, Listed
<1>2. Inv /\ [Next]_vars => Inv'
  <2> SUFFICES ASSUME Inv, [Next]_vars
               PROVE  Inv'
    OBVIOUS
  <2>1. CASE Factory
    BY <2>1, FactoryInv
  <2>2. CASE MultCall
    <3>1. ASSUME NEW K, K \subseteq multKeys,
                 KeepMultKeys(K) \/ SaveMultKeys(K)
          PROVE  Inv'
      BY <3>1, KeepInv, SaveInv
    <3>2. ASSUME NEW s \in secretKeys, EvalMultKeyGen(s)
          PROVE  Inv'
      BY <3>2, GenerateInv
    <3>3. ClearEvalMultKeys \/ SerializeEvalMultKey => Inv'
      BY <3>1 DEF ClearEvalMultKeys, SerializeEvalMultKey
    <3>4. ASSUME NEW u, ClearEvalMultKeysOfTag(u) \/
                        SerializeEvalMultKeyOfTag(u)
          PROVE  Inv'
      <4>1. {k \in multKeys : k.tag # u} \subseteq multKeys
        OBVIOUS
      <4>2. {k \in multKeys : k.tag = u} \subseteq multKeys
        OBVIOUS
      <4> QED BY <3>1, <3>4, <4>1, <4>2
              DEF ClearEvalMultKeysOfTag, SerializeEvalMultKeyOfTag
    <3>5. ASSUME NEW c, ClearEvalMultKeysOfContext(c) \/
                        SerializeEvalMultKeyOfContext(c)
          PROVE  Inv'
      <4>1. {k \in multKeys : k.cc # c} \subseteq multKeys
        OBVIOUS
      <4>2. {k \in multKeys : k.cc = c} \subseteq multKeys
        OBVIOUS
      <4> QED BY <3>1, <3>5, <4>1, <4>2
              DEF ClearEvalMultKeysOfContext, SerializeEvalMultKeyOfContext
    <3> QED BY <2>2, <3>2, <3>3, <3>4, <3>5, DeserializeMultInv DEF MultCall
  <2>3. CASE AutoCall
    <3>1. ASSUME NEW K, K \subseteq autoKeys,
                 KeepAutoKeys(K) \/ SaveAutoKeys(K)
          PROVE  Inv'
      BY <3>1, KeepInv, SaveInv
    <3>2. ASSUME NEW s \in secretKeys, NEW I \in SUBSET Index,
                 EvalAutomorphismKeyGen(s, I)
          PROVE  Inv'
      BY <3>2, GenerateInv
    <3>3. ClearEvalAutomorphismKeys \/ SerializeEvalAutomorphismKey => Inv'
      BY <3>1 DEF ClearEvalAutomorphismKeys, SerializeEvalAutomorphismKey
    <3>4. ASSUME NEW u, ClearEvalAutomorphismKeysOfTag(u) \/
                        SerializeEvalAutomorphismKeyOfTag(u)
          PROVE  Inv'
      <4>1. {k \in autoKeys : k.tag # u} \subseteq autoKeys
        OBVIOUS
      <4>2. {k \in autoKeys : k.tag = u} \subseteq autoKeys
        OBVIOUS
      <4> QED BY <3>1, <3>4, <4>1, <4>2
              DEF ClearEvalAutomorphismKeysOfTag,
                  SerializeEvalAutomorphismKeyOfTag
    <3>5. ASSUME NEW c, ClearEvalAutomorphismKeysOfContext(c) \/
                        SerializeEvalAutomorphismKeyOfContext(c)
          PROVE  Inv'
      <4>1. {k \in autoKeys : ~FirstIsOf(k.tag, c)} \subseteq autoKeys
        OBVIOUS
      <4>2. {k \in autoKeys : FirstIsOf(k.tag, c)} \subseteq autoKeys
        OBVIOUS
      <4> QED BY <3>1, <3>5, <4>1, <4>2
              DEF ClearEvalAutomorphismKeysOfContext,
                  SerializeEvalAutomorphismKeyOfContext
    <3>6. ASSUME NEW u, NEW I, SerializeEvalAutomorphismKeyAt(u, I)
          PROVE  Inv'
      <4>1. {k \in autoKeys : k.tag = u /\ k.index \in I} \subseteq autoKeys
        OBVIOUS
      <4> QED BY <3>1, <3>6, <4>1 DEF SerializeEvalAutomorphismKeyAt
    <3> QED BY <2>3, <3>2, <3>3, <3>4, <3>5, <3>6, DeserializeAutoInv
            DEF AutoCall
  <2>4. CASE UNCHANGED vars
    BY <2>4 DEF vars, Inv, TypeOK, OneContext, OneKey, SameParams, Belongs,
                Listed
  <2> QED BY <2>1, <2>2, <2>3, <2>4 DEF Next
<1> QED BY <1>1, <1>2, PTL DEF Spec

(* A nonempty set of naturals has a smallest element.                      *)
LEMMA HasLeast ==
  ASSUME NEW T, T \subseteq Nat, T # {}
  PROVE  \E x \in T : \A y \in T : x <= y
<1>1. PICK x \in T : \A y \in T : ~(<<y, x>> \in OpToRel(<, Nat))
  BY NatLessThanWellFounded, WFMin
<1>2. \A y \in T : <<y, x>> \in Nat \X Nat
  OBVIOUS
<1>3. \A y \in T : ~(y < x)
  BY <1>1, <1>2 DEF OpToRel
<1> QED BY <1>3

(* While nothing was released the keys of a tag have one context, so that  *)
(* the first of them speaks for all.                                       *)
LEMMA FirstSpeaks ==
  ASSUME Inv, released = 0, NEW k \in autoKeys, NEW c
  PROVE  FirstIsOf(k.tag, c) <=> k.cc = c
<1>1. ASSUME NEW j \in autoKeys, j.tag = k.tag
      PROVE  j.cc = k.cc
  <2>1. j.cc \in AllContexts /\ k.cc \in AllContexts
    BY DEF Inv, Listed
  <2>2. j.cc.params = k.cc.params
    BY <1>1 DEF Inv, SameParams, Belongs
  <2> QED BY <2>1, <2>2 DEF Inv, OneContext
<1>2. PICK j \in autoKeys : /\ j.tag = k.tag
                            /\ \A i \in autoKeys : i.tag = k.tag =>
                                                      j.index <= i.index
  <2> DEFINE T == {j.index : j \in {i \in autoKeys : i.tag = k.tag}}
  <2>1. T # {}
    OBVIOUS
  <2>2. T \subseteq Nat
    BY KeyCacheAssumption DEF Inv, TypeOK, AutoKey
  <2>3. PICK x \in T : \A y \in T : x <= y
    BY <2>1, <2>2, HasLeast
  <2> QED BY <2>3
<1> QED BY <1>1, <1>2 DEF FirstIsOf

(* While nothing was released, clearing by context removes exactly the     *)
(* automorphism keys of the context.                                       *)
THEOREM ClearsExactlyHolds == Spec => ClearsExactly
<1>1. Inv => \A c \in Reachable :
               released = 0 /\ ClearEvalAutomorphismKeysOfContext(c) =>
                 autoKeys' = {k \in autoKeys : k.cc # c}
  BY FirstSpeaks DEF ClearEvalAutomorphismKeysOfContext, KeepAutoKeys
<1> QED BY <1>1, Invariance, PTL DEF ClearsExactly
=============================================================================
