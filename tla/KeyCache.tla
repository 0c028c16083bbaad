------------------------------ MODULE KeyCache ------------------------------
(***************************************************************************)
(* The static tables of OpenFHE's SGX port that outlive every object: the  *)
(* list of crypto contexts (cryptocontextfactory.cpp) and the two maps of  *)
(* evaluation keys (cryptocontext.cpp, cryptocontext.h), with the calls    *)
(* that fill, save, load and clear them.                                   *)
(*                                                                         *)
(* A context is its parameters and scheme, by which it is searched, and an *)
(* identity, by which it is compared: pointers are compared wherever a key *)
(* meets a context. A key is its tag, which names the secret key, and its  *)
(* context; what is in it is left out. A file keeps parameters only.       *)
(***************************************************************************)
EXTENDS Integers

CONSTANTS Param,      \* parameters with a scheme, up to equality
          Tag,        \* the tags of secret keys, ordered as strings are
          Index,      \* automorphism indices
          MaxReleases \* bound: calls of ReleaseAllContexts

ASSUME KeyCacheAssumption ==
  Tag \subseteq Nat /\ Index \subseteq Nat /\ MaxReleases \in Nat

VARIABLES AllContexts, \* the contexts of the factory
          made,        \* how many contexts were made for each Param
          released,    \* how often the list was emptied
          secretKeys,  \* the program's secret keys
          multKeys,    \* s_evalMultKeyMap: one vector of keys for each tag
          autoKeys,    \* s_evalAutomorphismKeyMap: a key for (tag, index)
          multFile,    \* the last map saved, of relinearization keys
          autoFile     \* or of automorphism keys: one file is kept

vars == <<AllContexts, made, released, secretKeys, multKeys, autoKeys,
          multFile, autoFile>>

registry == <<AllContexts, made, released>>
files == <<multFile, autoFile>>

Context == [params : Param, id : Nat]
SecretKey == [tag : Tag, cc : Context]
MultKey == [tag : Tag, cc : Context]
AutoKey == [tag : Tag, index : Index, cc : Context]
MultEntry == [tag : Tag, params : Param]
AutoEntry == [tag : Tag, index : Index, params : Param]

Init ==
  /\ AllContexts = {} /\ made = [p \in Param |-> 0] /\ released = 0
  /\ secretKeys = {} /\ multKeys = {} /\ autoKeys = {}
  /\ multFile = {} /\ autoFile = {}

-----------------------------------------------------------------------------
(* Variant: the search compares the schemes alone.                         *)
FindContext_AnyParams(p) == {c \in AllContexts : p \in Param}

(* Variant: the search compares pointers, and a loaded context is new.     *)
FindContext_Pointers(p) ==
  {c \in AllContexts : c = [params |-> p, id |-> made[p]]}

(* The factory: a context is made only where none has equal parameters.    *)
FindContext(p) == {c \in AllContexts : c.params = p}

TheContext(p) ==
  IF FindContext(p) # {} THEN CHOOSE c \in FindContext(p) : TRUE
                         ELSE [params |-> p, id |-> made[p]]

Load(P) ==
  /\ AllContexts' = AllContexts \cup {TheContext(p) : p \in P}
  /\ made' = [p \in Param |->
                IF p \in P /\ FindContext(p) = {} THEN made[p] + 1
                                                  ELSE made[p]]
  /\ UNCHANGED released

GetContext(p) ==
  /\ Load({p})
  /\ UNCHANGED <<secretKeys, multKeys, autoKeys, files>>

ReleaseAllContexts ==
  /\ released < MaxReleases
  /\ AllContexts' = {} /\ released' = released + 1
  /\ UNCHANGED <<made, secretKeys, multKeys, autoKeys, files>>

-----------------------------------------------------------------------------
(* Secret keys: a fresh tag from a context the factory still lists, or the *)
(* same tag read back from a file.                                         *)
KeyGen(c, t) ==
  /\ c \in AllContexts
  /\ \A s \in secretKeys : s.tag # t
  /\ secretKeys' = secretKeys \cup {[tag |-> t, cc |-> c]}
  /\ UNCHANGED <<registry, multKeys, autoKeys, files>>

ReloadSecretKey(s) ==
  /\ Load({s.cc.params})
  /\ secretKeys' = secretKeys \cup
                     {[tag |-> s.tag, cc |-> TheContext(s.cc.params)]}
  /\ UNCHANGED <<multKeys, autoKeys, files>>

-----------------------------------------------------------------------------
(* Relinearization keys: one vector for each tag, which EvalMultKeyGen,    *)
(* with one key, or EvalMultKeysGen makes if there is none.                *)
MultFiled(t) == \E k \in multKeys : k.tag = t

EvalMultKeyGen(s) ==
  /\ ~MultFiled(s.tag)
  /\ multKeys' = multKeys \cup {[tag |-> s.tag, cc |-> s.cc]}
  /\ UNCHANGED <<registry, secretKeys, autoKeys, files>>

KeepMultKeys(K) ==
  /\ multKeys' = K
  /\ UNCHANGED <<registry, secretKeys, autoKeys, files>>

ClearEvalMultKeys == KeepMultKeys({})
ClearEvalMultKeysOfTag(t) == KeepMultKeys({k \in multKeys : k.tag # t})
ClearEvalMultKeysOfContext(c) == KeepMultKeys({k \in multKeys : k.cc # c})

SaveMultKeys(K) ==
  /\ multFile' = {[tag |-> k.tag, params |-> k.cc.params] : k \in K}
  /\ autoFile' = {}
  /\ UNCHANGED <<registry, secretKeys, multKeys, autoKeys>>

SerializeEvalMultKey == SaveMultKeys(multKeys)

SerializeEvalMultKeyOfTag(t) ==
  MultFiled(t) /\ SaveMultKeys({k \in multKeys : k.tag = t})

SerializeEvalMultKeyOfContext(c) ==
  /\ \E k \in multKeys : k.cc = c
  /\ SaveMultKeys({k \in multKeys : k.cc = c})

(* The vectors that are filed before the first tag that has one already,   *)
(* where InsertEvalMultKey throws.                                         *)
InsertedMult == {e \in multFile : \A f \in multFile :
                   f.tag <= e.tag => ~MultFiled(f.tag)}

DeserializeEvalMultKey ==
  /\ Load({e.params : e \in multFile})
  /\ multKeys' = multKeys \cup
       {[tag |-> e.tag, cc |-> TheContext(e.params)] :
         e \in InsertedMult}
  /\ UNCHANGED <<secretKeys, autoKeys, files>>

-----------------------------------------------------------------------------
(* Automorphism keys: a map from indices to keys for each tag, which takes *)
(* what it lacks; the key of its smallest index stands for the whole map   *)
(* when a context is looked for.                                           *)
AutoFiled(t, i) == \E k \in autoKeys : k.tag = t /\ k.index = i

EvalAutomorphismKeyGen(s, I) ==
  /\ autoKeys' = autoKeys \cup
       {[tag |-> s.tag, index |-> i, cc |-> s.cc] :
         i \in {j \in I : ~AutoFiled(s.tag, j)}}
  /\ UNCHANGED <<registry, secretKeys, multKeys, files>>

FirstIsOf(t, c) ==
  \E k \in autoKeys : /\ k.tag = t /\ k.cc = c
                      /\ \A j \in autoKeys : j.tag = t => k.index <= j.index

KeepAutoKeys(K) ==
  /\ autoKeys' = K
  /\ UNCHANGED <<registry, secretKeys, multKeys, files>>

ClearEvalAutomorphismKeys == KeepAutoKeys({})
ClearEvalAutomorphismKeysOfTag(t) ==
  KeepAutoKeys({k \in autoKeys : k.tag # t})
ClearEvalAutomorphismKeysOfContext(c) ==
  KeepAutoKeys({k \in autoKeys : ~FirstIsOf(k.tag, c)})

SaveAutoKeys(K) ==
  /\ autoFile' = {[tag |-> k.tag, index |-> k.index,
                   params |-> k.cc.params] : k \in K}
  /\ multFile' = {}
  /\ UNCHANGED <<registry, secretKeys, multKeys, autoKeys>>

SerializeEvalAutomorphismKey == SaveAutoKeys(autoKeys)

SerializeEvalAutomorphismKeyOfTag(t) ==
  /\ \E k \in autoKeys : k.tag = t
  /\ SaveAutoKeys({k \in autoKeys : k.tag = t})

SerializeEvalAutomorphismKeyOfContext(c) ==
  /\ \E k \in autoKeys : FirstIsOf(k.tag, c)
  /\ SaveAutoKeys({k \in autoKeys : FirstIsOf(k.tag, c)})

SerializeEvalAutomorphismKeyAt(t, I) ==
  /\ I # {} /\ \A i \in I : AutoFiled(t, i)
  /\ SaveAutoKeys({k \in autoKeys : k.tag = t /\ k.index \in I})

DeserializeEvalAutomorphismKey ==
  /\ Load({e.params : e \in autoFile})
  /\ autoKeys' = autoKeys \cup
       {[tag |-> e.tag, index |-> e.index, cc |-> TheContext(e.params)] :
         e \in {f \in autoFile : ~AutoFiled(f.tag, f.index)}}
  /\ UNCHANGED <<secretKeys, multKeys, files>>

-----------------------------------------------------------------------------
(* The contexts the program may still point to.                            *)
Reachable == AllContexts \cup {k.cc : k \in secretKeys \cup multKeys \cup
                                            autoKeys}

Factory ==
  \/ \E p \in Param : GetContext(p)
  \/ ReleaseAllContexts
  \/ \E c \in AllContexts, t \in Tag : KeyGen(c, t)
  \/ \E s \in secretKeys : ReloadSecretKey(s)

MultCall ==
  \/ \E s \in secretKeys : EvalMultKeyGen(s)
  \/ ClearEvalMultKeys
  \/ \E t \in Tag : ClearEvalMultKeysOfTag(t) \/ SerializeEvalMultKeyOfTag(t)
  \/ \E c \in Reachable :
       ClearEvalMultKeysOfContext(c) \/ SerializeEvalMultKeyOfContext(c)
  \/ SerializeEvalMultKey
  \/ DeserializeEvalMultKey

AutoCall ==
  \/ \E s \in secretKeys, I \in SUBSET Index : EvalAutomorphismKeyGen(s, I)
  \/ ClearEvalAutomorphismKeys
  \/ \E t \in Tag : \/ ClearEvalAutomorphismKeysOfTag(t)
                    \/ SerializeEvalAutomorphismKeyOfTag(t)
                    \/ \E I \in SUBSET Index :
                         SerializeEvalAutomorphismKeyAt(t, I)
  \/ \E c \in Reachable : \/ ClearEvalAutomorphismKeysOfContext(c)
                          \/ SerializeEvalAutomorphismKeyOfContext(c)
  \/ SerializeEvalAutomorphismKey
  \/ DeserializeEvalAutomorphismKey

Next == MultCall \/ AutoCall \/ Factory

Spec == Init /\ [][Next]_vars

-----------------------------------------------------------------------------
TypeOK ==
  /\ AllContexts \subseteq Context
  /\ made \in [Param -> Nat] /\ released \in 0..MaxReleases
  /\ secretKeys \subseteq SecretKey
  /\ multKeys \subseteq MultKey /\ autoKeys \subseteq AutoKey
  /\ multFile \subseteq MultEntry /\ autoFile \subseteq AutoEntry

(* No two listed contexts have equal parameters, and no identity is used   *)
(* twice.                                                                  *)
OneContext ==
  /\ \A c, d \in AllContexts : c.params = d.params => c = d
  /\ \A c \in AllContexts : c.id < made[c.params]

(* Every map has one value for a key.                                      *)
OneKey ==
  /\ \A j, k \in multKeys : j.tag = k.tag => j = k
  /\ \A j, k \in autoKeys : j.tag = k.tag /\ j.index = k.index => j = k
  /\ \A e, f \in multFile : e.tag = f.tag => e = f
  /\ \A e, f \in autoFile : e.tag = f.tag /\ e.index = f.index => e = f

(* Whatever bears the tag of a secret key, filed or saved, has parameters  *)
(* equal to those of the secret key.                                       *)
Belongs(t, p) == \E s \in secretKeys : s.tag = t /\ s.cc.params = p

SameParams ==
  /\ \A r, s \in secretKeys : r.tag = s.tag => r.cc.params = s.cc.params
  /\ \A k \in multKeys \cup autoKeys : Belongs(k.tag, k.cc.params)
  /\ \A e \in multFile \cup autoFile : Belongs(e.tag, e.params)

(* Until the contexts are released, every key has the context the factory  *)
(* lists for its parameters: a loaded key goes with a computed one.        *)
Listed == released = 0 =>
  \A k \in secretKeys \cup multKeys \cup autoKeys : k.cc \in AllContexts

(* The tables agree: through any sequence of loads, releases and clears, a *)
(* tag has keys of one set of parameters, each once, and unless contexts   *)
(* were released the pointers that ValidateKey compares are equal wherever *)
(* the parameters are.                                                     *)
Inv == TypeOK /\ OneContext /\ OneKey /\ SameParams /\ Listed

(* A load files what the file has: whatever key there was for the tag, or  *)
(* the tag and the index, is replaced, as the comments of DeserializeEval- *)
(* MultKey, DeserializeEvalAutomorphismKey and the two Insert functions    *)
(* say. The code refuses the vector, and drops the key, that is already    *)
(* filed: this property does not hold.                                     *)
Replaces ==
  [][/\ DeserializeEvalMultKey => \A e \in multFile :
          [tag |-> e.tag, cc |-> TheContext(e.params)] \in multKeys'
     /\ DeserializeEvalAutomorphismKey => \A e \in autoFile :
          [tag |-> e.tag, index |-> e.index, cc |-> TheContext(e.params)]
            \in autoKeys']_vars

(* Unless contexts were released, clearing the automorphism keys of a      *)
(* context removes its keys and no others, although it looks at one key of *)
(* each tag only. (ClearEvalAutomorphismKeys; after a release the keys of  *)
(* a tag may be of two contexts, and nothing is claimed.)                  *)
ClearsExactly ==
  [][\A c \in Reachable :
       released = 0 /\ ClearEvalAutomorphismKeysOfContext(c) =>
         autoKeys' = {k \in autoKeys : k.cc # c}]_vars
=============================================================================
