---------------------------- MODULE SignatureKey ----------------------------
(***************************************************************************)
(* The keys of accounts and nodes, and what the back end computes from     *)
(* them (libs/common/src/utils/sdk/key.ts).  A key is a public key or a    *)
(* list of keys, nested to any depth, of which "threshold" must sign; 0    *)
(* stands for a list without a threshold, of which all must.               *)
(***************************************************************************)
EXTENDS Naturals, Sequences, FiniteSets, FiniteSetsExt

CONSTANTS
  PublicKeys,
  KeyLists      \* the lists considered, with the lists inside them

Keys == PublicKeys \cup KeyLists

ASSUME KeyAssumption ==
  /\ KeyLists \cap PublicKeys = {}
  /\ \A list \in KeyLists : list.threshold \in Nat /\ list.keys \in Seq(Keys)

(* No list is inside itself: of any lists, one has none of them as a key.  *)
ASSUME NestingAssumption ==
  \A lists \in SUBSET KeyLists :
    lists # {} => \E list \in lists : \A i \in DOMAIN list.keys : list.keys[i] \notin lists

Needed(list) ==
  IF list.threshold # 0 THEN list.threshold ELSE Len(list.keys)

(* flattenKeyList, extractPublicKeys: the public keys inside the key. *)
FlattenKeyList(key) ==
  LET flat[k \in Keys] ==
        IF k \in PublicKeys THEN {k}
        ELSE UNION {flat[k.keys[i]] : i \in DOMAIN k.keys}
  IN flat[key]

(* hasValidSignatureKey: enough signers for the key; an empty list never is. *)
HasValidSignatureKey(signers, key) ==
  LET valid[k \in Keys] ==
        IF k \in PublicKeys THEN k \in signers
        ELSE /\ k.keys # <<>>
             /\ Cardinality({i \in DOMAIN k.keys : valid[k.keys[i]]}) >= Needed(k)
  IN valid[key]

(* A list of public keys is the set of its entries: the path to the place  *)
(* in the key, and the public key there.  Their order is left out.  What   *)
(* is found for the keys of a list, by place:                              *)
Parts(list, short) ==
  [i \in DOMAIN list.keys |->
     {<<<<i>> \o entry[1], entry[2]>> : entry \in UNION short[list.keys[i]]}]

Found(parts) == {i \in DOMAIN parts : parts[i] # {}}

(* Mutant: lists in the order of the key, however long. *)
ComesInOrder(list, parts, i, j) ==
  \/ list.keys[i] \in PublicKeys /\ list.keys[j] \in KeyLists
  \/ (list.keys[i] \in PublicKeys <=> list.keys[j] \in PublicKeys) /\ i < j

(* Public keys are taken before lists, and short lists before long ones;   *)
(* otherwise the order of the key stays (Array.prototype.sort is stable).  *)
Comes(list, parts, i, j) ==
  \/ list.keys[i] \in PublicKeys /\ list.keys[j] \in KeyLists
  \/ /\ list.keys[i] \in PublicKeys <=> list.keys[j] \in PublicKeys
     /\ \/ Cardinality(parts[i]) < Cardinality(parts[j])
        \/ Cardinality(parts[i]) = Cardinality(parts[j]) /\ i < j

(* The first of them that are enough. *)
Taken(list, parts) ==
  {i \in Found(parts) :
     Cardinality({j \in Found(parts) : Comes(list, parts, j, i)}) < Needed(list)}

(* Mutant: one key of a list is enough for the list. *)
EnoughOfAny(list, parts) == Found(parts) # {} \/ Needed(list) = 0

Enough(list, parts) == Cardinality(Found(parts)) >= Needed(list)

(* computeShortenedPublicKeyList: of the signers, a list that is enough    *)
(* for the key; {} stands for null.  For a public key it is the key alone. *)
ComputeShortenedPublicKeyList(signers, key) ==
  LET short[k \in Keys] ==
        IF k \in PublicKeys THEN IF k \in signers THEN {{<<<<>>, k>>}} ELSE {}
        ELSE LET parts == Parts(k, short)
             IN IF Enough(k, parts) THEN {UNION {parts[i] : i \in Taken(k, parts)}}
                ELSE {}
  IN short[key]

-----------------------------------------------------------------------------
(* Reference: the smallest sets of public keys that sign for a key.        *)

Quorums(key) ==
  LET quorums[k \in Keys] ==
        IF k \in PublicKeys THEN {{k}}
        ELSE IF k.keys = <<>> \/ Needed(k) > Len(k.keys) THEN {}
        ELSE UNION {
               LET pick(i) == quorums[k.keys[i]]
               IN {UNION {f[i] : i \in chosen} :
                     f \in {g \in [chosen -> UNION {pick(i) : i \in chosen}] :
                              \A i \in chosen : g[i] \in pick(i)}}
               : chosen \in kSubset(Needed(k), DOMAIN k.keys)}
  IN quorums[key]

(* The public keys of a shortened list. *)
SignersOf(short) == {entry[2] : entry \in short}

(* No public key occurs twice in the key. *)
Plain(key) ==
  LET plain[k \in Keys] ==
        k \in KeyLists =>
          \A i, j \in DOMAIN k.keys :
            /\ plain[k.keys[i]]
            /\ i # j => FlattenKeyList(k.keys[i]) \cap FlattenKeyList(k.keys[j]) = {}
  IN plain[key]
=============================================================================
