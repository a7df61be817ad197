------------------------------ MODULE HashMap ------------------------------
(***************************************************************************)
(* The chained hash table of exercise 11.17 (hashmap.c) as operators on a  *)
(* function from bucket numbers to sequences of nodes.  hash is a          *)
(* parameter: the table must work for every hash function, colliding ones  *)
(* included.                                                               *)
(***************************************************************************)
EXTENDS Naturals, Sequences

CONSTANTS
  Keys, Values,  \* strings the table is used with
  size,          \* buckets of the table
  hash,          \* the hash function, already a function on Keys
  NULL

ASSUME HashAssumption == size \in Nat \ {0} /\ hash \in [Keys -> Nat]
ASSUME NullAssumption == NULL \notin Values

Buckets == 0..(size - 1)
Nodes   == [key : Keys, value : Values]
Tables  == [Buckets -> Seq(Nodes)]

EmptyTable == [b \in Buckets |-> <<>>]

index(key) == hash[key] % size

\* The first node of the chain that holds the key.
At(chain, key, i) ==
  /\ i \in DOMAIN chain /\ chain[i].key = key
  /\ \A j \in 1..(i - 1) : chain[j].key # key

\* Mutant: the first node of the bucket, whatever its key.
find_head(chain, key) == IF chain = <<>> THEN NULL ELSE chain[1].value

find(chain, key) ==
  IF \E i \in DOMAIN chain : chain[i].key = key
  THEN chain[CHOOSE i \in DOMAIN chain : At(chain, key, i)].value
  ELSE NULL

get_node(table, key) == find(table[index(key)], key)

\* Mutant: every node goes to the first bucket.
put_node_nohash(table, key, value) ==
  [table EXCEPT ![0] = <<[key |-> key, value |-> value]>> \o @]

\* A known key gets the new value in place; another one goes to the front.
put_node(table, key, value) ==
  LET b     == index(key)
      chain == table[b]
  IN IF \E i \in DOMAIN chain : chain[i].key = key
     THEN [table EXCEPT ![b][CHOOSE i \in DOMAIN chain : At(chain, key, i)].value = value]
     ELSE [table EXCEPT ![b] = <<[key |-> key, value |-> value]>> \o @]

free_map(table) == EmptyTable

-----------------------------------------------------------------------------
\* Every node is in the bucket of its key, and no key is twice in a chain.
WellFormed(table) ==
  \A b \in Buckets : \A i, j \in DOMAIN table[b] :
    /\ index(table[b][i].key) = b
    /\ table[b][i].key = table[b][j].key => i = j

\* What the table means: a partial function from keys to values.
Contents(table) == [key \in Keys |-> get_node(table, key)]
=============================================================================
