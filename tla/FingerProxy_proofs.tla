------------------------- MODULE FingerProxy_proofs -------------------------
(***************************************************************************)
(* Proofs about FingerProxy for every set of users and clients, every hash *)
(* function and every table size: types, the order of the chains, that     *)
(* everybody is answered about the name main read from it, and that the    *)
(* proxy implements the abstract cache AnswerCache.  They rest on          *)
(* hashmap.c being a map: whatever the hash function, put_node followed by *)
(* get_node behaves as updating and applying a function.                   *)
(***************************************************************************)
EXTENDS FingerProxy, TLAPS

-----------------------------------------------------------------------------
(* HashMap.                                                                *)

LEMMA IndexInBuckets == \A k \in Keys : index(k) \in Buckets
  BY HashAssumption DEF index, Buckets

\* In a well-formed table get_node returns the value of any node with the key.
LEMMA GetFinds ==
  ASSUME NEW table \in Tables, WellFormed(table), NEW k \in Keys,
         NEW i \in DOMAIN table[index(k)], table[index(k)][i].key = k
  PROVE  get_node(table, k) = table[index(k)][i].value
  <1> DEFINE chain == table[index(k)]
  <1>1. index(k) \in Buckets /\ chain \in Seq(Nodes)
    BY IndexInBuckets DEF Tables
  <1>2. \A j \in DOMAIN chain : chain[j].key = k => j = i
    BY <1>1 DEF WellFormed
  <1>3. DOMAIN chain = 1..Len(chain)
    BY <1>1
  <1>4. \A j \in 1..(i - 1) : j \in DOMAIN chain /\ j # i
    BY <1>1, <1>3
  <1>5. At(chain, k, i)
    BY <1>2, <1>4 DEF At
  <1>6. \A j \in DOMAIN chain : At(chain, k, j) => j = i
    BY <1>2 DEF At
  <1>7. (CHOOSE j \in DOMAIN chain : At(chain, k, j)) = i
    BY <1>5, <1>6
  <1> QED
    BY <1>7 DEF get_node, find

\* A key that is in no node has no value.
LEMMA GetMisses ==
  ASSUME NEW table, NEW k \in Keys,
         \A i \in DOMAIN table[index(k)] : table[index(k)][i].key # k
  PROVE  get_node(table, k) = NULL
  BY DEF get_node, find

\* Putting a key the table does not hold.
LEMMA PutNew ==
  ASSUME NEW table \in Tables, WellFormed(table), NEW k \in Keys, NEW v \in Values,
         get_node(table, k) = NULL
  PROVE  /\ put_node(table, k, v) \in Tables
         /\ WellFormed(put_node(table, k, v))
         /\ Contents(put_node(table, k, v)) = [Contents(table) EXCEPT ![k] = v]
  <1> DEFINE b == index(k)
             chain == table[b]
             node == [key |-> k, value |-> v]
             longer == <<node>> \o chain
             after == [table EXCEPT ![b] = longer]
  <1>1. b \in Buckets /\ chain \in Seq(Nodes) /\ node \in Nodes
    BY IndexInBuckets DEF Tables, Nodes
  <1>2. \A i \in DOMAIN chain : chain[i].key # k
    <2> SUFFICES ASSUME NEW i \in DOMAIN chain, chain[i].key = k PROVE FALSE
      OBVIOUS
    <2>1. get_node(table, k) = chain[i].value
      BY GetFinds
    <2>2. chain[i] \in Nodes
      BY <1>1
    <2>3. chain[i].value \in Values
      BY <2>2 DEF Nodes
    <2> QED
      BY <2>1, <2>3, NullAssumption
  <1>3. put_node(table, k, v) = after
    BY <1>2 DEF put_node
  <1>4. /\ longer \in Seq(Nodes) /\ Len(longer) = Len(chain) + 1
        /\ longer[1] = node
        /\ \A i \in 1..Len(chain) : longer[i + 1] = chain[i]
        /\ DOMAIN longer = 1..(Len(chain) + 1)
    BY <1>1
  <1> HIDE DEF longer, node
  <1>5. \A i \in DOMAIN longer : i = 1 \/ (i - 1 \in DOMAIN chain /\ longer[i] = chain[i - 1])
    <2> SUFFICES ASSUME NEW i \in DOMAIN longer, i # 1
                 PROVE  i - 1 \in DOMAIN chain /\ longer[i] = chain[i - 1]
      OBVIOUS
    <2>1. i \in 1..(Len(chain) + 1) /\ Len(chain) \in Nat
      BY <1>1, <1>4
    <2>2. i - 1 \in 1..Len(chain) /\ (i - 1) + 1 = i
      BY <2>1
    <2>3. longer[(i - 1) + 1] = chain[i - 1]
      BY <1>4, <2>2
    <2>4. DOMAIN chain = 1..Len(chain)
      BY <1>1
    <2> QED
      BY <2>2, <2>3, <2>4
  <1>6. after \in Tables /\ after[b] = longer /\ \A c \in Buckets \ {b} : after[c] = table[c]
    BY <1>1, <1>4 DEF Tables
  <1> HIDE DEF after
  <1>7. WellFormed(after)
    <2>1. ASSUME NEW i \in DOMAIN longer, NEW j \in DOMAIN longer
          PROVE  index(longer[i].key) = b /\ (longer[i].key = longer[j].key => i = j)
      <3>1. node.key = k
        BY DEF node
      <3>2. CASE i = 1 /\ j = 1
        BY <1>4, <3>1, <3>2
      <3>3. CASE i = 1 /\ j # 1
        BY <1>2, <1>4, <1>5, <3>1, <3>3
      <3>4. CASE i # 1 /\ j = 1
        BY <1>1, <1>2, <1>4, <1>5, <3>1, <3>4 DEF WellFormed
      <3>5. CASE i # 1 /\ j # 1
        <4>1. /\ i - 1 \in DOMAIN chain /\ longer[i] = chain[i - 1]
              /\ j - 1 \in DOMAIN chain /\ longer[j] = chain[j - 1]
          BY <1>5, <3>5
        <4>2. index(longer[i].key) = b /\ (longer[i].key = longer[j].key => i - 1 = j - 1)
          BY <1>1, <4>1 DEF WellFormed
        <4>3. i \in Nat /\ j \in Nat
          BY <1>1, <1>4
        <4> QED
          BY <4>2, <4>3
      <3> QED
        BY <3>2, <3>3, <3>4, <3>5
    <2>2. ASSUME NEW c \in Buckets, NEW i \in DOMAIN after[c], NEW j \in DOMAIN after[c]
          PROVE  index(after[c][i].key) = c /\ (after[c][i].key = after[c][j].key => i = j)
      BY <1>6, <2>1, <2>2 DEF WellFormed
    <2> QED
      BY <2>2 DEF WellFormed
  <1>8. get_node(after, k) = v
    <2>1. 1 \in DOMAIN longer /\ longer[1].key = k /\ longer[1].value = v
      BY <1>1, <1>4 DEF node
    <2> QED
      BY <1>1, <1>6, <1>7, <2>1, GetFinds
  <1>9. ASSUME NEW other \in Keys, other # k
        PROVE  get_node(after, other) = get_node(table, other)
    <2>1. CASE index(other) # b
      <3>1. after[index(other)] = table[index(other)]
        BY <1>6, <2>1, IndexInBuckets
      <3> QED
        BY <3>1 DEF get_node
    <2>2. CASE index(other) = b
      <3>1. CASE \E i \in DOMAIN chain : chain[i].key = other
        <4> PICK i \in DOMAIN chain : chain[i].key = other
          BY <3>1
        <4>1. get_node(table, other) = chain[i].value
          BY <2>2, GetFinds
        <4>2. i + 1 \in DOMAIN longer /\ longer[i + 1] = chain[i]
          BY <1>1, <1>4
        <4>3. get_node(after, other) = longer[i + 1].value
          BY <1>6, <1>7, <2>2, <4>2, GetFinds
        <4> QED
          BY <4>1, <4>2, <4>3
      <3>2. CASE \A i \in DOMAIN chain : chain[i].key # other
        <4>1. get_node(table, other) = NULL
          BY <2>2, <3>2, GetMisses
        <4>2. \A i \in DOMAIN longer : longer[i].key # other
          BY <1>4, <1>5, <1>9, <3>2 DEF node
        <4> QED
          BY <1>6, <2>2, <4>1, <4>2, GetMisses
      <3> QED
        BY <3>1, <3>2
    <2> QED
      BY <2>1, <2>2
  <1>10. Contents(after) = [Contents(table) EXCEPT ![k] = v]
    BY <1>8, <1>9 DEF Contents
  <1> QED
    BY <1>3, <1>6, <1>7, <1>10

\* Putting a key the table holds: its node gets the value, the chain its order.
LEMMA PutKnown ==
  ASSUME NEW table \in Tables, WellFormed(table), NEW k \in Keys, NEW v \in Values,
         get_node(table, k) # NULL
  PROVE  /\ put_node(table, k, v) \in Tables
         /\ WellFormed(put_node(table, k, v))
         /\ Contents(put_node(table, k, v)) = [Contents(table) EXCEPT ![k] = v]
  <1> DEFINE b == index(k)
             chain == table[b]
             p == CHOOSE i \in DOMAIN chain : At(chain, k, i)
             changed == [chain EXCEPT ![p].value = v]
             after == [table EXCEPT ![b] = changed]
  <1>1. b \in Buckets /\ chain \in Seq(Nodes)
    BY IndexInBuckets DEF Tables
  <1>2. PICK i \in DOMAIN chain : chain[i].key = k
    BY GetMisses
  <1>3. DOMAIN chain = 1..Len(chain)
    BY <1>1
  <1>4. \A j \in 1..(i - 1) : j \in DOMAIN chain /\ j # i
    BY <1>1, <1>3
  <1>5. At(chain, k, i)
    BY <1>1, <1>2, <1>4 DEF At, WellFormed
  <1>6. p \in DOMAIN chain /\ chain[p].key = k
    BY <1>5 DEF At
  <1>7. put_node(table, k, v) = [table EXCEPT ![b][p].value = v]
    BY <1>2 DEF put_node
  <1>8. put_node(table, k, v) = after
    BY <1>7
  <1> HIDE DEF p
  <1>9. changed \in Seq(Nodes) /\ DOMAIN changed = DOMAIN chain
    <2>1. chain[p] \in Nodes
      BY <1>1, <1>6
    <2>2. [chain[p] EXCEPT !.value = v] \in Nodes
      BY <2>1 DEF Nodes
    <2> QED
      BY <1>1, <1>6, <2>2
  <1>10. /\ \A j \in DOMAIN chain : changed[j].key = chain[j].key
         /\ \A j \in DOMAIN chain \ {p} : changed[j] = chain[j]
         /\ changed[p].value = v /\ changed[p].key = k
    <2>1. \A j \in DOMAIN chain : chain[j] \in Nodes
      BY <1>1
    <2> QED
      BY <1>6, <2>1 DEF Nodes
  <1> HIDE DEF changed
  <1>11. after \in Tables /\ after[b] = changed /\ \A c \in Buckets \ {b} : after[c] = table[c]
    BY <1>1, <1>9 DEF Tables
  <1> HIDE DEF after
  <1>12. WellFormed(after)
    <2>1. ASSUME NEW j \in DOMAIN changed, NEW l \in DOMAIN changed
          PROVE  index(changed[j].key) = b /\ (changed[j].key = changed[l].key => j = l)
      BY <1>1, <1>9, <1>10 DEF WellFormed
    <2>2. ASSUME NEW c \in Buckets, NEW j \in DOMAIN after[c], NEW l \in DOMAIN after[c]
          PROVE  index(after[c][j].key) = c /\ (after[c][j].key = after[c][l].key => j = l)
      <3>1. CASE c = b
        BY <1>11, <2>1, <2>2, <3>1
      <3>2. CASE c # b
        BY <1>11, <2>2, <3>2 DEF WellFormed
      <3> QED
        BY <3>1, <3>2
    <2> QED
      BY <2>2 DEF WellFormed
  <1>13. get_node(after, k) = v
    BY <1>6, <1>9, <1>10, <1>11, <1>12, GetFinds
  <1>14. ASSUME NEW other \in Keys, other # k
         PROVE  get_node(after, other) = get_node(table, other)
    <2>1. CASE index(other) # b
      <3>1. after[index(other)] = table[index(other)]
        BY <1>11, <2>1, IndexInBuckets
      <3> QED
        BY <3>1 DEF get_node
    <2>2. CASE index(other) = b
      <3>1. CASE \E j \in DOMAIN chain : chain[j].key = other
        <4> PICK j \in DOMAIN chain : chain[j].key = other
          BY <3>1
        <4>1. get_node(table, other) = chain[j].value
          BY <2>2, GetFinds
        <4>2. j # p /\ j \in DOMAIN changed /\ changed[j] = chain[j]
          BY <1>6, <1>9, <1>10, <1>14
        <4>3. get_node(after, other) = changed[j].value
          BY <1>11, <1>12, <2>2, <4>2, GetFinds
        <4> QED
          BY <4>1, <4>2, <4>3
      <3>2. CASE \A j \in DOMAIN chain : chain[j].key # other
        <4>1. get_node(table, other) = NULL
          BY <2>2, <3>2, GetMisses
        <4>2. \A j \in DOMAIN changed : changed[j].key # other
          BY <1>9, <1>10, <3>2
        <4> QED
          BY <1>11, <2>2, <4>1, <4>2, GetMisses
      <3> QED
        BY <3>1, <3>2
    <2> QED
      BY <2>1, <2>2
  <1>15. Contents(after) = [Contents(table) EXCEPT ![k] = v]
    BY <1>13, <1>14 DEF Contents
  <1> QED
    BY <1>8, <1>11, <1>12, <1>15

\* hashmap.c is a map, whatever its hash function and its size: put_node stores a
\* value under its key, new or known, changes no other key, and leaves the chains in order.
THEOREM PutIsUpdate ==
  ASSUME NEW table \in Tables, WellFormed(table), NEW k \in Keys, NEW v \in Values
  PROVE  /\ put_node(table, k, v) \in Tables
         /\ WellFormed(put_node(table, k, v))
         /\ Contents(put_node(table, k, v)) = [Contents(table) EXCEPT ![k] = v]
  BY PutNew, PutKnown

-----------------------------------------------------------------------------
(* FingerProxy.                                                            *)

Serving == {"read", "get", "connect", "fetch", "relay", "put", "hit", "close"}
Asked   == Serving \ {"read", "close"}
Missed  == {"connect", "fetch", "relay", "put"}

\* What main's place in the loop says about its buffers, the table and the
\* client it serves.
Buffers ==
  /\ pc \in Serving => client \in Clients /\ cst[client] = "open"
  /\ pc \in Asked => asks[client] \in Keys /\ key \in Keys /\ key \in Cut[asks[client]]
  /\ pc \in Missed => get_node(map, key) = NULL
  /\ pc = "hit" => get_node(map, key) # NULL
  /\ pc \in {"relay", "put"} => value \in Replies /\ value.user = key
  /\ pc \in Asked \ {"put"} \/ pc = "read" => got[client] = NULL
  /\ pc = "fetch" => lost + 1 < MaxFds

\* The table never holds the record of another user.
TableOwn ==
  \A k \in Keys : get_node(map, k) # NULL =>
    get_node(map, k) \in Replies /\ get_node(map, k).user = k

\* A client that was not accepted yet has nothing.
Unserved == \A c \in Clients : cst[c] \in {"idle", "queued"} => got[c] = NULL

IInv == TypeOK /\ TableWellFormed /\ Buffers /\ TableOwn /\ AnswerIsOwn /\ Unserved

LEMMA InitEmpty == \A k \in Keys : get_node(EmptyTable, k) = NULL
  <1> SUFFICES ASSUME NEW k \in Keys PROVE get_node(EmptyTable, k) = NULL
    OBVIOUS
  <1>1. EmptyTable[index(k)] = <<>>
    BY IndexInBuckets DEF EmptyTable
  <1> QED
    BY <1>1, GetMisses

LEMMA InitIInv == Init => IInv
  <1> SUFFICES ASSUME Init PROVE IInv
    OBVIOUS
  <1>1. EmptyTable \in Tables
    BY DEF EmptyTable, Tables
  <1>2. TypeOK
    BY <1>1, ProxyAssumption DEF Init, TypeOK
  <1>3. TableWellFormed
    BY DEF Init, TableWellFormed, WellFormed, EmptyTable
  <1>4. TableOwn
    BY InitEmpty DEF Init, TableOwn
  <1> QED
    BY <1>2, <1>3, <1>4 DEF Init, IInv, Buffers, AnswerIsOwn, Unserved, Serving, Asked, Missed

LEMMA TypeStep ==
  ASSUME IInv, [Next]_vars
  PROVE  TypeOK'
  <1> USE ProxyAssumption, NullAssumption, ValuesAssumption
      DEF IInv, TypeOK, Goto, main, clients, Serving, Asked, Missed
  <1>1. CASE Accept \/ Read \/ Get \/ Close
    <2>1. CASE Accept
      BY <2>1 DEF Accept
    <2>2. CASE Read
      <3>1. asks[client] \in Keys => Cut[asks[client]] \subseteq Keys
        OBVIOUS
      <3> QED
        BY <2>2, <3>1 DEF Read
    <2>3. CASE Get
      BY <2>3 DEF Get
    <2>4. CASE Close
      BY <2>4 DEF Close
    <2> QED
      BY <1>1, <2>1, <2>2, <2>3, <2>4
  <1>2. CASE Connect
    BY <1>2 DEF Connect
  <1>3. CASE Fetch
    <2>1. key \in Keys /\ lost + 1 < MaxFds
      BY <1>3 DEF Fetch, Buffers
    <2>2. \A w \in BOOLEAN : [user |-> key, whole |-> w] \in Replies
      BY <2>1 DEF Replies
    <2>3. lost + 1 \in 0..(MaxFds - 1)
      BY <2>1
    <2>4. value' \in Replies \cup {NULL}
      <3>1. value' = value \/ \E w \in BOOLEAN : value' = [user |-> key, whole |-> w]
        BY <1>3 DEF Fetch
      <3> QED
        BY <2>2, <3>1
    <2> QED
      BY <1>3, <2>3, <2>4 DEF Fetch
  <1>4. ASSUME NEW v \in Replies, NEW b \in BOOLEAN, Written(v, b), key \in Keys,
               client \in Clients
        PROVE  got' \in [Clients -> Answers \cup {NULL}]
    <2>1. [key |-> key, value |-> v, cash |-> b] \in Answers
      BY <1>4 DEF Answers
    <2> QED
      BY <1>4, <2>1 DEF Written
  <1>5. CASE Relay
    <2>1. key \in Keys /\ client \in Clients /\ value \in Replies
      BY <1>5 DEF Relay, Buffers
    <2>2. got' \in [Clients -> Answers \cup {NULL}]
      BY <1>4, <1>5, <2>1 DEF Relay
    <2> QED
      BY <1>5, <2>2 DEF Relay
  <1>6. CASE Hit
    <2>1. key \in Keys /\ client \in Clients /\ get_node(map, key) \in Replies
      BY <1>6 DEF Hit, Buffers, TableOwn
    <2>2. got' \in [Clients -> Answers \cup {NULL}]
      BY <1>4, <1>6, <2>1 DEF Hit
    <2> QED
      BY <1>6, <2>2 DEF Hit
  <1>7. CASE Put
    <2>1. key \in Keys /\ value \in Values /\ get_node(map, key) = NULL
      BY <1>7 DEF Put, Buffers
    <2>2. map' \in Tables
      BY <1>7, <2>1, PutNew DEF Put, TableWellFormed
    <2> QED
      BY <1>7, <2>2 DEF Put
  <1>8. ASSUME NEW c \in Clients, Call(c) \/ Ask(c) PROVE TypeOK'
    BY <1>8 DEF Call, Ask
  <1>9. ASSUME NEW c \in Clients, Leave(c) PROVE TypeOK'
    BY <1>9 DEF Leave
  <1>10. CASE FingerServer \/ UNCHANGED vars
    BY <1>10 DEF FingerServer, vars
  <1> QED
    BY <1>1, <1>2, <1>3, <1>5, <1>6, <1>7, <1>8, <1>9, <1>10 DEF Next, Main

LEMMA TableStep ==
  ASSUME IInv, [Next]_vars
  PROVE  TableWellFormed' /\ TableOwn'
  <1> USE DEF IInv
  <1>1. CASE Put /\ map' = put_node(map, key, value)
    <2>1. key \in Keys /\ value \in Values /\ value \in Replies /\ value.user = key
          /\ get_node(map, key) = NULL /\ map \in Tables /\ WellFormed(map)
      BY <1>1, ValuesAssumption DEF Put, Buffers, TypeOK, TableWellFormed, Asked, Missed, Serving
    <2>2. /\ WellFormed(map')
          /\ Contents(map') = [Contents(map) EXCEPT ![key] = value]
      BY <1>1, <2>1, PutNew
    <2>3. \A k \in Keys : get_node(map', k) = IF k = key THEN value ELSE get_node(map, k)
      BY <2>1, <2>2 DEF Contents
    <2> QED
      BY <2>1, <2>2, <2>3 DEF TableWellFormed, TableOwn
  <1>2. CASE UNCHANGED map
    BY <1>2 DEF TableWellFormed, TableOwn
  <1>3. [Next]_vars => UNCHANGED map \/ (Put /\ map' = put_node(map, key, value))
    BY DEF Next, Main, Accept, Read, Get, Connect, Fetch, Relay, Put, Hit, Close, Call, Ask, Leave,
           FingerServer, vars
  <1> QED
    BY <1>1, <1>2, <1>3

LEMMA ServeStep ==
  ASSUME IInv, [Next]_vars
  PROVE  Buffers' /\ AnswerIsOwn' /\ Unserved'
  <1> USE NullAssumption, ProxyAssumption
      DEF IInv, TypeOK, Buffers, AnswerIsOwn, Unserved, Goto, main, clients, Serving, Asked, Missed
  <1>1. CASE Accept
    BY <1>1 DEF Accept
  <1>2. CASE Read
    BY <1>2 DEF Read
  <1>3. CASE Get
    BY <1>3 DEF Get
  <1>4. CASE Connect
    BY <1>4 DEF Connect
  <1>5. CASE Fetch
    <2>1. \A w \in BOOLEAN : [user |-> key, whole |-> w] \in Replies
                             /\ [user |-> key, whole |-> w].user = key
      BY <1>5 DEF Fetch, Replies
    <2>2. /\ pc = "fetch" /\ UNCHANGED <<map, client, key, cst, asks, left, got>>
          /\ pc' \in {"relay", "close", "exited"}
      BY <1>5 DEF Fetch
    <2>3. pc' = "relay" => \E w \in BOOLEAN : value' = [user |-> key, whole |-> w]
      BY <1>5 DEF Fetch
    <2>4. pc' = "relay" => value' \in Replies /\ value'.user = key
      BY <2>1, <2>3
    <2> QED
      BY <2>2, <2>4
  <1>6. CASE Relay
    BY <1>6 DEF Relay, Written
  <1>7. CASE Put
    BY <1>7 DEF Put
  <1>8. CASE Hit
    BY <1>8 DEF Hit, Written, TableOwn
  <1>9. CASE Close
    BY <1>9 DEF Close
  <1>10. ASSUME NEW c \in Clients, Call(c) \/ Ask(c) \/ Leave(c)
         PROVE  Buffers' /\ AnswerIsOwn' /\ Unserved'
    <2>1. CASE Call(c)
      BY <2>1 DEF Call
    <2>2. CASE Ask(c)
      <3>1. \A d \in Clients : asks[d] \in Keys => asks'[d] = asks[d]
        BY <2>2 DEF Ask
      <3>2. UNCHANGED <<map, main, cst, got>>
        BY <2>2 DEF Ask
      <3> QED
        BY <3>1, <3>2
    <2>3. CASE Leave(c)
      BY <2>3 DEF Leave
    <2> QED
      BY <1>10, <2>1, <2>2, <2>3
  <1>12. CASE FingerServer \/ UNCHANGED vars
    BY <1>12 DEF FingerServer, vars
  <1> QED
    BY <1>1, <1>2, <1>3, <1>4, <1>5, <1>6, <1>7, <1>8, <1>9, <1>10, <1>12 DEF Next, Main

LEMMA IInvHolds == Spec => []IInv
  <1>1. IInv /\ [Next]_vars => IInv'
    BY TypeStep, TableStep, ServeStep DEF IInv
  <1> QED
    BY InitIInv, <1>1, PTL DEF Spec

\* The variables have their types; in particular no empty buffer is ever sent
\* or stored, and a descriptor is always left for the next client.
THEOREM TypeCorrect == Spec => []TypeOK
  <1>1. IInv => TypeOK
    BY DEF IInv
  <1> QED
    BY IInvHolds, <1>1, PTL

\* The chains of the table stay in order.
THEOREM TableStaysWellFormed == Spec => []TableWellFormed
  <1>1. IInv => TableWellFormed
    BY DEF IInv
  <1> QED
    BY IInvHolds, <1>1, PTL

\* Whoever is answered is answered about the name main read from it, which is the
\* one it sent or, when the one read was short, a beginning of it, and with the
\* record of that name, whatever collides and whatever main's buffers held before.
THEOREM AnswersAreOwn == Spec => []AnswerIsOwn
  <1>1. IInv => AnswerIsOwn
    BY DEF IInv
  <1> QED
    BY IInvHolds, <1>1, PTL

-----------------------------------------------------------------------------
(* The proxy implements AnswerCache: relaying a fetched reply is Fresh, the *)
(* hit is Repeat, put_node is Learn, all else is invisible.                *)

LEMMA CacheInit == Init => Cache!Init
  <1> SUFFICES ASSUME Init PROVE Cache!Init
    OBVIOUS
  <1>1. Contents(map) = [k \in Keys |-> NULL]
    BY InitEmpty DEF Init, Contents
  <1>2. Given = [c \in Clients |-> NULL]
    BY DEF Init, Given
  <1> QED
    BY <1>1, <1>2 DEF Cache!Init

\* What a client was given after main wrote to the one it serves.
LEMMA GivenAfterWrite ==
  ASSUME TypeOK, NEW v \in Replies, NEW b \in BOOLEAN, client \in Clients, key \in Keys,
         Written(v, b)
  PROVE  Given' = [Given EXCEPT ![client] = [key |-> key, value |-> v]]
  <1>1. got' = [got EXCEPT ![client] = [key |-> key, value |-> v, cash |-> b]]
    BY DEF Written
  <1>2. got'[client] = [key |-> key, value |-> v, cash |-> b]
    BY <1>1 DEF TypeOK
  <1>3. got'[client] # NULL
    BY <1>2, ValuesAssumption DEF Answers
  <1>4. \A c \in Clients \ {client} : got'[c] = got[c]
    BY <1>1 DEF TypeOK
  <1>5. \A c \in Clients :
          Given'[c] = IF c = client THEN [key |-> key, value |-> v] ELSE Given[c]
    BY <1>2, <1>3, <1>4 DEF Given
  <1> QED
    BY <1>5 DEF Given

LEMMA CacheStep ==
  ASSUME IInv, [Next]_vars
  PROVE  [Cache!Next]_(Cache!vars)
  <1>1. CASE Put /\ map' = put_node(map, key, value)
    <2>1. key \in Keys /\ value \in Values /\ value \in Replies /\ value.user = key
          /\ get_node(map, key) = NULL /\ map \in Tables /\ WellFormed(map)
      BY <1>1, ValuesAssumption DEF IInv, Put, Buffers, TypeOK, TableWellFormed, Asked, Missed, Serving
    <2>2. Contents(map)' = [Contents(map) EXCEPT ![key] = value]
      BY <1>1, <2>1, PutNew
    <2>3. Contents(map)[key] = NULL
      BY <2>1 DEF Contents
    <2>4. UNCHANGED Given
      BY <1>1 DEF Put, clients, Given
    <2>5. Cache!Learn(key)
      BY <2>1, <2>2, <2>3, <2>4 DEF Cache!Learn, UserOf
    <2> QED
      BY <2>1, <2>5 DEF Cache!Next
  <1>2. CASE Relay /\ Written(value, FALSE)
    <2>1. /\ key \in Keys /\ client \in Clients /\ value \in Replies /\ value.user = key
          /\ get_node(map, key) = NULL /\ got[client] = NULL /\ TypeOK
      BY <1>2 DEF IInv, Relay, Buffers, Asked, Missed, Serving
    <2>2. Given' = [Given EXCEPT ![client] = [key |-> key, value |-> value]]
      BY <1>2, <2>1, GivenAfterWrite
    <2>3. Contents(map)[key] = NULL /\ Given[client] = NULL /\ UNCHANGED Contents(map)
      BY <1>2, <2>1 DEF Contents, Given, Relay
    <2>4. Cache!Fresh(client, key)
      BY <2>1, <2>2, <2>3 DEF Cache!Fresh, UserOf
    <2> QED
      BY <2>1, <2>4 DEF Cache!Next
  <1>3. CASE Hit /\ Written(get_node(map, key), TRUE)
    <2>1. /\ key \in Keys /\ client \in Clients /\ get_node(map, key) \in Replies
          /\ get_node(map, key) # NULL /\ got[client] = NULL /\ TypeOK
      BY <1>3 DEF IInv, Hit, Buffers, TableOwn, Asked, Missed, Serving
    <2>2. Given' = [Given EXCEPT ![client] = [key |-> key, value |-> get_node(map, key)]]
      BY <1>3, <2>1, GivenAfterWrite
    <2>3. /\ Contents(map)[key] = get_node(map, key)
          /\ Given[client] = NULL /\ UNCHANGED Contents(map)
      BY <1>3, <2>1 DEF Contents, Given, Hit
    <2>4. Cache!Repeat(client, key)
      BY <2>1, <2>2, <2>3 DEF Cache!Repeat
    <2> QED
      BY <2>1, <2>4 DEF Cache!Next
  <1>4. CASE UNCHANGED <<map, got>>
    BY <1>4 DEF Cache!vars, Contents, Given
  <1>5. \/ UNCHANGED <<map, got>>
        \/ Put /\ map' = put_node(map, key, value)
        \/ Relay /\ Written(value, FALSE)
        \/ Hit /\ Written(get_node(map, key), TRUE)
    BY DEF Next, Main, Accept, Read, Get, Connect, Fetch, Relay, Put, Hit, Close, Call, Ask, Leave,
           FingerServer, vars, clients
  <1> QED
    BY <1>1, <1>2, <1>3, <1>4, <1>5

\* finger_proxy.c is a cache: what its hash table means for a key is learned once and
\* never replaced, and each client is given, once, a fresh answer to a key without
\* one or the kept answer.
THEOREM ImplementsAnswerCache == Spec => IsAnswerCache
  BY IInvHolds, CacheInit, CacheStep, PTL DEF Spec, IsAnswerCache, Cache!Spec
-----------------------------------------------------------------------------
(* The safety half of Answered.  A client is closed without an answer only *)
(* where connect or the finger server failed, which costs a descriptor, or *)
(* where the last descriptor is gone already, and only on a miss.          *)

\* Why nothing need be written to client c.
Excused(c) ==
  \/ got[c] # NULL \/ left[c] \/ asks[c] = EOF
  \/ lost > 0 /\ asks[c] \in Keys /\ \E k \in Cut[asks[c]] : get_node(map, k) = NULL

Accounted ==
  /\ pc = "put" => got[client] # NULL \/ left[client]
  /\ pc = "close" => Excused(client)

LEMMA AccountedStep ==
  ASSUME MaxFds > 1, IInv, Accounted, [Next]_vars
  PROVE  Accounted'
  <1> USE DEF Accounted, Goto
  <1>1. CASE Accept \/ Get
    BY <1>1 DEF Accept, Get
  <1>2. CASE Read
    BY <1>2 DEF Read, Excused, clients
  <1>3. CASE Connect
    <2>1. /\ get_node(map, key) = NULL /\ asks[client] \in Keys /\ key \in Cut[asks[client]]
          /\ UNCHANGED <<map, client, clients>> /\ pc = "connect"
      BY <1>3 DEF Connect, IInv, Buffers, Asked, Missed, Serving
    <2>2. pc' = "fetch" \/ (pc' = "close" /\ lost' > 0)
      BY <1>3, ProxyAssumption DEF Connect, IInv, TypeOK
    <2> QED
      BY <2>1, <2>2 DEF Excused, clients
  <1>4. CASE Fetch
    <2>1. /\ get_node(map, key) = NULL /\ asks[client] \in Keys /\ key \in Cut[asks[client]]
          /\ UNCHANGED <<map, client, cst, asks, left, got>>
      BY <1>4 DEF Fetch, IInv, Buffers, Asked, Missed, Serving
    <2>2. pc' \in {"relay", "exited"} \/ (pc' = "close" /\ lost' > 0)
      <3>1. lost \in Nat
        BY ProxyAssumption DEF IInv, TypeOK
      <3>2. pc' \in {"relay", "exited"} \/ (pc' = "close" /\ lost' = lost + 1)
        BY <1>4 DEF Fetch
      <3> QED
        BY <3>1, <3>2
    <2> QED
      BY <2>1, <2>2 DEF Excused, clients
  <1>5. CASE Relay
    <2>1. client \in Clients /\ value \in Replies /\ key \in Keys
      BY <1>5 DEF Relay, IInv, Buffers, Asked, Serving
    <2>2. CASE Written(value, FALSE)
      <3>1. got'[client] = [key |-> key, value |-> value, cash |-> FALSE]
        BY <2>1, <2>2 DEF Written, IInv, TypeOK
      <3>2. [key |-> key, value |-> value, cash |-> FALSE] \in Answers
        BY <2>1 DEF Answers
      <3>3. got'[client] # NULL
        BY <3>1, <3>2, ValuesAssumption
      <3> QED
        BY <1>5, <3>3 DEF Relay
    <2>3. CASE left[client]
      BY <1>5, <2>3 DEF Relay
    <2> QED
      BY <1>5, <2>2, <2>3 DEF Relay
  <1>6. CASE Put
    BY <1>6 DEF Put, Excused, clients
  <1>7. CASE Hit
    <2>1. client \in Clients /\ key \in Keys /\ get_node(map, key) \in Replies
      BY <1>7 DEF Hit, IInv, Buffers, TableOwn, Asked, Serving
    <2>2. CASE Written(get_node(map, key), TRUE)
      <3>1. got'[client] = [key |-> key, value |-> get_node(map, key), cash |-> TRUE]
        BY <2>1, <2>2 DEF Written, IInv, TypeOK
      <3>2. [key |-> key, value |-> get_node(map, key), cash |-> TRUE] \in Answers
        BY <2>1 DEF Answers
      <3>3. got'[client] # NULL
        BY <3>1, <3>2, ValuesAssumption
      <3> QED
        BY <1>7, <3>3 DEF Hit, Excused
    <2>3. CASE left[client]
      BY <1>7, <2>3 DEF Hit, Excused
    <2> QED
      BY <1>7, <2>2, <2>3 DEF Hit
  <1>8. CASE Close
    BY <1>8 DEF Close
  <1>9. ASSUME NEW c \in Clients, Call(c) \/ Ask(c) PROVE Accounted'
    <2>1. UNCHANGED <<map, main, left, got>>
      BY <1>9 DEF Call, Ask
    <2>2. \A d \in Clients : asks[d] # NULL => asks'[d] = asks[d]
      BY <1>9 DEF Call, Ask, IInv, TypeOK
    <2>3. pc \in Serving => client \in Clients
      BY DEF IInv, Buffers
    <2> QED
      BY <2>1, <2>2, <2>3, ProxyAssumption DEF main, Excused, Serving
  <1>10. ASSUME NEW c \in Clients, Leave(c) PROVE Accounted'
    <2>1. UNCHANGED <<map, main, asks, got>>
      BY <1>10 DEF Leave
    <2>2. \A d \in Clients : left[d] => left'[d]
      BY <1>10 DEF Leave, IInv, TypeOK
    <2>3. pc \in Serving => client \in Clients
      BY DEF IInv, Buffers
    <2> QED
      BY <2>1, <2>2, <2>3 DEF main, Excused, Serving
  <1>11. CASE FingerServer \/ UNCHANGED vars
    BY <1>11 DEF FingerServer, vars, main, clients, Excused
  <1> QED
    BY <1>1, <1>2, <1>3, <1>4, <1>5, <1>6, <1>7, <1>8, <1>9, <1>10, <1>11 DEF Next, Main

\* The safety half of Answered: main closes a client that sent a name and stayed
\* only with an answer, or when a descriptor is lost and the table has no answer.
\* Needs a descriptor for the client and one for the finger server.
THEOREM ClosedIsAnswered ==
  MaxFds > 1 /\ Spec =>
    [][\A c \in Clients : cst[c] # "closed" /\ cst'[c] = "closed" => Excused(c)]_vars
  <1> DEFINE Closes == \A c \in Clients : cst[c] # "closed" /\ cst'[c] = "closed" => Excused(c)
  <1> SUFFICES ASSUME MaxFds > 1 PROVE Spec => [][Closes]_vars
    OBVIOUS
  <1>1. Init => Accounted
    BY DEF Init, Accounted
  <1>2. IInv /\ Accounted /\ [Next]_vars => Accounted'
    BY AccountedStep
  <1>3. ASSUME IInv, Accounted, [Next]_vars PROVE [Closes]_vars
    <2> SUFFICES ASSUME NEW c \in Clients, cst[c] # "closed", cst'[c] = "closed" PROVE Excused(c)
      OBVIOUS
    <2>1. CASE Close
      <3>1. c = client
        BY <2>1 DEF Close, IInv, TypeOK
      <3> QED
        BY <2>1, <3>1, <1>3 DEF Close, Accounted
    <2>2. CASE Accept
      BY <2>2 DEF Accept, IInv, TypeOK
    <2>3. ASSUME NEW d \in Clients, Call(d) PROVE FALSE
      BY <2>3 DEF Call, IInv, TypeOK
    <2>4. CASE UNCHANGED cst
      BY <2>4
    <2> QED
      BY <1>3, <2>1, <2>2, <2>3, <2>4
      DEF Next, Main, Read, Get, Connect, Fetch, Relay, Put, Hit, Ask, Leave, FingerServer,
          vars, clients
  <1> QED
    BY IInvHolds, <1>1, <1>2, <1>3, PTL DEF Spec
=============================================================================
