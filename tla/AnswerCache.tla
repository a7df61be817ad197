---------------------------- MODULE AnswerCache ----------------------------
(***************************************************************************)
(* What a proxy with a cache promises, whatever its tables and sockets: an *)
(* answer learned for a key is not replaced, only forgotten together with  *)
(* all others, and a client is given, once, either a fresh answer to a key *)
(* that has none or the one learned for it.                                *)
(***************************************************************************)
CONSTANTS Keys, Values, Clients, KeyOf(_), NULL

VARIABLES
  learned,  \* key to the answer kept for it, or NULL
  given     \* client to [key, value], or NULL

vars == <<learned, given>>

Init ==
  /\ learned = [k \in Keys |-> NULL]
  /\ given = [c \in Clients |-> NULL]

\* A fresh answer goes to the client that asked.
Fresh(c, k) ==
  /\ given[c] = NULL /\ learned[k] = NULL
  /\ \E v \in Values :
       /\ KeyOf(v) = k
       /\ given' = [given EXCEPT ![c] = [key |-> k, value |-> v]]
  /\ UNCHANGED learned

\* It may be learned, if the key had no answer.
Learn(k) ==
  /\ learned[k] = NULL
  /\ \E v \in Values : KeyOf(v) = k /\ learned' = [learned EXCEPT ![k] = v]
  /\ UNCHANGED given

\* A learned answer is repeated.
Repeat(c, k) ==
  /\ given[c] = NULL /\ learned[k] # NULL
  /\ given' = [given EXCEPT ![c] = [key |-> k, value |-> learned[k]]]
  /\ UNCHANGED learned

\* The cache may be emptied, of everything at once, as 11.17.md would have it do once
\* a day.  When is not promised.
Forget ==
  /\ learned' = [k \in Keys |-> NULL]
  /\ UNCHANGED given

Next ==
  \/ \E c \in Clients, k \in Keys : Fresh(c, k) \/ Repeat(c, k)
  \/ \E k \in Keys : Learn(k)
  \/ Forget

Spec == Init /\ [][Next]_vars
=============================================================================
