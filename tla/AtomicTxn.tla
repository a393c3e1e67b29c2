----------------------------- MODULE AtomicTxn -----------------------------
(* What a transactional store promises to read-modify-write programs: a    *)
(* client accumulates effects on keys, and either all of them are applied, *)
(* in one step and to the values the keys have at that moment, and the      *)
(* client is told "ok", or none is and it is told "failed".  A value is a   *)
(* counter: an effect either adds to the current value or replaces it.      *)
EXTENDS TxnData

CONSTANTS Clients, Keys

VARIABLES data,      \* the committed value of every key
          intent,    \* per client, the effect it asked for on every key
          outcome    \* per client: "idle", "open", "ok" or "failed"

vars == <<data, intent, outcome>>

\* From the effect e to one more increment, or to a replacement by any value.
Asks(e, f) == f \in Effects /\ (f.reset \/ f = [e EXCEPT !.add = @ + 1])

Init ==
  /\ data = [k \in Keys |-> 0]
  /\ intent = [c \in Clients |-> [k \in Keys |-> NoEffect]]
  /\ outcome = [c \in Clients |-> "idle"]

Start(c) ==
  /\ outcome[c] = "idle"
  /\ outcome' = [outcome EXCEPT ![c] = "open"]
  /\ intent' = [intent EXCEPT ![c] = [k \in Keys |-> NoEffect]]
  /\ UNCHANGED data

Request(c, k) ==
  /\ outcome[c] = "open"
  /\ Asks(intent[c][k], intent'[c][k])
  /\ intent' = [intent EXCEPT ![c][k] = intent'[c][k]]
  /\ UNCHANGED <<data, outcome>>

\* A retry forgets what was asked for and starts again.
Restart(c) ==
  /\ outcome[c] = "open"
  /\ intent' = [intent EXCEPT ![c] = [k \in Keys |-> NoEffect]]
  /\ UNCHANGED <<data, outcome>>

Commit(c) ==
  /\ outcome[c] = "open"
  /\ data' = [k \in Keys |-> Apply(intent[c][k], data[k])]
  /\ outcome' = [outcome EXCEPT ![c] = "ok"]
  /\ intent' = [intent EXCEPT ![c] = [k \in Keys |-> NoEffect]]

Fail(c) ==
  /\ outcome[c] = "open"
  /\ outcome' = [outcome EXCEPT ![c] = "failed"]
  /\ intent' = [intent EXCEPT ![c] = [k \in Keys |-> NoEffect]]
  /\ UNCHANGED data

\* A write outside any transaction, of one key.
DirectWrite(k) ==
  /\ data'[k] \in Nat /\ data' = [data EXCEPT ![k] = data'[k]]
  /\ UNCHANGED <<intent, outcome>>

Next ==
  \/ \E c \in Clients : \/ Start(c) \/ Restart(c) \/ Commit(c) \/ Fail(c)
                        \/ \E k \in Keys : Request(c, k)
  \/ \E k \in Keys : DirectWrite(k)

Spec == Init /\ [][Next]_vars
=============================================================================
