--------------------------- MODULE KeyValueStore ----------------------------
(***************************************************************************)
(* What IdempotencyStorePort promises to the CRM gateway: one map from     *)
(* idempotency keys to records, in which put and get take effect at once,  *)
(* whichever pipeline run calls them.  save changes nothing.  With Redis,  *)
(* where a call is one command, this is the store itself; the file has to  *)
(* implement it (FileIdempotencyStore).                                    *)
(***************************************************************************)
CONSTANTS Clients, Keys, Records, NoRecord, Unasked

VARIABLES
  records,    \* the map
  answer      \* answer[c]: what c's last get returned, if it called get

KVInit ==
  /\ records = [k \in Keys |-> NoRecord]
  /\ answer = [c \in Clients |-> Unasked]

Put(k, r) ==
  /\ records' = [records EXCEPT ![k] = r]
  /\ UNCHANGED answer

Get(c, k) ==
  /\ answer' = [answer EXCEPT ![c] = records[k]]
  /\ UNCHANGED records

\* A client that restarts has asked for nothing yet.
Forget(c) ==
  /\ answer' = [answer EXCEPT ![c] = Unasked]
  /\ UNCHANGED records

KVNext ==
  \/ \E k \in Keys, r \in Records : Put(k, r)
  \/ \E c \in Clients, k \in Keys : Get(c, k)
  \/ \E c \in Clients : Forget(c)

KVSpec == KVInit /\ [][KVNext]_<<records, answer>>
=============================================================================
