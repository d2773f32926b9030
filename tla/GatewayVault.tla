---------------------------- MODULE GatewayVault ----------------------------
(***************************************************************************)
(* The vault of the gateway (gateway/anonymizer/vault.py): one Redis key   *)
(* per session, holding its mapping as a whole.  Redis and the gateway are *)
(* different processes; the key outlives the handler that wrote it until   *)
(* its time to live is over.                                               *)
(***************************************************************************)
CONSTANT Sessions

VARIABLES
    redis,      \* redis[s]: the mapping under the key of s, <<>> when there is none
    read        \* read[s]: what store got and has not written back yet

NoMapping == <<>>

\* mapping[placeholder] = original
Put(mapping, item) ==
    [ph \in DOMAIN mapping \cup {item[1]} |->
        IF ph = item[1] THEN item[2] ELSE mapping[ph]]

GatewayVaultInit ==
    /\ redis = [s \in Sessions |-> NoMapping]
    /\ read = [s \in Sessions |-> NoMapping]

\* store, up to its first await: the key is read; a missing one reads as {}.
StoreGet(s) ==
    /\ read' = [read EXCEPT ![s] = redis[s]]
    /\ UNCHANGED redis

\* A mistake to be caught: what was stored before is not written back.
StoreSetFresh(s, item) ==
    /\ redis' = [redis EXCEPT ![s] = Put(NoMapping, item)]
    /\ UNCHANGED read

\* store, its second await: the mapping is written with the item, for another ttl.
StoreSet(s, item) ==
    /\ redis' = [redis EXCEPT ![s] = Put(read[s], item)]
    /\ UNCHANGED read

\* flush
Flush(s) ==
    /\ redis' = [redis EXCEPT ![s] = NoMapping]
    /\ UNCHANGED read

\* Redis drops a key whose time to live is over.
Lapse(s) ==
    /\ redis[s] # NoMapping
    /\ Flush(s)
=============================================================================
