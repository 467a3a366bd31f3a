-------------------------------- MODULE MCFlat --------------------------------
EXTENDS FlatReadBack

MCTopics == DOMAIN Tables
MCTexts == {<<>>, <<97, 98, 99, 100, 101>>}
MCMixed == {"RpcMessage"}
MCDamageable == {"RpcMessage", "KeyValue", "EnumVal"}
MCOptions == {[force |-> FALSE, dedup |-> TRUE],
              [force |-> TRUE, dedup |-> TRUE],
              [force |-> FALSE, dedup |-> FALSE]}
MCKeyLists == {<<1, 2>>, <<3, 1, 2>>}
MCMaxObjects == [t \in MCTopics |-> IF t \in MCMixed THEN 3 ELSE 2]
===============================================================================
