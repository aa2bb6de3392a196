----------------------------- MODULE Dictionary -----------------------------
(***************************************************************************)
(* What the oblivious dictionary promises: a map from keys to nodes.       *)
(* Inserting a key that is present changes nothing.  External interface of *)
(* Client::insert and Client::find.                                        *)
(***************************************************************************)
EXTENDS Naturals

CONSTANTS Key, MaxNodes     \* node ids are 1 .. MaxNodes

VARIABLES
    dict,       \* the node of every key that is present
    request,    \* the call in progress: <<operation, key, id>>
    answer      \* what the call has found; 0 is nullptr

NoRequest == <<"none", 0, 0>>

Init == dict = <<>> /\ request = NoRequest /\ answer = 0

Request(r) ==
    /\ request = NoRequest
    /\ request' = r /\ answer' = 0
    /\ UNCHANGED dict

Insert(k, id) ==
    /\ request = <<"insert", k, id>>
    /\ dict' = [j \in DOMAIN dict \cup {k} |-> IF j \in DOMAIN dict THEN dict[j] ELSE id]
    /\ request' = NoRequest
    /\ UNCHANGED answer

Find(k) ==
    /\ request = <<"find", k, 0>>
    /\ answer' = IF k \in DOMAIN dict THEN dict[k] ELSE 0
    /\ request' = NoRequest
    /\ UNCHANGED dict

Next ==
    \E k \in Key :
       \/ Request(<<"find", k, 0>>) \/ Find(k)
       \/ \E id \in 1 .. MaxNodes : Request(<<"insert", k, id>>) \/ Insert(k, id)

Spec == Init /\ [][Next]_<<dict, request, answer>>
=============================================================================
