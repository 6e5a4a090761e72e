----------------------------- MODULE KeyValues ------------------------------
(***************************************************************************)
(* What a hash map promises its user: a function from keys to values that  *)
(* is looked up and changed by one call at a time, at the call's key and   *)
(* once; a set may be refused.  HashMap implements it.                     *)
(***************************************************************************)
CONSTANTS Keys, Values, NoValue

VARIABLES
    contents,     \* the keys present -> their values
    result,       \* what the last search returned
    call          \* the call under way

(* A set; what follows of it does not show any more.                       *)
Store(k, v) ==
    /\ call = <<"none">> /\ call' = <<"ending">>
    /\ contents' = [x \in DOMAIN contents \cup {k} |->
                        IF x = k THEN v ELSE contents[x]]
    /\ UNCHANGED result

(* A set for which there was no memory leaves the contents as they are.    *)
Refuse ==
    /\ call = <<"none">> /\ call' = <<"refused">>
    /\ UNCHANGED <<contents, result>>

LookFor(k, what) ==
    /\ call = <<"none">> /\ call' = <<what, k>>
    /\ UNCHANGED <<contents, result>>

Find(k) ==
    /\ call = <<"get", k>> /\ call' = <<"none">>
    /\ result' = IF k \in DOMAIN contents THEN contents[k] ELSE NoValue
    /\ UNCHANGED contents

Remove(k) ==
    /\ call = <<"delete", k>>
    /\ call' = IF k \in DOMAIN contents THEN <<"ending">> ELSE <<"none">>
    /\ contents' = [x \in DOMAIN contents \ {k} |-> contents[x]]
    /\ UNCHANGED result

Return ==
    /\ call \in {<<"ending">>, <<"refused">>} /\ call' = <<"none">>
    /\ UNCHANGED <<contents, result>>

KeyValuesInit == contents = <<>> /\ result = NoValue /\ call = <<"none">>

KeyValuesNext ==
    \/ \E k \in Keys, v \in Values : Store(k, v)
    \/ \E k \in Keys, what \in {"get", "delete"} : LookFor(k, what)
    \/ \E k \in Keys : Find(k) \/ Remove(k)
    \/ Refuse
    \/ Return

KeyValuesSpec ==
    KeyValuesInit /\ [][KeyValuesNext]_<<contents, result, call>>
=============================================================================
