--------------------------- MODULE MCTypedColumns ---------------------------
EXTENDS TypedColumns

Val(kind, n) == [kind |-> kind, n |-> n]
At(key, value) == [key |-> key, value |-> value]
Rec(service, attrs) == [service |-> service, attrs |-> attrs]

(* Keys 1 and 2 share a column, keys 3 and 4 have their own, key 5 none.   *)
MCColumnOf == <<"attr_a", "attr_a", "attr_b", "attr_c", "none">>

(* Batches that promote a key to one type or another, that carry values of *)
(* another type, a key twice, an integer no float holds, and two services. *)
MCBatches ==
    {<<Rec(1, <<At(1, Val("int", 1))>>), Rec(1, <<At(1, Val("int", 2)), At(3, Val("time", 1))>>)>>,
     <<Rec(1, <<At(1, Val("float", 1)), At(1, Val("float", 2))>>), Rec(1, <<At(1, Val("int", 2)), At(2, Val("int", 1))>>)>>,
     <<Rec(2, <<At(2, Val("string", 1)), At(3, Val("bool", 1)), At(5, Val("bool", 1))>>)>>,
     <<Rec(1, <<At(3, Val("string", 1)), At(1, Val("int", 1))>>), Rec(3, <<At(4, Val("int", 1))>>)>>}

(* A float that is not a number beside an attribute.                       *)
MCNotANumber == MCBatches \cup {<<Rec(1, <<At(5, Val("nan", 0)), At(3, Val("bool", 1))>>)>>}
=============================================================================
