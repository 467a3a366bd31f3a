----------------------------- MODULE FlatSchemas -----------------------------
(***************************************************************************)
(* The tables of the generated headers.  A table is the sequence of its    *)
(* fields in the order in which Verify() checks them; a field is its place *)
(* in the vtable, what it holds, the width and the default of a scalar,    *)
(* the table it refers to and whether Finish() insists on it.              *)
(***************************************************************************)
EXTENDS Integers, SequencesExt

Num(vo, w, default) ==
    [vo |-> vo, kind |-> "num", w |-> w, default |-> default, of |-> "",
     required |-> FALSE]
Ref(vo, kind, of) ==
    [vo |-> vo, kind |-> kind, w |-> 4, default |-> 0, of |-> of,
     required |-> FALSE]
Str(vo) == Ref(vo, "string", "")
ByteVec(vo) == Ref(vo, "bytes", "")
Strs(vo) == Ref(vo, "strings", "")
Sub(vo, of) == Ref(vo, "table", of)
Subs(vo, of) == Ref(vo, "tables", of)
Needed(f) == [f EXCEPT !.required = TRUE]

RpcMessageTable == <<Num(4, 1, 0), Num(6, 4, 0), Str(8), ByteVec(10)>>

VoidRequest == <<>>
BoolRequest == <<Num(4, 1, 0)>>
IntRequest == <<Num(4, 4, 0)>>
Int64Request == <<Num(4, 8, 0)>>
FloatRequest == <<Num(4, 4, 0)>>
DoubleRequest == <<Num(4, 8, 0)>>
StringRequest == <<Str(4)>>
BytesRequest == <<ByteVec(4)>>

VoidResponse == <<>>
BoolResponse == <<Num(4, 1, 0)>>
IntResponse == <<Num(4, 4, 0)>>
Int64Response == <<Num(4, 8, 0)>>
FloatResponse == <<Num(4, 4, 0)>>
DoubleResponse == <<Num(4, 8, 0)>>
StringResponse == <<Str(4)>>
BytesResponse == <<ByteVec(4)>>

Type == <<Num(4, 1, 0), Num(6, 1, 0), Num(8, 4, -1), Num(10, 2, 0),
          Num(12, 4, 4), Num(14, 4, 0)>>
KeyValue == <<Needed(Str(4)), Str(6)>>
EnumVal == <<Needed(Str(4)), Num(6, 8, 0), Sub(10, "Type"), Strs(12),
             Subs(14, "KeyValue")>>
Enum == <<Needed(Str(4)), Needed(Subs(6, "EnumVal")), Num(8, 1, 0),
          Needed(Sub(10, "Type")), Subs(12, "KeyValue"), Strs(14), Str(16)>>
Field == <<Needed(Str(4)), Needed(Sub(6, "Type")), Num(8, 2, 0),
           Num(10, 2, 0), Num(12, 8, 0), Num(14, 8, 0), Num(16, 1, 0),
           Num(18, 1, 0), Num(20, 1, 0), Subs(22, "KeyValue"), Strs(24),
           Num(26, 1, 0), Num(28, 2, 0), Num(30, 1, 0)>>
Object == <<Needed(Str(4)), Needed(Subs(6, "Field")), Num(8, 1, 0),
            Num(10, 4, 0), Num(12, 4, 0), Subs(14, "KeyValue"), Strs(16),
            Str(18)>>
RPCCall == <<Needed(Str(4)), Needed(Sub(6, "Object")),
             Needed(Sub(8, "Object")), Subs(10, "KeyValue"), Strs(12)>>
Service == <<Needed(Str(4)), Subs(6, "RPCCall"), Subs(8, "KeyValue"),
             Strs(10), Str(12)>>
SchemaFile == <<Needed(Str(4)), Strs(6)>>
Schema == <<Needed(Subs(4, "Object")), Needed(Subs(6, "Enum")), Str(8),
            Str(10), Sub(12, "Object"), Subs(14, "Service"), Num(16, 8, 0),
            Subs(18, "SchemaFile")>>

Tables ==
    [RpcMessage |-> RpcMessageTable,
     VoidRequest |-> VoidRequest, BoolRequest |-> BoolRequest,
     IntRequest |-> IntRequest, Int64Request |-> Int64Request,
     FloatRequest |-> FloatRequest, DoubleRequest |-> DoubleRequest,
     StringRequest |-> StringRequest, BytesRequest |-> BytesRequest,
     VoidResponse |-> VoidResponse, BoolResponse |-> BoolResponse,
     IntResponse |-> IntResponse, Int64Response |-> Int64Response,
     FloatResponse |-> FloatResponse, DoubleResponse |-> DoubleResponse,
     StringResponse |-> StringResponse, BytesResponse |-> BytesResponse,
     Type |-> Type, KeyValue |-> KeyValue, EnumVal |-> EnumVal,
     Enum |-> Enum, Field |-> Field, Object |-> Object,
     RPCCall |-> RPCCall, Service |-> Service, SchemaFile |-> SchemaFile,
     Schema |-> Schema]

\* The field that KeyCompareLessThan() and KeyCompareWithValue() look at.
KeyOf(T) == IF T = "EnumVal" THEN 2 ELSE 1

\* The order of the add_ calls in every generated Create function: wide
\* fields first, and of equal width the last declared first.
AddOrder(fields) ==
    LET n == Len(fields)
        Pass(w) == FlattenSeq([k \in 1..n |->
                      IF fields[n + 1 - k].w = w THEN <<n + 1 - k>> ELSE <<>>])
    IN  Pass(8) \o Pass(4) \o Pass(2) \o Pass(1)
==============================================================================
