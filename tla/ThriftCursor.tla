---------------------------- MODULE ThriftCursor ----------------------------
(***************************************************************************)
(* The Readers of parquet_to_jumptable.cc and thrift_codec.h: a cursor     *)
(* over a Thrift Compact blob.  A blob is a sequence of tokens, one per    *)
(* wire item: a field header, a number, a byte string, a list header, a    *)
(* struct's STOP.  Offsets count tokens from 0.                            *)
(***************************************************************************)
EXTENDS Ordering, SequencesExt

Types == {"bool", "int", "bin", "list", "map", "struct", "stop"}

Token(t, a, b) == [t |-> t, a |-> a, b |-> b]
Short(delta, type) == Token("field", delta, type)   \* id as a delta from the last
Long(id, type) == <<Token("field", 0, type), Token("num", id, 0)>>
Num(n) == Token("num", n, 0)
Bin(bytes) == Token("bin", bytes, 0)
ListHdr(elem, size) == Token("list", elem, size)
Stop == Token("stop", 0, 0)

\* What a token holds that a cursor looks at.
IsToken(x) ==
  /\ x.t = "field" => x.a \in Nat /\ x.b \in Types \ {"stop"}
  /\ x.t = "num" => x.a \in Int
  /\ x.t = "list" => x.a \in Types /\ x.b \in Nat
IsBlob(s) ==
  /\ Len(s) \in Nat /\ s = [i \in 1 .. Len(s) |-> s[i]]
  /\ \A i \in 1 .. Len(s) : IsToken(s[i])

\* Behind the blob there is nothing to read: NextField ends the struct there.
At(s, o) == IF o < Len(s) THEN s[o + 1] ELSE Stop

\* A number, and the type and number of a list's items; nothing where a token is
\* not what it is read as, which no cursor meets that started at a struct.
NumAt(s, o) == IF At(s, o).t = "num" THEN At(s, o).a ELSE 0
ElemAt(s, o) == IF At(s, o).t = "list" THEN At(s, o).a ELSE "stop"
SizeAt(s, o) == IF At(s, o).t = "list" THEN At(s, o).b ELSE 0

\* The field header at o, where last is the id of the struct's previous field:
\* its id and type and the offset of its value.
NextField(s, o, last) ==
  IF At(s, o).t # "field"
  THEN [id |-> 0, type |-> "stop", at |-> o, value |-> o + 1]
  ELSE IF At(s, o).a # 0
       THEN [id |-> last + At(s, o).a, type |-> At(s, o).b, at |-> o, value |-> o + 1]
       ELSE [id |-> NumAt(s, o + 1), type |-> At(s, o).b, at |-> o, value |-> o + 2]

\* What Skip has still to do: n values of a type, and then what was to do before.
\* A boolean is in the header of its field or list.
Values(type, n) == IF n < 1 \/ type = "bool" THEN <<>> ELSE <<[type |-> type, n |-> n]>>
Calls == [at : Nat, todo : Seq([type : Types, n : Nat \ {0}])]

\* Behind the first tokens of a value, and what is inside it: a list's items, a
\* struct's first field and the rest of the struct.
Inside(s, o, type) == IF type = "struct" THEN NextField(s, o, 0).value ELSE o + 1
Inner(s, o, type) ==
  LET f == NextField(s, o, 0) IN
  CASE type = "list" -> Values(ElemAt(s, o), SizeAt(s, o))
    [] type = "struct" /\ f.type # "stop" -> Values(f.type, 1) \o Values("struct", 1)
    [] OTHER -> <<>>

\* One call of Skip, at a value.
SkipStep(s, c) ==
  LET top == Head(c.todo) IN
  [at |-> Inside(s, c.at, top.type),
   todo |-> Inner(s, c.at, top.type) \o (Values(top.type, top.n - 1) \o Tail(c.todo))]

\* Where the calls end: with nothing left to skip, or behind the blob, where the
\* cursor is not ok.
Ends(s) ==
  LET end[c \in Calls] ==
        IF c.todo = <<>> \/ c.at > Len(s) THEN c.at ELSE end[SkipStep(s, c)]
  IN end

\* The offset behind the value of a type at o.
Skip(s, o, type) == Ends(s)[[at |-> o, todo |-> Values(type, 1)]]

\* The fields NextField meets, one after the other, in the struct at o.
Fields(s, o) ==
  LET from[c \in [at : Nat, last : Int]] ==
        LET f == NextField(s, c.at, c.last) IN
        IF f.type = "stop" THEN <<>>
        ELSE <<f>> \o from[[at |-> Skip(s, f.value, f.type), last |-> f.id]]
  IN from[[at |-> o, last |-> 0]]

\* Where the items of the list at o start, and where the last one ends.
Starts(s, o) ==
  LET start[j \in Nat] == IF j = 0 THEN o + 1 ELSE Skip(s, start[j - 1], ElemAt(s, o))
  IN [j \in 1 .. SizeAt(s, o) + 1 |-> start[j - 1]]
Items(s, o) == [j \in 1 .. SizeAt(s, o) |-> Starts(s, o)[j]]

\* The fields with an id and a type, those with an id, and the tokens of a field's value.
Those(fields, id, type) ==
  LET those == InOrder({j \in DOMAIN fields : fields[j].id = id /\ fields[j].type = type})
  IN [j \in DOMAIN those |-> fields[those[j]]]
WithId(fields, id) ==
  LET those == InOrder({j \in DOMAIN fields : fields[j].id = id})
  IN [j \in DOMAIN those |-> fields[those[j]]]
ValueOf(s, f) == SubSeq(s, f.value + 1, Skip(s, f.value, f.type))
=============================================================================
