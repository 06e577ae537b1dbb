-------------------------------- MODULE Json --------------------------------
(***************************************************************************)
(* The values and operations of libjson/parson.c that the configuration    *)
(* commands use, with the two functions the tool's authors added to it,    *)
(* json_value_equals and json_value_merge.                                 *)
(*                                                                         *)
(* A function that returns NULL returns NoValue here, and one that returns *)
(* JSONFailure returns NoValue in place of what it changed.  Values are    *)
(* never shared, so a deep copy is the value.  Numbers are integers: the   *)
(* fields the tool writes are.  Text is abstracted to what becomes of it   *)
(* when it is written and parsed again.                                    *)
(***************************************************************************)
EXTENDS Integers, Sequences

CONSTANTS STARTING_CAPACITY, OBJECT_MAX_CAPACITY, MAX_NESTING

ASSUME JsonAssumption ==
    /\ STARTING_CAPACITY \in Nat \ {0}
    /\ OBJECT_MAX_CAPACITY \in Nat
    /\ STARTING_CAPACITY <= OBJECT_MAX_CAPACITY
    /\ MAX_NESTING \in Nat /\ MAX_NESTING >= 3

NoValue == [type |-> "error"]
Number(n) == [type |-> "number", number |-> n]
Boolean(b) == [type |-> "boolean", boolean |-> b]

\* kind: "plain"; "control" with a character below 0x20 that has no escape of
\* its own; "invalid" if it is no UTF-8.
Kinds == {"plain", "control", "invalid"}
String(s, kind) == [type |-> "string", string |-> s, kind |-> kind]
Array(items) == [type |-> "array", items |-> items]

\* An object is a sequence of named values.
Member(name, value) == [name |-> name, value |-> value]
Object(members) == [type |-> "object", members |-> members]

Texts == [type : {"string"}, string : STRING, kind : Kinds]
Scalars == [type : {"number"}, number : Int]
           \cup [type : {"boolean"}, boolean : BOOLEAN] \cup Texts

\* The values of up to n levels, one inside the other.
Nested[n \in 0..MAX_NESTING + 1] ==
    LET inner == Nested[n - 1]
    IN IF n = 0 THEN {}
       ELSE Scalars \cup [type : {"array"}, items : Seq(inner)]
            \cup [type : {"object"}, members : Seq([name : STRING, value : inner])]

\* parse_value counts the levels from 0 and refuses what is nested deeper.
JSON == Nested[MAX_NESTING + 1]

\* The parser refuses an object with two members of one name.
Parses[v \in JSON] ==
    /\ v.type = "array" => \A i \in DOMAIN v.items : Parses[v.items[i]]
    /\ v.type = "object" =>
           /\ \A i \in DOMAIN v.members : Parses[v.members[i].value]
           /\ \A i, j \in DOMAIN v.members :
                  v.members[i].name = v.members[j].name => i = j

\* json_serialize_to_file writes a control character as it is if it has no
\* escape of its own, and the parser refuses one that is not escaped.
Printable[v \in JSON] ==
    /\ v.type = "string" => v.kind # "control"
    /\ v.type = "array" => \A i \in DOMAIN v.items : Printable[v.items[i]]
    /\ v.type = "object" => \A i \in DOMAIN v.members : Printable[v.members[i].value]

\* What the parser can return: the escape \u0001 gives a control character.
Parsed == {v \in JSON : Parses[v]} \cup {NoValue}

IsObject(v) == v.type = "object"

-----------------------------------------------------------------------------
(* Objects and arrays.                                                     *)

Names(o) == {o.members[i].name : i \in DOMAIN o.members}
Place(o, name) == CHOOSE i \in DOMAIN o.members : o.members[i].name = name

json_object_get_value(o, name) ==
    IF IsObject(o) /\ name \in Names(o) THEN o.members[Place(o, name)].value
    ELSE NoValue

OfType(v, type) == IF v.type = type THEN v ELSE NoValue
json_object_get_object(o, name) == OfType(json_object_get_value(o, name), "object")
json_object_get_array(o, name) == OfType(json_object_get_value(o, name), "array")

json_value_get_number(v) == IF v.type = "number" THEN v.number ELSE 0
json_object_get_number(o, name) == json_value_get_number(json_object_get_value(o, name))

\* The capacity with room for one more than count.
Grown(capacity, count) ==
    IF count < capacity THEN capacity
    ELSE IF 2 * capacity > STARTING_CAPACITY THEN 2 * capacity
    ELSE STARTING_CAPACITY

json_object_add(o, capacity, name, value) ==
    IF ~IsObject(o) \/ value = NoValue \/ name \in Names(o)
         \/ Grown(capacity, Len(o.members)) > OBJECT_MAX_CAPACITY
    THEN NoValue
    ELSE Object(Append(o.members, Member(name, value)))

\* A value that is there is overwritten in its place.  An object that comes
\* from the parser has no room left.
json_object_set_value(o, name, value) ==
    IF ~IsObject(o) \/ value = NoValue THEN NoValue
    ELSE IF name \in Names(o)
    THEN Object([o.members EXCEPT ![Place(o, name)] = Member(name, value)])
    ELSE json_object_add(o, Len(o.members), name, value)

\* The last member takes the place of the one removed.
json_object_remove(o, name) ==
    LET last == Len(o.members)
    IN Object(SubSeq([o.members EXCEPT ![Place(o, name)] = o.members[last]],
                     1, last - 1))

json_array_replace_value(a, i, value) ==
    IF a = NoValue \/ i \notin DOMAIN a.items THEN NoValue
    ELSE Array([a.items EXCEPT ![i] = value])

\* json_value_init_string refuses what is no UTF-8; the parser does not.
json_value_init_string(s) == IF s.kind = "invalid" THEN NoValue ELSE s

-----------------------------------------------------------------------------
(* Comparing and merging.                                                  *)

\* The order of an object's members does not matter.
json_value_equals[p \in Parsed \X Parsed] ==
    LET a == p[1]
        b == p[2]
    IN /\ a.type = b.type
       /\ a.type = "array" =>
              /\ Len(a.items) = Len(b.items)
              /\ \A i \in DOMAIN a.items :
                     json_value_equals[<<a.items[i], b.items[i]>>]
       /\ a.type = "object" =>
              /\ Len(a.members) = Len(b.members)
              /\ \A i \in DOMAIN a.members :
                     json_value_equals[<<a.members[i].value,
                                json_object_get_value(b, a.members[i].name)>>]
       /\ a.type \notin {"array", "object"} => a = b

\* A merge on its way: the object as it is so far, with the room it has; ok as
\* long as nothing has failed; whole as long as nothing has inside of it.
Added(m, o, name, value) ==
    LET added == json_object_add(o, m.capacity, name, value)
    IN IF added = NoValue THEN [m EXCEPT !.object = o, !.ok = FALSE]
       ELSE [m EXCEPT !.object = added,
                      !.capacity = Grown(m.capacity, Len(o.members))]

\* Mutated form: an object is replaced like any other value.
MergeMemberWhole(m, name, old, new, inner) ==
    CASE old = NoValue -> Added(m, m.object, name, new)
      [] old # NoValue /\ json_value_equals[<<old, new>>] -> m
      [] OTHER -> Added(m, json_object_remove(m.object, name), name, new)

\* One turn of the loop: name has the value new in the second object and old in
\* the first, and inner comes of merging the two.  An object is merged with new
\* in its place, and whether that worked is not looked at; anything else is
\* removed and added at the end.
MergeMember(m, name, old, new, inner) ==
    CASE old = NoValue -> Added(m, m.object, name, new)
      [] old # NoValue /\ json_value_equals[<<old, new>>] -> m
      [] IsObject(old) /\ ~json_value_equals[<<old, new>>] ->
            [m EXCEPT !.object = json_object_set_value(@, name, inner.value),
                      !.whole = @ /\ inner.whole /\ (IsObject(new) => inner.ok)]
      [] OTHER -> Added(m, json_object_remove(m.object, name), name, new)

\* The object b is merged into the object a; inner[i] is what comes of merging
\* the i-th member of b.  A name is in b once, so its value in a is still the
\* first one when its turn comes.  After a failure a stays as it is by then.
Merged(a, b, inner) ==
    LET Turn(m, name, new, i) ==
            MergeMember(m, name, json_object_get_value(a, name), new, inner[i])
        after[i \in 0..Len(b.members)] ==
            IF i = 0 THEN [object |-> a, capacity |-> Len(a.members),
                           ok |-> TRUE, whole |-> TRUE]
            ELSE IF after[i - 1].ok
            THEN Turn(after[i - 1], b.members[i].name, b.members[i].value, i)
            ELSE after[i - 1]
        last == after[Len(b.members)]
    IN [value |-> last.object, ok |-> last.ok, whole |-> last.whole]

json_value_merge[p \in Parsed \X Parsed] ==
    LET a == p[1]
        b == p[2]
    IN IF IsObject(a) /\ IsObject(b)
       THEN Merged(a, b,
                   [i \in DOMAIN b.members |->
                       json_value_merge[<<json_object_get_value(a, b.members[i].name),
                                          b.members[i].value>>]])
       ELSE [value |-> a, ok |-> FALSE, whole |-> TRUE]

-----------------------------------------------------------------------------
(* Files.  A file is the value the tool wrote it from, a value Escaped by  *)
(* another program, whose control characters are written with \u, Garbled *)
(* if its text is no JSON, or Absent.                                      *)

Absent == [type |-> "absent"]
Garbled == [type |-> "garbled"]
Escaped(v) == [type |-> "escaped", value |-> v]
Files == JSON \cup [type : {"escaped"}, value : JSON] \cup {Absent, Garbled}

\* The value a file holds, whichever way it is written.
Content(file) == IF file.type = "escaped" THEN file.value ELSE file

json_parse_file(file) ==
    LET value == Content(file)
    IN IF /\ value \in JSON /\ Parses[value]
          /\ file.type = "escaped" \/ Printable[value]
       THEN value ELSE NoValue
=============================================================================
