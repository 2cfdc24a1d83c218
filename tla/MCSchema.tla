---------------------------- MODULE MCSchema ----------------------------
(* The schema validator, on small JSON documents and schemas.              *)
EXTENDS Schema

UpTo(set, n) == UNION {[1..k -> set] : k \in 0..n}

---------------------------------------------------------------------------
(* JSON values, and the documents that spell them.                         *)

JStr(x) == <<"string", x>>
JNum(x) == <<"number", x>>
JArr(s) == <<"array", s>>
JObj(s) == <<"object", s>>
Punct(c) == <<c, "">>

RECURSIVE Spelled(_), Commas(_)
Commas(parts) ==
    IF Len(parts) < 2 THEN FlattenSeq(parts)
    ELSE parts[1] \o <<Punct(",")>> \o Commas(Tail(parts))
Spelled(v) ==
    CASE v[1] = "array" ->
           <<Punct("[")>> \o Commas([i \in DOMAIN v[2] |-> Spelled(v[2][i])]) \o <<Punct("]")>>
      [] v[1] = "object" ->
           <<Punct("{")>>
             \o Commas([i \in DOMAIN v[2] |->
                          <<JStr(v[2][i][1]), Punct(":")>> \o Spelled(v[2][i][2])])
             \o <<Punct("}")>>
      [] OTHER -> <<v>>

JSmall == {JStr("a"), JNum(2), JNum(3)}
JValues ==
    {JStr("a"), JStr("abc"), JNum(2), JNum(3), JNum(-4),
     <<"boolean", "true">>, <<"null", "null">>}
    \cup {JArr(s) : s \in UpTo(JSmall, 2)} \cup {JArr(<<JNum(2), JNum(3), JNum(2)>>)}
    \cup {JArr(<<JArr(<<JArr(<<JArr(<<>>)>>)>>)>>)}
    \cup {JObj(<<>>)} \cup {JObj(<<<<k, x>>>>) : k \in {"a", "b"}, x \in JSmall}
    \cup {JObj(<<<<"a", x>>, <<"b", y>>>>) : x, y \in JSmall}
    \cup {JObj(<<<<"a", JObj(<<<<"b", JNum(2)>>>>)>>, <<"b", JArr(<<JNum(2)>>)>>>>),
          JObj(<<<<"c", JNum(2)>>, <<"a", JNum(3)>>, <<"b", JStr("a")>>>>),
          JObj(<<<<"b", JArr(<<>>)>>>>), JObj(<<<<"a", JNum(2)>>, <<"a", JStr("a")>>>>),
          JObj(<<<<"a", JArr(<<JObj(<<<<"b", JNum(2)>>>>)>>)>>>>)}
JWhole == {Spelled(v) : v \in JValues}

\* Whole documents, cut ones, ones with a bracket too many, broken ones.
MCDocuments ==
    JWhole
    \cup {SubSeq(d, 1, Len(d) - 1) : d \in {e \in JWhole : Len(e) < 8}}
    \cup {d \o <<Punct("}")>> : d \in {e \in JWhole : Len(e) < 4}}
    \cup {<<Punct("{"), <<"string">>>>, <<<<"number">>>>,
          <<Punct("{"), JStr("a"), JNum(2), Punct("}")>>}

SInt == [type |-> {"integer"}]
SNum == [type |-> {"number"}]
STwo == [type |-> {"string"}, minLength |-> 2, maxLength |-> 2]
SObj == [type |-> {"object"}, required |-> <<"a">>,
         properties |-> [a |-> SInt, b |-> [type |-> {"string", "array"}]]]
SNone == [bool |-> FALSE]

\* One schema or more for every keyword, and for keywords that meet.
MCSchemas == <<
  [bool |-> TRUE], SNone, SInt, SNum, STwo, SObj,
  [type |-> {"integer"}, minimum |-> 0, exclusiveMaximum |-> 4, multipleOf |-> 2],
  [maximum |-> 2, exclusiveMinimum |-> -4, not |-> [type |-> {"string"}]],
  [pattern |-> {"a"}], [format |-> "email"], [format |-> "uri"],
  [enum |-> <<JNum(2), JArr(<<JNum(2)>>)>>],
  [const |-> JObj(<<<<"a", JNum(2)>>>>), maxProperties |-> 1],
  [SObj EXCEPT !.properties.a = SNone],
  [properties |-> [a |-> SInt], additionalProperties |-> SNone, minProperties |-> 1],
  [properties |-> [a |-> SNum, b |-> STwo], additionalProperties |-> STwo],
  [patternProperties |-> <<[re |-> {"a"}, schema |-> SInt], [re |-> {"a", "b"}, schema |-> SNum]>>,
   additionalProperties |-> SNone],
  [patternProperties |-> <<[re |-> {"a"}, schema |-> SInt]>>,
   properties |-> [a |-> [minimum |-> 3]], additionalProperties |-> STwo,
   dependencies |-> [a |-> {"b"}]],
  [items |-> SInt, uniqueItems |-> TRUE], [items |-> SNum, maxItems |-> 1, minItems |-> 1],
  [tuple |-> <<SInt, STwo>>, additionalItems |-> SNone], [tuple |-> <<SNum>>, additionalItems |-> SInt],
  [contains |-> STwo], [contains |-> [const |-> JNum(3)], minItems |-> 2],
  [allOf |-> <<SObj, [properties |-> [b |-> STwo]]>>], [anyOf |-> <<SInt, [items |-> SInt], SObj>>],
  [oneOf |-> <<SInt, SNum, [type |-> {"object"}, required |-> <<"b">>]>>],
  [if |-> SObj, then |-> [required |-> <<"b">>], else |-> [type |-> {"array", "number"}]],
  [properties |-> [a |-> [ref |-> "x"], b |-> [ref |-> "x"]], definitions |-> [x |-> SInt]],
  [properties |-> [a |-> [ref |-> "#"]], maxProperties |-> 1],
  [draft |-> "2020-12", propertyNames |-> [maxLength |-> 1]], [enum |-> <<JNum(2)>>, const |-> JNum(2)],
  [properties |-> [a |-> [properties |-> [b |-> SNum]], b |-> [minItems |-> 0]]],
  [dependencySchemas |-> [a |-> [required |-> <<"b">>]]],
  [required |-> <<"a", "b", "c">>], [items |-> [items |-> [items |-> [items |-> SInt]]]]
>>
MCTargets == {<<<<"a">>>>, <<<<"b", "-">>, <<"a", "b">>>>, <<<<"a">>, <<"a">>>>, <<<<"0">>>>}
=============================================================================
