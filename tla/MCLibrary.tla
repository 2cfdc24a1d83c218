--------------------------- MODULE MCLibrary ---------------------------
(* Small inputs for the parts of the function library.                     *)
EXTENDS Library, MCSchema

---------------------------------------------------------------------------
(* The loader and the tokens.                                              *)

MCMemoized == <<"f">>
MCInputSymmetry == Permutations(Inputs)

Glyphs(s) == [i \in DOMAIN s |-> <<s[i]>>]
MCCookies == {<<>>, Glyphs(<<"a", ".">>), Glyphs(<<".", "a">>)}
MCSessions ==
    {[id |-> Glyphs(p[1]), data |-> Glyphs(p[2])] :
       p \in {<< <<"\\", "q">>, <<"q", "\\", "q", "}", "q">> >>,
              << <<"nl", "ctl">>, <<"{", "q", "id", "q", ":", "q", "}", "q", "}">> >>,
              << <<"bad", "a">>, <<"[", "[", "{", "}", "]", ",", "q", "]", "q", "]">> >>}}
NoClaims == [exp |-> Absent, nbf |-> Absent, iat |-> Absent]
MCJwts ==
    {[alg |-> "HS256", claims |-> NoClaims, ttl |-> 2],
     [alg |-> "EdDSA", claims |-> [NoClaims EXCEPT !.exp = Claim(2)], ttl |-> 1],
     [alg |-> "HS256", claims |-> [NoClaims EXCEPT !.nbf = Claim(1), !.iat = Claim(2)], ttl |-> 0],
     [alg |-> "EdDSA", claims |-> [NoClaims EXCEPT !.exp = [is |-> "invalid", at |-> 0]], ttl |-> 2]}
MCPlaintexts == {<<<<"x">>>>, <<<<"x">>, <<"y">>>>}

---------------------------------------------------------------------------
(* Byte texts: 37 is percent, 38 ampersand, 43 plus, 46 dot, 47 slash,     *)
(* 59 semicolon, 61 equals, 63 question mark, 92 backslash, 195 169 a      *)
(* two-byte character.                                                     *)

MCHex == UpTo({16, 48, 65, 102, 103}, 4) \cup {<<48, 49, 50, 51, 200, 52>>, <<48, 49, 50, 51, 52, 53>>}
MCTexts == UpTo({97, 37, 52, 195, 169}, 3)
             \cup {<<37, 52, 37, 52>>, <<37, 52, 49, 37>>, <<97, 37, 52, 49>>}
MCPayloads == UpTo({0, 255}, 4)
MCOptions == {<<>>, <<<<>>>>, <<<<97>>>>}
MCEvents == [event : MCOptions, id : MCOptions, retry : {<<>>, <<<<49>>>>}, data : UpTo({97, 10}, 2)]

MCLines == UpTo({97, 103, 10, 13}, 4)
MCIps ==
    {a \o <<46>> \o b \o <<46, 48>> \o e :
       a \in UpTo({48, 50, 53, 97}, 3), b \in {<<50, 53, 53>>, <<50, 53, 54>>},
       e \in {<<>>, <<46, 55>>, <<46, 55, 46>>, <<46, 55, 46, 56>>}}
MCPatterns == UpTo({92, 46, 97}, 3)

MCQueries == UpTo({38, 61, 43, 37, 52}, 3)
               \cup {<<37, 67, 51, 37, 65, 57>>, <<37, 67, 51, 61, 97>>,
                     <<97, 61, 49, 38, 97, 61, 50>>, <<43, 37>>, <<116, 61, 49>>}
MCCookieLists ==
    UpTo([name : {<<97>>, <<98>>}, value : {<<>>, <<61, 49>>}, quoted : BOOLEAN], 2)
MCRequests ==
    [method : {<<71>>}, path : {<<47>>, <<47, 63>>}, version : {Fill(8, 72)},
     headers : UpTo({<<<<65>>, <<>>>>, <<<<97>>, <<49>>>>, <<<<66>>, <<50>>>>}, 3)]
MCParts ==
    UpTo([name : {<<97>>}, filename : {<<>>, <<<<120>>>>}, content_type : {<<>>},
          data : {<<>>, <<13, 10, 45, 45, 65>>}], 2)
      \cup {<<[name |-> <<97, 59, 98>>, filename |-> <<>>,
               content_type |-> <<<<116>>>>, data |-> <<13, 10, 13, 10>>]>>}
MCLimits ==
    {[max_parts |-> 9, max_field_count |-> 9, max_part_bytes |-> 9, max_total_bytes |-> 20],
     [max_parts |-> 9, max_field_count |-> 1, max_part_bytes |-> 4, max_total_bytes |-> 9],
     [max_parts |-> 1, max_field_count |-> 9, max_part_bytes |-> 5, max_total_bytes |-> 4],
     [max_parts |-> 9, max_field_count |-> 0, max_part_bytes |-> 5, max_total_bytes |-> 9]}
MCInherited == {<<116>>}

MCAccepts == UpTo([name : {"gzip", "br", "*"}, q : {<<>>, <<0>>, <<5>>}], 3)
MCSupported == {<<"br", "gzip">>, <<"gzip">>, <<>>}
MCMedia == UpTo({65, 47, 59, 61, 34}, 4)
MCMediaParams ==
    UpTo([name : {<<65>>}, value : {<<97>>, <<34>>, <<92, 34>>}, quoted : {TRUE}]
           \cup [name : {<<98>>}, value : {<<97>>}, quoted : {FALSE}], 2)
MCDays == (-2..2) \cup (11014..11018) \cup (-25510..-25506)
            \cup (2932894..2932898) \cup {10000000}
MCBases == {<<97, 58, 47, 47, 97, 47, 98, 47, 99>>, <<97, 58, 47, 47, 97, 47, 98, 63, 99>>,
            <<97, 58, 47, 47, 97, 47>>}
MCRefs == UpTo({46, 47, 97, 63, 35}, 4) \cup [1..5 -> {46, 47, 97}] \cup {<<97, 58>>}
MCParams ==
    {<<>>, <<<<<<97>>, <<>>>>, <<<<98>>, <<195, 169>>>>>>}
      \cup {<<<<a, b>>>> : a \in {<<97>>, <<38>>}, b \in UpTo({61, 43, 37}, 2)}

---------------------------------------------------------------------------
(* Batches.                                                                *)

MCBatches == {<<>>, <<<<0, 2>>>>, <<<<2>>, <<>>>>, <<<<0>>, <<2>>, <<>>>>,
              <<<<2>>, <<2>>, <<0>>, <<2>>, <<2>>>>}
MCVerdict(x) == x # <<>> /\ x[1] = 2
MCNumber(x) == IF x = <<>> THEN -1 ELSE x[1]
MCMapped(x) == x \o x

---------------------------------------------------------------------------
(* JSON patches.                                                           *)

MCPatchDocuments ==
    {JNum(1), JArr(<<>>), JArr(<<JNum(1), JNum(2)>>),
     JObj(<<<<"a", JNum(1)>>, <<"b", JArr(<<JNum(1), JNum(2)>>)>>>>),
     JObj(<<<<"b", JArr(<<JObj(<<<<"a", JNum(2)>>>>), JNum(1)>>)>>>>)}
PPaths == {<<>>, <<"a">>, <<"b">>, <<"c">>, <<"0">>, <<"2">>, <<"-">>, <<"b", "0">>,
           <<"b", "01">>, <<"b", "2">>, <<"b", "3">>, <<"b", "-">>, <<"b", "0", "a">>, <<"a", "x">>}
POps ==
    [op : {"add", "replace", "test"}, path : PPaths, from : {<<>>},
     value : {JNum(1), JObj(<<<<"a", JNum(2)>>>>)}]
    \cup [op : {"remove", "bad"}, path : PPaths, from : {<<>>}, value : {JNum(1)}]
    \cup [op : {"move", "copy"}, path : PPaths, from : PPaths, value : {JNum(1)}]
MCPatches ==
    {<<>>} \cup {<<o>> : o \in POps}
    \cup {<<o, p>> : o \in {x \in POps : x.op = "copy" /\ x.path = <<"b">>},
                     p \in {x \in POps : x.op = "remove"}}
MCBatchPatches ==
    {<<o>> : o \in {x \in POps : x.op \in {"bad", "remove"} /\ x.path \in {<<"a">>, <<"b", "0">>}}}

---------------------------------------------------------------------------
(* Metrics.                                                                *)

MFamily(k, n, l, b) == [kind |-> k, name |-> n, labels |-> l, buckets |-> b]
MEntry(s, v, a, t) == [series |-> s, values |-> v, amount |-> a, set |-> t]
MCDeclarations ==
    <<MFamily("gauge", <<97>>, <<<<107>>, <<108>>>>, <<>>),
      MFamily("histogram", <<98>>, <<>>, <<3, 1, 3>>),
      MFamily("counter", <<97>>, <<>>, <<>>), MFamily("counter", <<49>>, <<>>, <<>>)>>
MCRecords ==
    <<<<MEntry(1, <<<<120>>, <<>>>>, 2, FALSE)>>, <<MEntry(1, <<<<120>>, <<>>>>, 5, TRUE)>>,
      <<MEntry(1, <<<<34>>, <<120>>>>, 1, FALSE), MEntry(2, <<>>, 3, FALSE),
        MEntry(2, <<>>, -1, FALSE)>>,
      <<MEntry(2, <<>>, 1, FALSE), MEntry(2, <<>>, 1, TRUE)>>, <<MEntry(2, <<>>, -1, FALSE)>>,
      <<MEntry(1, <<<<120>>>>, 99, FALSE)>>, <<MEntry(1, <<<<120, 31, 121>>>>, 4, FALSE)>>>>
MCDefaultBuckets == <<1>>
MCShardOf(key) == key[1]
MCLabelSets == <<[a |-> "x"], [a |-> "y"], [b |-> "x"]>>
MCUpperBounds == <<1, 2>>
=============================================================================
