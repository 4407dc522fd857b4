-------------------------- MODULE MCPayloadCompare --------------------------
(* Representations and places for PayloadCompare. *)
EXTENDS PayloadCompare, TLC

Word(name, w) == Value(name, "word", "", <<[word |-> w]>>)
Bytes(name, b) == Value(name, "bytes", "", <<[bytes |-> b]>>)
List(name, of, items) == Value(name, "list", of, items)
Words(s) == [i \in DOMAIN s |-> [word |-> s[i]]]
State(values) == [values |-> values]
Object(name, values) == Value(name, "state", "", <<State(values)>>)

Repr(types, interfaces, values, children) ==
  [uri |-> "/r", types |-> types, interfaces |-> interfaces, values |-> values,
   children |-> children, visible |-> {"prop", "repr"}]
Child(uri, values, children) == [Repr(<<"t">>, <<>>, values, children) EXCEPT !.uri = uri]

FirstValues == {Word("p", "x"), Word("p", "y")}

\* Nested lists of one number of elements have one shape.
SecondValues ==
  {Value("q", "null", "", <<>>), Word("q", "x"), List("q", "word", <<>>),
   List("q", "word", Words(<<"x", "y">>)), List("q", "word", Words(<<"y", "x">>)),
   List("q", "bytes", <<[bytes |-> <<"x">>]>>), List("q", "bytes", <<[bytes |-> <<"y">>]>>),
   List("q", "state", <<State(<<Word("p", "x")>>), State(<<>>), State(<<Word("p", "y")>>)>>)}
  \cup {List("q", "list", <<List("", "word", Words(<<"x", "y">>)),
                            List("", "word", Words(<<w, "y">>))>>) : w \in {"x", "y"}}
  \cup {List("q", "list", [i \in 1 .. 2 |-> List("", "list", [j \in 1 .. 3 |->
                             List("", "word", Words(<<w>>))])]) : w \in {"x", "y"}}
  \cup {Object("q", l) :
          l \in {<<>>, <<Word("p", "x"), Word("q", "x")>>, <<Word("q", "x"), Word("p", "x")>>}}

ValueLists ==
  {<<>>} \cup {<<v>> : v \in FirstValues \cup SecondValues}
  \cup {<<v, w>> : v \in FirstValues, w \in SecondValues}
  \cup {<<w, v>> : v \in FirstValues, w \in SecondValues}

Children ==
  LET a == Child("/a", <<>>, <<>>)  b == Child("/b", <<Word("p", "x")>>, <<>>)
      b2 == Child("/b", <<Word("p", "y")>>, <<>>)
      a2 == Child("/a", <<>>, <<b>>)
      nameless == Child(Null, <<Word("p", "x")>>, <<>>)
  IN {<<>>, <<a>>, <<b>>, <<a, b>>, <<b, a>>, <<a, b2>>, <<a2>>, <<a2, nameless>>}

\* No byte strings, at most one type and one interface.
PlainReprs == {Null} \cup
  {Repr(<<"t">>, <<>>, l, <<>>) : l \in ValueLists}
  \cup {Repr(t, i, <<Word("p", "x")>>, c) :
          t \in {<<>>, <<"t">>, <<"u">>}, i \in {<<>>, <<"f">>}, c \in Children}
  \cup {[Repr(<<"t">>, <<"f">>, <<Word("p", "x")>>, <<Child("/a", <<>>, <<>>)>>)
           EXCEPT !.visible = v] : v \in SUBSET {"prop", "repr"}}

\* A byte string, among other values.
ByteReprs ==
  {Repr(<<"t">>, <<>>, <<v, Bytes("b", b)>>, <<>>) :
     v \in FirstValues \cup SecondValues, b \in {<<"x">>, <<"y">>, <<"x", "y">>}}

MCHosts ==
  {[address |-> <<"a", ":", 1>>, type |-> "ipv4"], [address |-> <<"m">>, type |-> "bt"]}
=============================================================================
