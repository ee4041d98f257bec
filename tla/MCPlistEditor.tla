---------------------------- MODULE MCPlistEditor ---------------------------
(* Small instances of PlistEditor: numbers of 2 bits.                      *)
EXTENDS PlistEditor, TLC

Char == Number(2, TRUE)
Unsigned == Number(2, FALSE)

Inner == Record(<<"one", "two">>, [one |-> String, two |-> Maybe(Unsigned)])
Options_ == Record(<<"on", "blob">>,
                   [on |-> Maybe(Bool), blob |-> Pointer(Maybe(Object("NSData")))])

MCSchemas ==
  [outer |-> Record(<<"name", "contents">>, [name |-> String, contents |-> Vector(Inner)]),
   sizes |-> Record(<<"size", "options", "label">>,
                    [size |-> Char, options |-> Options_, label |-> Maybe(String)])]

(* Dictionaries with some of the keys.                                     *)
Some(choices) ==
  UNION {{NSDictionary(d) : d \in {e \in [keys -> UNION {choices[k] : k \in keys}] :
                                      \A k \in keys : e[k] \in choices[k]}}
           : keys \in SUBSET DOMAIN choices}

One == NSNumber(1)
S == NSString("s")
InnerPlists == Some([one |-> {S, One}, two |-> {NSNumber(5)}, three |-> {One}])

MCForeign ==
  [outer |->
     Some([name |-> {S},
           contents |-> {NSArray(<<d>>) : d \in InnerPlists} \cup {NSArray(<<>>), S},
           extra |-> {S}])
       \cup {NotAPlist, NSArray(<<S>>)},
   sizes |->
     Some([size |-> {NSNumber(2), S},
           options |-> Some([on |-> {NSNumber(2)}, blob |-> {NSObject("NSData"), S}, extra |-> {S}]),
           label |-> {S}])]

NoExtra(fields) == [fields |-> fields, extra |-> NoEntries]
InnerValue == NoExtra([one |-> "a", two |-> <<>>])
OptionsValues ==
  {NoExtra([on |-> <<1>>, blob |-> <<>>]), NoExtra([on |-> <<>>, blob |-> <<NSObject("NSData")>>])}

MCValues ==
  [outer |-> [name |-> {"a", "bad"},
              contents |-> {<<>>, <<InnerValue, InnerValue>>,
                            <<[InnerValue EXCEPT !.fields["one"] = "bad"]>>}],
   sizes |-> [size |-> {-2, 1}, options |-> OptionsValues, label |-> {<<>>, <<"a">>, <<"bad">>}]]

MCInitial ==
  [outer |-> {<<"a", <<InnerValue>>>>},
   sizes |-> {<<0, o, <<>>>> : o \in OptionsValues}]
=============================================================================
