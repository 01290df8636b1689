----------------------------- MODULE MCArchives -----------------------------
(* Archives: two versions of a package, one with a package it depends on    *)
(* and its manifest wrapped, an archive without a manifest, a package with  *)
(* nothing to emit and an archive without packages.                         *)
EXTENDS Emission

Str        == Prim("TEXT", <<>>)
ListOf(t)  == Prim("LIST", <<t>>)
Maybe(t)   == Prim("OPTIONAL", <<t>>)
Cid(t)     == Prim("CONTRACT_ID", <<t>>)

Main  == <<"Main">>
Api   == <<"Token", "Api">>
Color == <<"Token", "Api", "Color">>
Asset == Con(Main, <<"Asset">>, <<>>)

Record(name, fields) ==
  [name |-> <<name>>, kind |-> "record", internal |-> FALSE, fields |-> fields]
Enum(name) ==
  [name |-> <<name>>, kind |-> "enum", internal |-> FALSE, fields |-> <<>>]

Transfer ==
  [name |-> <<"Transfer">>, arg |-> Con(Main, <<"TransferArgs">>, <<>>), returns |-> Cid(Asset)]
Archive == [name |-> <<"Archive">>, arg |-> Unit, returns |-> Unit]

EmptyModule ==
  [name |-> <<"Internal">>, templates |-> {},
   dataTypes |-> {[Record("helper", <<>>) EXCEPT !.internal = TRUE]}]
ColorModule ==
  [name |-> Color, dataTypes |-> {Enum("Color")}, templates |-> {}]
ApiModule ==
  [name |-> Api, templates |-> {},
   dataTypes |-> {Record("Holding", <<Cid(Asset), Prim("TEXTMAP", <<ListOf(Con(Color, <<"Color">>, <<>>))>>)>>),
                  [name |-> <<"Result">>, kind |-> "variant", internal |-> FALSE,
                   fields |-> <<Unit, Prim("NUMERIC", <<TypeNat>>)>>]}]
MainModule(fields) ==
  [name |-> Main, templates |-> {[name |-> <<"Asset">>, choices |-> {Transfer, Archive}]},
   dataTypes |-> {Record("Asset", fields), Record("TransferArgs", <<Prim("PARTY", <<>>)>>)}]

First ==
  [packageId |-> <<"demo-1">>, name |-> <<"demo">>,
   modules |-> <<MainModule(<<ListOf(Maybe(Con(Api, <<"Holding">>, <<>>)))>>),
                 ApiModule, ColorModule, EmptyModule>>]
Second ==
  [packageId |-> <<"demo", "-2">>, name |-> <<"demo">>,
   modules |-> <<MainModule(<<Con(<<"DA", "Types">>, <<"Tuple2">>,
                                  <<Maybe(Str), Con(Color, <<"Color">>, <<>>)>>)>>),
                 ColorModule>>]
Nothing ==
  [packageId |-> <<"empty">>, name |-> <<>>, modules |-> <<EmptyModule>>]
Library ==
  [packageId |-> <<"lib">>, name |-> <<>>,
   modules |-> <<[name |-> <<"DA", "Types">>, templates |-> {},
                  dataTypes |-> {Record("Tuple2", <<[kind |-> "interned"], Var("b")>>)}]>>]

Line(text) == [continues |-> FALSE, text |-> text]
Cont(text) == [continues |-> TRUE, text |-> text]

SmallDars ==
  {[manifest |-> <<Line(<<"Main-Dalf", "demo-1">>)>>, dalfs |-> <<Library, First>>,
    main |-> <<"demo-1">>],
   [manifest |-> <<Line(<<"Manifest-Version", "1">>), Line(<<"Main-Dalf", "demo">>), Cont(<<"-2">>)>>,
    dalfs |-> <<Library, Second>>, main |-> <<"demo", "-2">>],
   [manifest |-> <<>>, dalfs |-> <<Library, First>>, main |-> <<"lib">>],
   [manifest |-> <<Line(<<"Main-Dalf", "empty">>)>>, dalfs |-> <<Nothing>>, main |-> <<"empty">>],
   [manifest |-> <<>>, dalfs |-> <<>>, main |-> <<>>]}

(* A package with a record that holds a map.                                *)
MapDars ==
  {[manifest |-> <<>>, main |-> <<"maps">>,
    dalfs |-> <<[packageId |-> <<"maps">>, name |-> <<>>,
                 modules |-> <<MainModule(<<Prim("GENMAP", <<Str, Str>>)>>)>>]>>]}
=============================================================================
