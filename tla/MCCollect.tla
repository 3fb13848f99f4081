----------------------------- MODULE MCCollect -----------------------------
(* Instances of Collect for TLC: two keys, a registry point and its        *)
(* implementation.                                                         *)
EXTENDS Collect

Changed(keys, shown, addresses) ==
  [keys |-> keys, shown |-> shown, redacted |-> FALSE, ips |-> addresses]
Plain(keys, addresses) == Changed(keys, keys, addresses)
Secret(keys) == [keys |-> keys, shown |-> keys, redacted |-> TRUE, ips |-> << >>]

Both == {"a", "b"}

Chain == [c \in {"impl", "point"} |-> {c, "point"}]

\* A larger number overrides a smaller one only at the same datasource.
Plugins == {<<"point", "a", 1>>, <<"point", "a", 2>>, <<"point", "b", 2>>, <<"impl", "a", 2>>}

\* Lines with one key, both and none; a redacted line below the others; an address
\* twice in a line, and one from the range of the replacements.  Obfuscation brings
\* "a" into a line of the first and takes "b" from one of the second.
Contents ==
  { <<Plain({"a"}, <<1>>), Plain(Both, <<2, 1, 2>>), Changed({"b"}, Both, <<0>>)>>,
    <<Plain({"a"}, <<1, 10>>), Changed(Both, {"a"}, <<2>>), Plain(Both, <<1>>), Secret(Both)>>,
    <<Plain({}, <<1>>), Secret({"a"})>> }
=============================================================================
