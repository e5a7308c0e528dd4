----------------------------- MODULE MCDiscovery -----------------------------
(* Three words, two of them found; zones that answer plainly, with a catch-all  *)
(* under the domain, under a word, or under a name only a virtual host brings.  *)
EXTENDS Discovery

MCPlace(n) ==
  LET rank(l) == CASE l = "a" -> 1 [] l = "b" -> 2 [] l = "c" -> 3
  IN  IF n = <<>> THEN 0 ELSE IF Len(n) = 1 THEN rank(n[1]) * 10 ELSE rank(n[1]) * 10 + rank(n[2])

MCChunks == <<{"a", "b"}, {"c"}>>

\* alterx makes "c" of any one-label name, and a name too many.
MCPerms(S) == IF \E n \in S : Len(n) = 1 THEN {<<"c">>, <<"c", "a">>} ELSE {}

Real(f) == [n \in Name |-> IF n \in DOMAIN f THEN f[n] ELSE {}]
Wild(f) == [n \in Name |-> IF n \in DOMAIN f THEN f[n] ELSE {}]

Plain == [real |-> Real(<<>> :> {"i"} @@ <<"a">> :> {"i"} @@ <<"b">> :> {"i"}
                          @@ <<"a", "b">> :> {"i"} @@ <<"b", "a">> :> {"i"}),
          wild |-> Wild(<<>>), vhosts |-> {}, listen |-> {}]
UnderApex == [real |-> Real(<<>> :> {"i"} @@ <<"a">> :> {"i"}), wild |-> Wild(<<>> :> {"w"}),
              vhosts |-> {}, listen |-> {"i"}]
UnderWord == [real |-> Real(<<>> :> {"i"} @@ <<"a">> :> {"i"} @@ <<"b">> :> {"i"}),
              wild |-> Wild(<<"a">> :> {"w"}), vhosts |-> {}, listen |-> {}]
UnderVhost == [real |-> Real(<<>> :> {"i"}), wild |-> Wild(<<"c">> :> {"w"}),
               vhosts |-> {<<"c">>}, listen |-> {"i"}]

\* The domain and all below it, less one name that is served.
MCIncludes == {[base |-> <<>>, wild |-> TRUE]}
MCExcludes == {[base |-> <<"b", "a">>, wild |-> FALSE]}

MCFindable == {<<"c">>}

MCZones == {Plain, UnderApex, UnderWord, UnderVhost}
=============================================================================
