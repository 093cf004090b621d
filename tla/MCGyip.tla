------------------------------- MODULE MCGyip -------------------------------
EXTENDS Gyip

Addresses == {"a", "foreign", "0.0.0.0", "::"}
Mine      == Addresses \ {"foreign"}
Names     == {"host", "all"}
Answered  == [n \in Names |-> {<<>>, IF n = "host" THEN <<"a">> ELSE <<"a", "::">>}]
Valids    == {"gyip.io.", "gyip.net."}

Texts   == Addresses \cup Names \cup Valids \cup {"", "bad"}
Entries == Addresses \cup Names \cup {""}
Lists   == {<<a>> : a \in Entries} \cup {<<a, b>> : a \in Addresses, b \in Entries}
                            \cup {<<"", "host">>, <<"all", "0.0.0.0">>,
                                  <<"a", "0.0.0.0", "a">>}

Domains == {<<"">>, <<"", "bad">>, <<"gyip.io.", "bad", "gyip.net.">>}
=============================================================================
