------------------------------ MODULE MCResolve ------------------------------
(***************************************************************************)
(* Parts, served lists and messages for TLC.  Kinds of part stand for all  *)
(* the texts of the kind; "ourgyip" ends in "gyip" without being a         *)
(* subdomain of it, and leaves "ou" when it is cut off like one; "axdev"   *)
(* ends in "dev" and leaves one character.                                 *)
(***************************************************************************)
EXTENDS Resolve

Parts == {"gyip", "GYIP", "io", "org", "dev", "ourgyip", "ou", "axdev",
          "web", "x", "a:bcd", "::", "10.0.0.1", "10.0.0.2", "2001:db8::1", "rr",
          "f50", "f0", "echo", "ECHO"}

LowerCase == [p \in Parts |-> CASE p = "GYIP" -> "gyip"
                                [] p = "ECHO" -> "echo"
                                [] OTHER -> p]

Meaning == [p \in Parts |->
             CASE p = "x" -> "short"
               [] p = "a:bcd" -> "colon"
               [] p = "::" -> "bare"
               [] p \in {"10.0.0.1", "10.0.0.2"} -> "v4"
               [] p = "2001:db8::1" -> "v6"
               [] p = "rr" -> "rr"
               [] p \in {"f50", "f0"} -> "fail"
               [] p \in {"echo", "ECHO"} -> "echo"
               [] OTHER -> "word"]

FailPercent == [p \in {"f50", "f0"} |-> IF p = "f50" THEN 50 ELSE 0]

EndsIn     == {<<"ourgyip", "gyip">>, <<"axdev", "dev">>}
WithoutEnd == [e \in EndsIn |-> IF e[2] = "gyip" THEN "ou" ELSE "x"]

gyip    == <<"gyip", "io">>
dev     == <<"dev", "gyip", "io">>
ourgyip == <<"ourgyip", "io">>

PlainLists  == {<<gyip>>, <<dev, gyip>>, <<ourgyip, gyip>>}
HidingLists == {<<gyip, dev>>, <<gyip, ourgyip>>}
UpperLists  == {<<<<"GYIP", "io">>>>, <<<<"GYIP", "io">>, dev>>}

(* Domains with a part that can be taken for a command or an address. *)
TellingLists == {<<<<"echo">> \o gyip, gyip>>, <<<<"rr">> \o gyip, gyip>>,
                 <<<<"10.0.0.1">> \o gyip, gyip>>}

(* dev and ourgyip before and after the domain they end in; an upper-case one *)
AllLists == PlainLists \cup HidingLists \cup UpperLists \cup TellingLists

Heads == BoundedSeq(Parts \ {"gyip", "GYIP", "io", "org", "ourgyip", "ou"}, 2)
              \cup SeqOf({"10.0.0.1", "10.0.0.2", "2001:db8::1", "rr", "f50"}, 3)

Endings == {gyip, <<"GYIP", "io">>, ourgyip, <<"gyip", "org">>}

AllNames == {p \o e : p \in Heads, e \in Endings}

Questions == [name : AllNames, type : Types]

(* Two address questions in a message. *)
PairRequests ==
  LET qs == {[name |-> <<p>> \o gyip, type |-> "A"] : p \in {"10.0.0.1", "10.0.0.2", "web"}}
  IN  [questions : {<<q, r>> : q, r \in qs}, from : {"10.0.0.2"}]

(* A client of each address family; messages of no, one and two questions. *)
AllRequests == [questions : {<<>>} \cup {<<q>> : q \in Questions},
                from : {"10.0.0.2", "2001:db8::1"}] \cup PairRequests
=============================================================================
