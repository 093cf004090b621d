------------------------------- MODULE MCWire -------------------------------
EXTENDS Wire

CONSTANTS x, y, z

Types == INSTANCE RRLayout

MCRRType == DOMAIN Types!Packing
MCLayout == [t \in MCRRType |-> Types!Unpacked(t)]
MCPackLayout == Types!Packing
MCLenLayout  == [t \in MCRRType |-> Types!Counting[t]]
MCOptionLeast == [c \in DOMAIN Types!Options |-> Types!LeastOctets(c)]
MCOptionCode  == DOMAIN Types!Options
MCLabel == {x, y, z}

(* What a field may say: nothing, something, more than packs; of a bitmap   *)
(* the windows that are full, the one that len does not count, and two out  *)
(* of order; of options those that are not read and that do not pack.       *)
Values(kind) ==
  CASE kind \in {"name", "cname"} -> {<<x, y>>, <<>>}
    [] kind = "names"  -> {<<>>, << <<z>>, <<y>> >>}
    [] kind \in {"a", "aaaa"} -> {<<>>, <<0>>}
    [] kind \in DOMAIN Size \ {"a", "aaaa"} -> {<<>>}
    [] kind = "string" -> {<<0>>, <<2>>}
    [] kind = "octet"  -> {<<0>>, <<3>>, <<6>>}
    [] kind \in {"hex", "b64", "b32"} -> {<<0>>, <<3>>}
    [] kind = "txt"    -> {<<>>, <<0, 2>>, <<1, 4>>}
    [] kind = "opt"    -> {<<>>, << <<"LOCALDATA", 0, Sound>>, <<"UL", 4, Sound>> >>,
                           << <<"SUBNET", 6, Unread>>, <<"UL", 4, Sound>> >>,
                           << <<"UL", 4, Sound>>, <<"COOKIE", 0, Unfit>> >>} \cup
         UNION {{<< <<c, n, Sound>> >> : n \in Types!Options[c].sizes} :
                  c \in DOMAIN Types!Options}
    [] kind = "nsec"   -> {<<>>, <<1>>, <<16, 511>>, <<255, 511, 767>>,
                           <<8961>>, <<511, 16>>}

RECURSIVE Data(_)
Data(layout) ==
  IF layout = <<>> THEN {<<>>}
  ELSE {<<v>> \o d : v \in Values(Head(layout)), d \in Data(Tail(layout))}

RR(section, owner, type, data) ==
  [section |-> section, owner |-> owner, type |-> type, data |-> data]

(* A record of each type, with everything its fields may say. *)
OneRecord ==
  UNION {{[compress |-> c, tc |-> FALSE, question |-> << <<x, y>> >>,
           records |-> <<RR(2, <<x, y>>, t, d)>>] :
            c \in BOOLEAN, d \in Data(MCPackLayout[t])} : t \in MCRRType}

(* Records in every section, and names that point into names that point     *)
(* into names.                                                              *)
Sections ==
  {[compress |-> c, tc |-> t, question |-> q,
    records |-> <<RR(2, <<z, y>>, "MX", << <<>>, <<x, z, y>> >>),
                  RR(3, <<y>>, "NS", << <<z, y>> >>),
                  RR(4, <<x, z, y>>, "A", << <<0>> >>)>>] :
     c \in BOOLEAN, t \in BOOLEAN, q \in {<<>>, << <<y>> >>, << <<>> >>}}

Nested ==
  {[compress |-> TRUE, tc |-> FALSE, question |-> << <<y>> >>,
    records |-> <<RR(2, <<z, y>>, "CNAME", << <<x, z, y>> >>),
                  RR(2, o, "A", << <<0>> >>)>>] :
     o \in {<<x, z, y>>, <<z, x, z, y>>}}

(* A bitmap that takes more than was counted, and a record behind it.       *)
Uncounted ==
  {[compress |-> FALSE, tc |-> FALSE, question |-> <<>>,
    records |-> <<RR(2, <<x>>, "NSEC", << <<y>>, types >>),
                  RR(2, <<y>>, "NS", << <<x, y>> >>)>>] :
     types \in {<<8961>>, <<9016>>}}

(* The same, and options behind it. *)
LocalData(n) == <<"LOCALDATA", n, Sound>>

UncountedOptions ==
  {[compress |-> FALSE, tc |-> FALSE, question |-> <<>>,
    records |-> <<RR(2, <<x>>, "NSEC", << <<y>>, <<8961>> >>),
                  RR(4, <<>>, "OPT", <<options>>)>>] :
     options \in {<<LocalData(n)>> : n \in 0..4}
                 \cup {<<LocalData(m), LocalData(n)>> : m, n \in 0..4}
                 \cup {<<LocalData(2), <<"COOKIE", 0, Unfit>> >>}}

(* More data than an rdlength can say. *)
TooLong ==
  {[compress |-> TRUE, tc |-> FALSE, question |-> <<>>,
    records |-> <<RR(2, <<x>>, "OPENPGPKEY", << <<111>> >>)>>]}

MCMessages == OneRecord \cup Sections \cup Nested \cup Uncounted
              \cup UncountedOptions \cup TooLong

MCBuffers == (12..42) \cup {512}

(* The tables of pack and unpack agree, for every type.                     *)
ASSUME MCLayoutsAgree == LayoutsAgree

(* And the messages are such that the reader may take them whole.           *)
ASSUME MCAcceptable == Acceptable
=============================================================================
