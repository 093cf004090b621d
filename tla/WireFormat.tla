----------------------------- MODULE WireFormat -----------------------------
(***************************************************************************)
(* What a message in wire format is made of, for the modules that write    *)
(* one (Pack) and read one (Unpack): not the octets, but the items that    *)
(* stand among them, each from one offset to another.                      *)
(***************************************************************************)
EXTENDS Integers, Sequences

CONSTANTS RRType,      \* the types of records
          OptionCode,  \* the options of an OPT record
          Label,       \* the labels of names
          MaxString    \* the longest string of octets, 255 in the code

(* Fields of a fixed length. *)
Size == [u8 |-> 1, u16 |-> 2, u32 |-> 4, u48 |-> 6, u64 |-> 8,
         a |-> 4, aaaa |-> 16]

ItemKind ==
  {"header", "question", "record", "fixed", "name", "label", "pointer", "root",
   "string", "txt", "octet", "nsec", "opt", "hex", "b64", "b32"} \cup DOMAIN Size

(* What becomes of an option: it is read as it was written; or it is        *)
(* written, but nothing that is read (a SUBNET with a scope beyond its      *)
(* family); or its end is missing; or there are no octets for it (a SUBNET  *)
(* with an address that is none, a COOKIE that is no hex).                  *)
Sound  == 0
Unread == 1
Torn   == 2
Unfit  == 3

(* That something stands at "at" and ends before "end"; of a header its     *)
(* counts, of a name or a label the labels, of a record its type and its   *)
(* rdlength, of an option its code and its fate, of a pointer its target,   *)
(* of a name the pointers it takes to read it.                              *)
Item == {w \in [at : Nat, end : Nat, kind : ItemKind, counts : Seq(Nat),
                labels : Seq(Label), num : Nat,
                type : RRType \cup OptionCode \cup {"none"}] :
           /\ w.at <= w.end
           /\ w.kind \in {"label", "string", "txt", "nsec", "opt"}
                => w.at < w.end
           /\ w.kind = "header" => Len(w.counts) = 4
           /\ w.kind = "fixed" => w.type \in RRType
           /\ w.kind = "opt" => w.type \in OptionCode}

Plain(at, end, kind) == [at |-> at, end |-> end, kind |-> kind,
                         counts |-> <<>>, labels |-> <<>>, num |-> 0,
                         type |-> "none"]

Least(a, b) == IF a < b THEN a ELSE b
=============================================================================
