-------------------------------- MODULE Pack --------------------------------
(***************************************************************************)
(* Msg.Pack of the DNS library: a buffer is made as long as the len        *)
(* functions count, and the message is written into it, its names          *)
(* compressed on the way.  What a message says is a sequence per field:    *)
(* the labels of a name, the octets of each string, the code, octets and   *)
(* fate of each option, the largest type of each window of a bitmap, the   *)
(* octets that hex or base64 stands for.  A label is one octet, and texts have no *)
(* escapes: they would make len larger and change nothing in the message.  *)
(***************************************************************************)
EXTENDS WireFormat, SequencesExt, FiniteSetsExt

CONSTANTS
  PackLayout, LenLayout,  \* of module RRLayout
  Messages,               \* the messages that are packed
  MaxOffset,              \* maxCompressionOffset, 16384 in the code
  MaxRdlength,            \* 65535 in the code
  MaxText                 \* txtTmp, 1025 in the code

VARIABLES
  src,          \* the message
  pk,           \* where Pack stands
  room,         \* len(msg), the buffer
  at,           \* off
  rec,          \* the record to write, or the one being written
  begin,        \* off where it began
  fields,       \* the fields it has left, each its kind and its value
  compression,  \* the offsets of the names written so far
  written       \* the items in the buffer

packVars == <<src, pk, room, at, rec, begin, fields, compression, written>>

(* A fold with a recursive function, which can be proved about.             *)
Sum(s) ==
  LET sum[i \in 0 .. Len(s)] == IF i = 0 THEN 0 ELSE sum[i - 1] + s[i]
  IN  sum[Len(s)]

Option == {o \in OptionCode \X Nat \X {Sound, Unread, Unfit} :
             o[3] = Unfit => o[2] = 0}

(* What a field may say. *)
Says(kind) ==
  CASE kind \in {"name", "cname"} -> Seq(Label)
    [] kind = "names" -> Seq(Seq(Label))
    [] kind \in {"a", "aaaa"} -> {<<>>, <<0>>}
    [] kind \in DOMAIN Size \ {"a", "aaaa"} -> {<<>>}
    [] kind \in {"string", "octet", "hex", "b64", "b32"} ->
         {v \in Seq(Nat) : Len(v) = 1}
    [] kind \in {"txt", "nsec"} -> Seq(Nat)
    [] kind = "opt" -> Seq(Option)

PackKind == DOMAIN Size \cup
  {"name", "cname", "names", "string", "txt", "octet", "hex", "b64", "b32",
   "nsec", "opt"}

(* The field that a len function counts for one that a pack function writes: *)
(* names that may be compressed are not counted as such.                     *)
CountedAs(kind) == IF kind = "cname" THEN "name" ELSE kind

(* The functions are generated from the same declarations; one question is *)
(* packed at most, and a record is in one of the three slices of Msg and    *)
(* says of each field what that may say.                                    *)
ASSUME PackAssumption ==
  /\ PackLayout \in [RRType -> Seq(PackKind)]
  /\ LenLayout = [t \in RRType |->
                    [i \in DOMAIN PackLayout[t] |-> CountedAs(PackLayout[t][i])]]
  /\ {MaxOffset, MaxRdlength, MaxString, MaxText} \subseteq Nat
  /\ \A m \in Messages :
       /\ m.question \in Seq(Seq(Label)) /\ Len(m.question) <= 1
       /\ m.compress \in BOOLEAN /\ m.tc \in BOOLEAN
       /\ m.records \in Seq(ToSet(m.records))
       /\ \A rr \in ToSet(m.records) :
            /\ rr.section \in 2..4
            /\ rr.owner \in Seq(Label) /\ rr.type \in RRType
            /\ Len(rr.data) = Len(PackLayout[rr.type])
            /\ \A i \in 1..Len(rr.data) : rr.data[i] \in Says(PackLayout[rr.type][i])

-----------------------------------------------------------------------------
(* The len functions. *)

(* Mutant: the dot of the root is not counted. *)
NameLenDotless(labels) == 2 * Len(labels)

(* len(s)+1, where s is "." or has a dot behind each label. *)
NameLen(labels) == IF labels = <<>> THEN 2 ELSE 2 * Len(labels) + 1

Window(type) == type \div 256

(* NSEC and NSEC3: one and 32 octets for a window, when it is not the one   *)
(* before.  2^32+1 is 35, so that a first window of 35 counts nothing.      *)
BitmapLen(types) ==
  33 * Cardinality({i \in 1..Len(types) :
         Window(types[i]) # IF i = 1 THEN 35 ELSE Window(types[i - 1])})

FieldLen(kind, v) ==
  CASE kind \in DOMAIN Size -> Size[kind]
    [] kind = "name"   -> NameLen(v)
    [] kind = "names"  -> Sum([i \in 1..Len(v) |-> NameLen(v[i])])
    [] kind \in {"string", "txt"} -> Sum(v) + Len(v)
    [] kind = "octet"  -> v[1]
    [] kind = "opt"    -> Sum([i \in 1..Len(v) |-> v[i][2] + 4])
    [] kind = "hex"    -> v[1] + 1
    [] kind = "b64"    -> 3 * ((v[1] + 2) \div 3)        \* DecodedLen
    [] kind = "b32"    -> 8 * ((v[1] + 4) \div 5) + 1    \* of the text
    [] kind = "nsec"   -> BitmapLen(v)

RRLen(rr) ==
  NameLen(rr.owner) + 10
    + Sum([i \in 1..Len(rr.data) |->
             FieldLen(LenLayout[rr.type][i], rr.data[i])])

(* compressedLen(dns, false): "We always return one more than needed." *)
MsgLen(m) ==
  12 + Sum([i \in 1..Len(m.question) |-> NameLen(m.question[i]) + 4])
     + Sum([i \in 1..Len(m.records) |-> RRLen(m.records[i])])

-----------------------------------------------------------------------------
PackInit ==
  /\ src = <<>>
  /\ pk = "idle" /\ room = 0 /\ at = 0
  /\ rec = 0 /\ begin = 0 /\ fields = <<>>
  /\ compression = [s \in {} |-> 0]
  /\ written = {}

(* A section is 2, 3 or 4: the answer, the authority, the additional one.   *)
SectionCounts(m) ==
  <<Len(m.question)>> \o
  [s \in 1..3 |-> Cardinality({i \in 1..Len(m.records) :
                                 m.records[i].section = s + 1})]

(* PackBuffer's beginning, and Header.pack. *)
PackHeader ==
  /\ pk = "idle"
  /\ \E m \in Messages :
       /\ src' = m /\ room' = MsgLen(m) + 1
       /\ at' = 12 /\ pk' = IF m.question = <<>> THEN "rr" ELSE "question"
       /\ written' = {[Plain(0, 12, "header")
                         EXCEPT !.counts = SectionCounts(m)]}
  /\ UNCHANGED <<rec, begin, fields, compression>>

(* packDomainName on labels at offset o: each is written, and its suffix    *)
(* looked up; the first one that is known is replaced by a pointer.  The    *)
(* terminating zero is not checked against the buffer, but that of ".".     *)
Suffix(labels, i) == SubSeq(labels, i, Len(labels))

Pointed(labels, compress) ==
  Min({Len(labels) + 1} \cup
      {i \in 1..Len(labels) :
         compress /\ Suffix(labels, i) \in DOMAIN compression})

Depth(target) ==    \* of the name that a pointer leads into
  Max({w.num : w \in {n \in written :
         n.kind = "name" /\ n.at <= target /\ target < n.end}})

NameEndsAt(labels, o, compress) ==
  LET p == Pointed(labels, compress)
  IN  o + 2 * (p - 1) + IF p <= Len(labels) THEN 2 ELSE 1

NameFits(labels, o, compress) ==
  IF labels = <<>> \/ Pointed(labels, compress) <= Len(labels)
  THEN NameEndsAt(labels, o, compress) <= room
  ELSE NameEndsAt(labels, o, compress) <= room + 1

NameWritten(labels, o, compress) ==
  LET p    == Pointed(labels, compress)
      last == o + 2 * (p - 1)
      hit  == p <= Len(labels)
      to   == compression[Suffix(labels, p)]
  IN  {[Plain(o + 2 * (i - 1), o + 2 * i, "label")
          EXCEPT !.labels = <<labels[i]>>] : i \in 1..(p - 1)}
      \cup {IF hit THEN [Plain(last, last + 2, "pointer") EXCEPT !.num = to]
                   ELSE Plain(last, last + 1, "root")}
      \cup {[Plain(o, NameEndsAt(labels, o, compress), "name")
               EXCEPT !.labels = labels,
                      !.num = IF hit THEN 1 + Depth(to) ELSE 0]}

(* Mutant: the offset that is remembered is the one behind the label.       *)
LearntBehind(labels, o, compress) ==
  LET names == {Suffix(labels, i) : i \in 1..(Pointed(labels, compress) - 1)}
  IN  [s \in DOMAIN compression \cup names |->
         IF s \in DOMAIN compression THEN compression[s]
         ELSE o + 2 * (Len(labels) - Len(s) + 1)]

(* Names that may not be compressed themselves can still be pointed to. *)
Learnt(labels, o, compress) ==
  LET new == {i \in 1..(Pointed(labels, compress) - 1) :
                /\ Suffix(labels, i) \notin DOMAIN compression
                /\ o + 2 * (i - 1) < MaxOffset}
      at_(s) == o + 2 * (Len(labels) - Len(s))
      names == {Suffix(labels, i) : i \in new}
  IN  [s \in DOMAIN compression \cup names |->
         IF s \in names THEN at_(s) ELSE compression[s]]

Overflow == pk' = "overflow" /\ UNCHANGED <<src, room, at, rec, begin, fields,
                                            compression, written>>

(* Question.pack, of a message with one question. *)
PackQuestion ==
  LET labels == src.question[1]
      e      == NameEndsAt(labels, at, src.compress)
  IN  /\ pk = "question"
      /\ IF NameFits(labels, at, src.compress) /\ e + 4 <= room
         THEN /\ at' = e + 4 /\ pk' = "rr"
              /\ written' = written
                   \cup NameWritten(labels, at, src.compress)
                   \cup {Plain(e, e + 4, "question")}
              /\ compression' = Learnt(labels, at, src.compress)
              /\ UNCHANGED <<src, room, rec, begin, fields>>
         ELSE Overflow

(* PackRR: RR_Header.pack, and then the fields. *)
Fields(rr) == FlattenSeq(
  [i \in 1..Len(rr.data) |->
     LET k == PackLayout[rr.type][i]
     IN  IF k = "names"
         THEN [j \in 1..Len(rr.data[i]) |-> <<"name", rr.data[i][j]>>]
         ELSE << <<k, rr.data[i]>> >>])

PackOwner ==
  LET rr == src.records[rec + 1]
      e  == NameEndsAt(rr.owner, at, src.compress)
  IN  /\ pk = "rr" /\ rec < Len(src.records)
      /\ IF NameFits(rr.owner, at, src.compress) /\ e + 10 <= room
         THEN /\ at' = e + 10 /\ begin' = at /\ rec' = rec + 1 /\ pk' = "field"
              /\ fields' = Fields(rr)
              /\ written' = written \cup NameWritten(rr.owner, at, src.compress)
              /\ compression' = Learnt(rr.owner, at, src.compress)
              /\ UNCHANGED <<src, room>>
         ELSE Overflow

AtKind(kinds) == pk = "field" /\ fields # <<>> /\ Head(fields)[1] \in kinds

PackName ==
  LET labels   == Head(fields)[2]
      compress == src.compress /\ Head(fields)[1] = "cname"
  IN  /\ AtKind({"name", "cname"})
      /\ IF NameFits(labels, at, compress)
         THEN /\ at' = NameEndsAt(labels, at, compress)
              /\ fields' = Tail(fields)
              /\ written' = written \cup NameWritten(labels, at, compress)
              /\ compression' = Learnt(labels, at, compress)
              /\ UNCHANGED <<src, pk, room, rec, begin>>
         ELSE Overflow

(* The octets of each piece of a field.  An address may be empty, for       *)
(* dynamic updates.                                                         *)
Pieces(kind, v) ==
  CASE kind \in {"a", "aaaa"} -> [i \in 1..Len(v) |-> Size[kind]]
    [] kind \in DOMAIN Size \ {"a", "aaaa"} -> <<Size[kind]>>
    [] kind \in {"string", "txt"} -> [i \in 1..Len(v) |-> v[i] + 1]
    [] kind = "opt"  -> [i \in 1..Len(v) |-> v[i][2] + 4]
    [] kind = "nsec" -> [i \in 1..Len(v) |-> 2 + (v[i] % 256) \div 8 + 1]
    [] kind \in {"octet", "hex", "b64", "b32"} -> v

(* What has to be free, whether it is written or not. *)
Needed(kind, v) ==
  CASE kind \in {"a", "aaaa"} -> Size[kind]
    [] kind \in {"octet", "txt"} -> Max({1, Sum(Pieces(kind, v))})
    [] OTHER -> Sum(Pieces(kind, v))

(* packDataOpt copies as much of an option as there is room for, goes on    *)
(* from the end of the buffer, and has no error if that was the last one.   *)
Cut(kind, v) ==
  LET last == Len(v)
      free == room - (at + Sum(Pieces(kind, v))) + v[last][2]
  IN  IF kind = "opt" /\ v # <<>> /\ free \in 0..(v[last][2] - 1)
      THEN [v EXCEPT ![last] = <<@[1], free, Torn>>]
      ELSE v

(* It looks for three octets before it writes the four of code and length.  *)
Panics(kind, v) ==
  /\ kind = "opt"
  /\ \E i \in 1..Len(v) :
       /\ at + Sum(SubSeq(Pieces(kind, v), 1, i - 1)) + 3 = room
       /\ \A j \in 1..i : v[j][3] # Unfit

(* What does not go into a message however long it is.                      *)
Refuses(kind, v) ==
  \/ kind \in {"string", "txt"} /\ \E i \in 1..Len(v) : v[i] > MaxString
  \/ kind = "octet" /\ v[1] > MaxText
  \/ kind = "opt" /\ \E i \in 1..Len(v) : v[i][3] = Unfit
  \/ kind = "nsec" /\ \E i \in 2..Len(v) : Window(v[i]) < Window(v[i - 1])

AtData == pk = "field" /\ fields # <<>> /\ Head(fields)[1] \notin {"name", "cname"}

PackData ==
  LET kind   == Head(fields)[1]
      v      == Cut(kind, Head(fields)[2])
      pieces == Pieces(kind, v)
      to(i)  == at + Sum(SubSeq(pieces, 1, i))
  IN  /\ AtData
      /\ at + Needed(kind, v) <= room /\ ~Refuses(kind, v)
      /\ at' = to(Len(pieces))
      /\ fields' = Tail(fields)
      /\ written' = written \cup
           {[Plain(to(i - 1), to(i), kind)
               EXCEPT !.type = IF kind = "opt" THEN v[i][1] ELSE @,
                      !.num = IF kind = "opt" THEN v[i][3] ELSE @] :
              i \in 1..Len(pieces)}
      /\ UNCHANGED <<src, pk, room, rec, begin, compression>>

PackDataFails ==
  LET kind == Head(fields)[1]
      v    == Cut(kind, Head(fields)[2])
      fits == at + Needed(kind, v) <= room
  IN  /\ AtData
      /\ ~fits \/ Refuses(kind, v)
      /\ pk' = IF fits THEN "refused"
               ELSE IF Panics(kind, v) THEN "panic" ELSE "overflow"
      /\ UNCHANGED <<src, room, at, rec, begin, fields, compression, written>>

(* Mutant: a pointer is not the end of a name. *)
OwnerEndPlain == begin + 2 * Len(src.records[rec].owner) + 1

(* rawSetRdlength finds the end of the owner again, and sets the rdlength.  *)
OwnerEnd == (CHOOSE w \in written : w.at = begin /\ w.kind = "name").end

PackRdlength ==
  /\ pk = "field" /\ fields = <<>>
  /\ at - (OwnerEnd + 10) <= MaxRdlength
  /\ written' = written \cup
       {[Plain(OwnerEnd, OwnerEnd + 10, "fixed")
           EXCEPT !.num = at - (OwnerEnd + 10),
                  !.type = src.records[rec].type],
        Plain(begin, at, "record")}
  /\ pk' = "rr"
  /\ UNCHANGED <<src, room, at, rec, begin, fields, compression>>

RdlengthRefused ==
  /\ pk = "field" /\ fields = <<>>
  /\ at - (OwnerEnd + 10) > MaxRdlength
  /\ pk' = "refused"
  /\ UNCHANGED <<src, room, at, rec, begin, fields, compression, written>>

Packed ==
  /\ pk = "rr" /\ rec = Len(src.records)
  /\ pk' = "packed"
  /\ UNCHANGED <<src, room, at, rec, begin, fields, compression, written>>

PackNext == \/ PackHeader \/ PackQuestion \/ PackOwner
            \/ PackName \/ PackData \/ PackDataFails
            \/ PackRdlength \/ RdlengthRefused \/ Packed
=============================================================================
