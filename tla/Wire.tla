-------------------------------- MODULE Wire --------------------------------
(***************************************************************************)
(* A message on its way: packed by one end (Pack), cut to the buffer that  *)
(* the other one reads it into (udpSize, 512 octets, server.go:648), and   *)
(* unpacked there (Unpack).  Or a message that no library wrote, of which  *)
(* only the size is known.                                                 *)
(***************************************************************************)
EXTENDS Pack, Unpack

CONSTANTS Buffers,  \* sizes of the buffer that the reader may have
          Sizes     \* sizes of the messages of strangers

ASSUME WireAssumption == Buffers \subseteq Nat /\ Sizes \subseteq Nat

Init == PackInit /\ UnpackInit

Send ==
  /\ pk = "packed"
  /\ \E n \in {Least(at, b) : b \in Buffers} :
       Deliver(n, {w \in written : w.at < n \/ w.end <= n}, src.tc)
  /\ UNCHANGED packVars

Stranger ==
  /\ pk = "idle"
  /\ \E n \in Sizes, truncated \in BOOLEAN : Deliver(n, {}, truncated)
  /\ UNCHANGED packVars

Next == \/ up = "idle" /\ PackNext /\ UNCHANGED unpackVars
        \/ Send \/ Stranger
        \/ UnpackNext /\ UNCHANGED packVars

Spec == Init /\ [][Next]_<<packVars, unpackVars>>

-----------------------------------------------------------------------------
TypeOK ==
  /\ UnpackTypeOK
  /\ pk \in {"idle", "question", "rr", "field", "packed", "overflow",
             "panic", "refused"}
  /\ {room, at, rec, begin} \subseteq Nat
  /\ written \subseteq Item
  /\ DOMAIN compression \subseteq Seq(Label)

Known == content # {}

Fresh(kinds) == {w \in written : w.kind \in kinds}

(* The buffer, as long as the len functions count, holds what the pack      *)
(* functions write, "one more than needed" (msg.go:914), for every type and *)
(* with or without compression.  Only behind bitmaps it may be full, whose  *)
(* len takes 33 octets for a window that may take 34, and none for a first  *)
(* window 35 (types.go:782, 941): packing then fails, or it panics, or it   *)
(* leaves out the end of an option and says nothing (msg_helpers.go:478).   *)
Miscounted(rr) ==
  \E i \in 1..Len(rr.data) :
    /\ PackLayout[rr.type][i] = "nsec"
    /\ Sum(Pieces("nsec", rr.data[i])) > BitmapLen(rr.data[i])

PackFits ==
  pk \in {"overflow", "panic"} \/ (\E w \in Fresh({"opt"}) : w.num = Torn)
    => \E i \in 1..rec : Miscounted(src.records[i])

(* The pack functions and the unpack functions, generated apart, agree: the *)
(* fields of each type are the same, one by one; those that go to the end   *)
(* of the record or may be missing come last; and two that may be empty and *)
(* are read alike have one between them that never is.                      *)
ItemOf(kind) == IF kind \in {"cname", "names"} THEN "name" ELSE kind

Final  == Repeated \cup Remnant \cup {"octet", "a", "aaaa"}
Hollow == {"octet", "hex", "b64", "b32"}
Solid  == (DOMAIN Size \ {"a", "aaaa"}) \cup {"string", "name", "cname"}

LayoutsAgree ==
  \A t \in RRType :
    LET reads == Layout[t]  writes == PackLayout[t]  n == Len(writes)
    IN  /\ Len(reads) = n
        /\ \A i \in 1..n :
             /\ Written(reads[i]) = ItemOf(writes[i])
             /\ reads[i] = "names" <=> writes[i] = "names"
             /\ reads[i] \in Final => i = n
        /\ \A i, j \in 1..n :
             i < j /\ writes[i] = writes[j] /\ writes[i] \in Hollow =>
               \E k \in (i + 1)..(j - 1) : writes[k] \in Solid

(* The messages that the reader may take whole: no name is too long for it, *)
(* no sound option shorter than it is read, and behind a field that is counted    *)
(* elsewhere comes none that is read even where the record is at its end.   *)
(* The pack functions check none of this.                                   *)
Short(labels) == 2 * Len(labels) < MaxName

Bearable(kind, v) ==
  /\ kind \in {"name", "cname"} => Short(v)
  /\ kind = "names" => \A j \in 1..Len(v) : Short(v[j])
  /\ kind = "opt" => \A j \in 1..Len(v) :
       v[j][3] = Sound => v[j][2] >= OptionLeast[v[j][1]]

Acceptable ==
  /\ \A m \in Messages :
       /\ \A i \in 1..Len(m.question) : Short(m.question[i])
       /\ \A rr \in ToSet(m.records) :
            /\ Short(rr.owner)
            /\ \A i \in 1..Len(rr.data) : Bearable(PackLayout[rr.type][i], rr.data[i])
  /\ \A t \in RRType : \A i \in 1..Len(Layout[t]) - 1 :
       Layout[t][i] \in Counted => Layout[t][i + 1] \notin {"opt", "a", "aaaa"}

(* The reader takes every field for what the writer wrote there: of the     *)
(* same kind, at the same offset, ending where it ended, although the two   *)
(* are generated apart and the layout is on no wire.  And a name that has   *)
(* been read along its pointers has the labels that were written.           *)
ReadsWhatWasWritten ==
  Known /\ received = at =>
    /\ up = "field" /\ todo # <<>> /\ off < lim =>
         \E w \in content : w.at = off /\ w.kind = Written(Head(todo))
    /\ up = "name" /\ Found(pos, {"root"}) # {} =>
         \E w \in Found(off, {"name"}) : heard = w.labels

(* A message is accepted exactly if it was cut where a record ends, or in   *)
(* the last four octets of its question but not after the first, did not    *)
(* say that it was truncated, has no name that takes more than MaxPointers  *)
(* pointers (the writer has no such limit) and no option whose end is       *)
(* missing or that is written but not read (msg_helpers.go:487, edns.go:267 *)
(* and 276); and the records read are those that came whole.  So a message  *)
(* that was cut is refused or accepted by chance, but never read half.      *)
Boundaries == {w.end : w \in Fresh({"record"})}
              \cup UNION {{w.at, w.at + 2, w.at + 3, w.at + 4} :
                            w \in Fresh({"question"})}

TooDeep == \E w \in Fresh({"name"}) : w.num > MaxPointers /\ w.end <= received

Unsound == \E w \in Fresh({"opt"}) : w.num # Sound /\ w.end <= received

AcceptsPrefixes ==
  Known /\ up = "done" =>
    /\ result = "accepted" <=>
         received \in Boundaries /\ ~tc /\ ~TooDeep /\ ~Unsound
    /\ result = "accepted" =>
         /\ asked = Cardinality({w \in Fresh({"question"}) : w.at <= received})
         /\ taken = Cardinality({w \in Fresh({"record"}) : w.end <= received})
=============================================================================
