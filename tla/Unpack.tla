------------------------------- MODULE Unpack -------------------------------
(***************************************************************************)
(* Msg.Unpack of the DNS library on one message, down to the fields of its *)
(* records and the labels of its names.  Of the octets only this is        *)
(* modelled: how many there are, and what of them is known, as a set of    *)
(* items that each stand from one offset to another.  Where nothing is     *)
(* known an octet is any octet, so that a length is any length and a name  *)
(* any name: the message of a client that may have sent anything.          *)
(***************************************************************************)
EXTENDS WireFormat

CONSTANTS
  Layout,       \* what the data of each type consists of (module RRLayout)
  OptionLeast,  \* the fewest octets that each option is read from
  Count,        \* the counts that a header may give
  Rdlength,     \* the lengths that a record may give
  MaxLabel,     \* the longest label, 63 in the code
  MaxName,      \* the longest name, 255 in the code
  MaxPointers   \* pointers followed in one name, 10 in the code

(* Fields that give their length, themselves or in a field before them: the *)
(* fewest and the most octets of one, or of one piece of one.               *)
Span == [string |-> <<1, MaxString + 1>>, txt |-> <<1, MaxString + 1>>,
         nsec |-> <<3, 34>>, opt |-> <<4, 65539>>,
         hexN |-> <<0, 65535>>, b64N |-> <<0, 65535>>, b32N |-> <<0, 65535>>]

Counted  == {"hexN", "b64N", "b32N"}   \* their length is in another field
Remnant  == {"hex", "b64"}             \* they go to the end of the record
Repeated == {"txt", "nsec", "opt", "names"}  \* they are read piece by piece
Named    == {"name", "names"}
Kind     == DOMAIN Size \cup DOMAIN Span \cup Remnant \cup Named \cup {"octet"}

(* The same field, as the packer writes it. *)
Written(k) == CASE k = "hexN" -> "hex" [] k = "b64N" -> "b64"
                [] k = "b32N" -> "b32" [] k = "names" -> "name" [] OTHER -> k

ASSUME UnpackAssumption ==
  /\ Layout \in [RRType -> Seq(Kind)]
  /\ OptionLeast \in [OptionCode -> Nat]
  /\ Count \subseteq Nat /\ Rdlength \subseteq Nat
  /\ {MaxString, MaxLabel, MaxName, MaxPointers} \subseteq Nat

VARIABLES
  received,     \* len(msg)
  content,      \* what is known of msg
  tc,           \* the TC bit of its header
  up,           \* where Unpack stands
  off,          \* off of the function at work
  lim,          \* len(msg) there: a record is read from msg cut at its end
  end,          \* where the record's rdlength says it ends
  todo,         \* the fields the record has left
  counts,       \* left to read, of the sections that are left
  purpose,      \* whose name UnpackDomainName reads
  pos, off1,    \* its off and off1
  ptr,          \* its ptr
  octets,       \* octets of the name so far, up to MaxName
  heard,        \* its labels, where they are known
  asked, taken, \* questions and records unpacked
  result        \* "none", "accepted" or "refused"

message    == <<received, content, tc>>
record     == <<lim, end, todo>>
name       == <<purpose, pos, off1, ptr, octets, heard>>
progress   == <<counts, asked, taken>>
unpackVars == <<message, up, off, record, name, progress, result>>

UnpackInit ==
  /\ received = 0 /\ content = {} /\ tc = FALSE
  /\ up = "idle" /\ off = 0
  /\ lim = 0 /\ end = 0 /\ todo = <<>>
  /\ counts = <<>> /\ asked = 0 /\ taken = 0
  /\ purpose = "none" /\ pos = 0 /\ off1 = 0 /\ ptr = 0 /\ octets = 0
  /\ heard = <<>>
  /\ result = "none"

(* The server hands over what it read. *)
Deliver(size, items, truncated) ==
  /\ up = "idle" /\ up' = "header"
  /\ received' = size /\ content' = items /\ tc' = truncated
  /\ lim' = size
  /\ UNCHANGED <<off, end, todo, name, progress, result>>

Stop(outcome) ==
  /\ up' = "done" /\ result' = outcome
  /\ UNCHANGED <<message, off, record, name, progress>>

Found(o, kinds) == {w \in content : w.at = o /\ w.kind \in kinds}

-----------------------------------------------------------------------------
(* The header of the message.  Without octets behind it it is ErrTruncated. *)

Counts == IF Found(0, {"header"}) # {}
          THEN {w.counts : w \in Found(0, {"header"})}
          ELSE [1..4 -> Count]

HeaderRefused == up = "header" /\ received <= 12 /\ Stop("refused")

Header ==
  /\ up = "header" /\ received > 12
  /\ counts' \in Counts
  /\ off' = 12 /\ up' = "next"
  /\ UNCHANGED <<message, record, name, asked, taken, result>>

-----------------------------------------------------------------------------
(* What comes next: a question, a record of one of three sections, the end. *)

Questions == Len(counts) = 4

(* unpackRRslice: "If offset does not increase anymore, l is a lie". *)
SectionEnds ==
  /\ up = "next" /\ counts # <<>>
  /\ Head(counts) = 0 \/ (~Questions /\ off = received)
  /\ counts' = Tail(counts)
  /\ UNCHANGED <<message, up, off, record, name, asked, taken, result>>

StartName(who) ==
  /\ up' = "name" /\ purpose' = who /\ pos' = off
  /\ UNCHANGED <<message, off, record, off1, ptr, octets, heard, progress,
                 result>>

NextItem ==
  /\ up = "next" /\ counts # <<>> /\ Head(counts) # 0
  /\ Questions \/ off # received
  /\ StartName(IF Questions THEN "question" ELSE "fixed")

(* Octets after the last section are no error, TC after it is one. *)
Finish ==
  /\ up = "next" /\ counts = <<>>
  /\ Stop(IF off = received /\ tc THEN "refused" ELSE "accepted")

-----------------------------------------------------------------------------
(* UnpackDomainName. *)

NameItems == {"label", "pointer", "root"}
Blank(p)  == Found(p, NameItems) = {}

LabelEnds(p) == IF Blank(p) THEN (p + 2)..(p + 1 + MaxLabel)
                ELSE {w.end : w \in Found(p, {"label"})}
Targets(p)   == IF Blank(p) THEN 0..lim
                ELSE {w.num : w \in Found(p, {"pointer"})}
Root(p)      == Blank(p) \/ Found(p, {"root"}) # {}

NameLabel ==
  /\ up = "name" /\ pos < lim
  /\ \E e \in LabelEnds(pos) :
       /\ e <= lim
       /\ pos' = e /\ octets' = Least(octets + e - pos, MaxName)
  /\ heard' = IF Blank(pos) THEN heard
              ELSE heard \o (CHOOSE w \in Found(pos, {"label"}) : TRUE).labels
  /\ UNCHANGED <<message, up, off, record, purpose, off1, ptr, progress,
                 result>>

(* Mutants: off1 is that of the last pointer; only the first one counts. *)
NamePointerLast ==
  /\ up = "name" /\ pos + 2 <= lim /\ ptr < MaxPointers
  /\ pos' \in Targets(pos) /\ off1' = pos + 2 /\ ptr' = ptr + 1
  /\ UNCHANGED <<message, up, off, record, purpose, octets, heard, progress,
                 result>>

NamePointerUncounted ==
  /\ up = "name" /\ pos + 2 <= lim
  /\ pos' \in Targets(pos)
  /\ IF ptr = 0 THEN off1' = pos + 2 /\ ptr' = 1 ELSE UNCHANGED <<off1, ptr>>
  /\ UNCHANGED <<message, up, off, record, purpose, octets, heard, progress,
                 result>>

(* "pointers are only allowed to jump backward.  We let them jump anywhere  *)
(* and stop jumping after a while."                                         *)
NamePointer ==
  /\ up = "name" /\ pos + 2 <= lim /\ ptr < MaxPointers
  /\ pos' \in Targets(pos)
  /\ off1' = IF ptr = 0 THEN pos + 2 ELSE off1
  /\ ptr' = ptr + 1
  /\ UNCHANGED <<message, up, off, record, purpose, octets, heard, progress,
                 result>>

(* What is left of the fields once Head(todo) has been read up to e.  The   *)
(* code returns at the end of the record, but not after a counted field.    *)
Rest(e) ==
  IF e = lim /\ Head(todo) \notin Counted THEN <<>>
  ELSE IF Head(todo) \in Repeated THEN todo
  ELSE Tail(todo)

NameEnd == IF ptr = 0 THEN pos + 1 ELSE off1

NameEnds ==
  /\ up = "name" /\ pos < lim /\ Root(pos) /\ octets < MaxName
  /\ off' = NameEnd
  /\ up' = purpose
  /\ todo' = IF purpose = "field" THEN Rest(NameEnd) ELSE todo
  /\ purpose' = "none" /\ pos' = 0 /\ off1' = 0 /\ ptr' = 0 /\ octets' = 0
  /\ heard' = <<>>
  /\ UNCHANGED <<message, lim, end, progress, result>>

(* Its errors; where nothing is known, an octet may have a reserved bit. *)
NameRefused ==
  /\ up = "name"
  /\ \/ pos >= lim
     \/ Blank(pos)
     \/ \E e \in LabelEnds(pos) : e > lim
     \/ Targets(pos) # {} /\ (pos + 2 > lim \/ ptr = MaxPointers)
     \/ Root(pos) /\ octets = MaxName
  /\ Stop("refused")

-----------------------------------------------------------------------------
(* unpackQuestion: the message may end before the type or the class, and    *)
(* one octet of class is swallowed with its error.                          *)

QuestionRefused == up = "question" /\ off + 1 = received /\ Stop("refused")

Question ==
  /\ up = "question" /\ off + 1 # received
  /\ off' = Least(off + 4, received)
  /\ asked' = asked + 1
  /\ counts' = [counts EXCEPT ![1] = @ - 1]
  /\ up' = "next"
  /\ UNCHANGED <<message, record, name, taken, result>>

-----------------------------------------------------------------------------
(* UnpackRR, unpackHeader and the generated function of the type. *)

FixedRefused == up = "fixed" /\ off + 10 > received /\ Stop("refused")

Claims == IF Found(off, {"fixed"}) # {}
          THEN {<<w.type, w.num>> : w \in Found(off, {"fixed"})}
          ELSE RRType \X Rdlength

(* Mutant: the record is not cut at the end of the message. *)
FixedUncut ==
  /\ up = "fixed" /\ off + 10 <= received
  /\ \E claim \in Claims :
       /\ end' = off + 10 + claim[2] /\ lim' = off + 10 + claim[2]
       /\ todo' = IF claim[2] = 0 THEN <<>> ELSE Layout[claim[1]]
  /\ off' = off + 10
  /\ up' = "field"
  /\ UNCHANGED <<message, name, progress, result>>

(* truncateMsgFromRdlength; its error is overwritten by the return. *)
Fixed ==
  /\ up = "fixed" /\ off + 10 <= received
  /\ \E claim \in Claims :
       /\ end' = off + 10 + claim[2]
       /\ lim' = Least(off + 10 + claim[2], received)
       /\ todo' = IF claim[2] = 0 THEN <<>> ELSE Layout[claim[1]]
  /\ off' = off + 10
  /\ up' = "field"
  /\ UNCHANGED <<message, name, progress, result>>

AtField(kinds) == up = "field" /\ todo # <<>> /\ Head(todo) \in kinds

(* Where the field, or its next piece, may end. *)
FieldEnds(k) ==
  IF k \in DOMAIN Size THEN {off + Size[k]}
  ELSE IF k \in Remnant THEN {end}
  ELSE IF k = "octet" THEN {lim}
  ELSE IF Found(off, {Written(k)}) # {}
       THEN {w.end : w \in Found(off, {Written(k)})}
  ELSE {e \in (off + Span[k][1])..(lim + Span[k][1] + 1) :
          e <= off + Span[k][2]}

(* No piece is read where the record is at its end, but of opt. *)
NoPiece == lim = off /\ Head(todo) \in Repeated \ {"opt"}

(* unpackDataOpt and the unpack functions of the options: the length that   *)
(* it gives may be more than there is, its octets too few, or a netmask,    *)
(* scope or family none.                                                    *)
Legible ==
  \A w \in Found(off, {"opt"}) :
    w.num = Sound /\ w.end - w.at >= 4 + OptionLeast[w.type]

Field ==
  /\ AtField(Kind \ Named) /\ ~NoPiece
  /\ Head(todo) = "opt" => Legible
  /\ \E e \in FieldEnds(Head(todo)) :
       e <= lim /\ off' = e /\ todo' = Rest(e)
  /\ UNCHANGED <<message, up, lim, end, name, progress, result>>

FieldSkipped ==
  /\ AtField(Repeated) /\ NoPiece
  /\ Head(todo) = "names" => end <= lim
  /\ todo' = Tail(todo)
  /\ UNCHANGED <<message, up, off, lim, end, name, progress, result>>

(* Beyond the end of the record or of the message; a bitmap that is out of  *)
(* order, an option that is none of its code.                               *)
FieldRefused ==
  /\ AtField(Kind)
  /\ \/ /\ Head(todo) \notin Named /\ ~NoPiece
        /\ \/ \E e \in FieldEnds(Head(todo)) : e > lim
           \/ Head(todo) \in {"nsec", "opt"} /\ Found(off, {Head(todo)}) = {}
           \/ Head(todo) = "opt" /\ ~Legible
     \/ Head(todo) = "names" /\ end > lim
  /\ Stop("refused")

FieldName ==
  /\ AtField(Named) /\ ~NoPiece
  /\ Head(todo) = "names" => end <= lim
  /\ StartName("field")

RecordRefused ==    \* "bad rdlength"
  up = "field" /\ todo = <<>> /\ off # end /\ Stop("refused")

(* Mutant: an rdlength that is larger than what was read will do. *)
RecordShort ==
  /\ up = "field" /\ todo = <<>> /\ off <= end
  /\ taken' = taken + 1
  /\ counts' = [counts EXCEPT ![1] = @ - 1]
  /\ lim' = received /\ up' = "next"
  /\ UNCHANGED <<message, off, end, todo, name, asked, result>>

Record ==
  /\ up = "field" /\ todo = <<>> /\ off = end
  /\ taken' = taken + 1
  /\ counts' = [counts EXCEPT ![1] = @ - 1]
  /\ lim' = received
  /\ up' = "next"
  /\ UNCHANGED <<message, off, end, todo, name, asked, result>>

-----------------------------------------------------------------------------
UnpackName  == NameLabel \/ NamePointer \/ NameEnds \/ NameRefused
UnpackField == Field \/ FieldSkipped \/ FieldRefused \/ FieldName
UnpackNext ==
  \/ HeaderRefused \/ Header \/ SectionEnds \/ NextItem \/ Finish
  \/ UnpackName
  \/ QuestionRefused \/ Question
  \/ FixedRefused \/ Fixed
  \/ UnpackField
  \/ RecordRefused \/ Record

(* Unpack on its own, on any message. *)
UnpackStep ==
  \/ UnpackNext
  \/ \E n \in Nat, items \in SUBSET Item, truncated \in BOOLEAN :
       Deliver(n, items, truncated)
UnpackSpec == UnpackInit /\ [][UnpackStep]_unpackVars

-----------------------------------------------------------------------------
UnpackTypeOK ==
  /\ received \in Nat /\ content \subseteq Item /\ tc \in BOOLEAN
  /\ up \in {"idle", "header", "next", "name", "question", "fixed", "field",
             "done"}
  /\ off \in Nat /\ lim \in Nat /\ end \in Nat
  /\ pos \in Nat /\ off1 \in Nat /\ ptr \in Nat /\ octets \in Nat
  /\ asked \in Nat /\ taken \in Nat
  /\ todo \in Seq(Kind) /\ counts \in Seq(Nat) /\ heard \in Seq(Label)
  /\ purpose \in {"none", "question", "fixed", "field"}
  /\ result \in {"none", "accepted", "refused"}

(* No slice of the message is taken beyond its end, or backwards: while a   *)
(* record is read its end is no further than the message, and a field that  *)
(* reaches to the end of the record (msg[off:end], msg.go:592 and           *)
(* msg_helpers.go:321) starts before it, whatever the lengths in the        *)
(* message claim and wherever the pointers of a name have led.              *)
InBounds ==
  up \notin {"idle", "done"} =>
    /\ off <= lim /\ lim <= received
    /\ up = "field" /\ end <= lim => off <= end
    /\ ptr > 0 => off < off1 /\ off1 <= lim

(* The counts of the header ask for up to 262140 questions and records, but *)
(* those that are read, and the pointers followed, are bounded by the       *)
(* octets that came: a question takes at least one, a record eleven         *)
(* (msg.go:623 "l is a lie").  The memory set aside for them is not bounded *)
(* so: it is made for the counts (msg.go:615, 818).                         *)
WorkBounded ==
  up \notin {"idle", "header", "done"} =>
    /\ asked + 11 * taken <= off - 12
    /\ ptr <= MaxPointers

(* Unpack ends on every message: a step that is not its last advances in    *)
(* the order of the offset, the records, the sections, the fields and, in a *)
(* name, the pointers followed and then the offset there.  All of them are  *)
(* bounded.  Pointers that lead in a circle stop at the tenth.              *)
Rank == <<off, asked + taken, -Len(counts), -Len(todo),
          IF up = "name" THEN 1 ELSE 0, ptr, pos>>

Before(r, s) ==
  \E i \in 1..7 : r[i] < s[i] /\ \A j \in 1..(i - 1) : r[j] = s[j]

Progresses ==
  [][up # "idle" /\ up' # "done" => Before(Rank, Rank')]_unpackVars
=============================================================================
