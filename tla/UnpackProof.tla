----------------------------- MODULE UnpackProof -----------------------------
(***************************************************************************)
(* Proofs about reading a message: of any length, with anything in it, any *)
(* layout of the types, and any limits.                                    *)
(***************************************************************************)
EXTENDS Unpack, SequenceTheorems, TLAPS

(* A record is being read: one of its fields, or the name in one.          *)
InRecord == up = "field" \/ (up = "name" /\ purpose = "field")
Reading  == up \notin {"idle", "header", "done"}

(* The octets of what is being read that have been read for certain: those *)
(* of the header, one of a name, ten of the fixed part of a record.        *)
Spent == IF InRecord THEN 23 ELSE IF up \in {"question", "fixed"} THEN 13 ELSE 12

Limits ==
  /\ up \in {"idle", "header"} => off = 0 /\ asked = 0 /\ taken = 0
  /\ up \notin {"idle", "done"} => off <= lim /\ lim <= received
  /\ up \notin {"idle", "done"} /\ ~InRecord => lim = received
  /\ InRecord => lim <= end
Work ==
  Reading => asked + 11 * taken + Spent <= off
Sections ==
  up \in {"name", "question", "fixed", "field"} => counts # <<>> /\ Head(counts) > 0
Place ==
  /\ up \notin {"name", "done"} => ptr = 0
  /\ up = "name" =>
       /\ purpose # "none"
       /\ purpose = "field" => todo # <<>>
       /\ ptr <= MaxPointers
       /\ ptr = 0 => off <= pos
       /\ ptr > 0 => off < off1 /\ off1 <= lim

IInv == UnpackTypeOK /\ Limits /\ Work /\ Sections /\ Place

-----------------------------------------------------------------------------
LEMMA SequenceShape == \A S, n, f : n \in Nat /\ f \in [1 .. n -> S] => f \in Seq(S)
  OBVIOUS

(* A count that has been worked off by one.                                *)
LEMMA CountDown ==
  ASSUME NEW s \in Seq(Nat), s # <<>>, Head(s) > 0
  PROVE  [s EXCEPT ![1] = @ - 1] \in Seq(Nat)
<1>1. 1 \in 1 .. Len(s) /\ s[1] - 1 \in Nat
  OBVIOUS
<1> QED
  BY <1>1, ExceptSeq

LEMMA TailFacts ==
  ASSUME NEW S, NEW s \in Seq(S), s # <<>>
  PROVE  /\ Tail(s) \in Seq(S) /\ Head(s) \in S
         /\ Len(Tail(s)) = Len(s) - 1 /\ Len(s) \in Nat
  OBVIOUS

LEMMA LayoutRead ==
  /\ Layout \in [RRType -> Seq(Kind)]
  /\ MaxString \in Nat /\ MaxLabel \in Nat /\ MaxName \in Nat /\ MaxPointers \in Nat
  /\ Count \subseteq Nat /\ Rdlength \subseteq Nat
  BY UnpackAssumption

(* What is left of the fields is less, but after a piece of a repeated one. *)
LEMMA RestFacts ==
  ASSUME todo \in Seq(Kind), todo # <<>>, NEW e
  PROVE  /\ Rest(e) \in Seq(Kind)
         /\ Head(todo) \notin Repeated => Len(Rest(e)) < Len(todo)
         /\ Len(Rest(e)) \in Nat /\ Len(todo) \in Nat
<1>1. Tail(todo) \in Seq(Kind) /\ Len(Tail(todo)) = Len(todo) - 1 /\ Len(todo) \in Nat
  BY TailFacts
<1>2. Len(todo) > 0
  BY <1>1, EmptySeq
<1>3. <<>> \in Seq(Kind) /\ Len(<<>>) = 0
  OBVIOUS
<1> QED
  BY <1>1, <1>2, <1>3 DEF Rest

LEMMA ItemFacts ==
  ASSUME content \subseteq Item, NEW o, NEW kinds, NEW w \in Found(o, kinds)
  PROVE  /\ w.at = o /\ w.kind \in kinds
         /\ w.at \in Nat /\ w.end \in Nat /\ w.num \in Nat /\ w.at <= w.end
         /\ w.counts \in Seq(Nat) /\ w.labels \in Seq(Label)
         /\ w.kind \in {"label", "string", "txt", "nsec", "opt"} => w.at < w.end
         /\ w.kind = "header" => Len(w.counts) = 4
         /\ w.kind = "fixed" => w.type \in RRType
  BY DEF Found, Item

-----------------------------------------------------------------------------
LEMMA Initially == UnpackInit => IInv
<1> SUFFICES ASSUME UnpackInit
             PROVE  IInv
  OBVIOUS
<1>1. UnpackTypeOK
  BY EmptySeq DEF UnpackInit, UnpackTypeOK
<1>2. Limits /\ Work /\ Sections /\ Place
  BY DEF UnpackInit, Limits, Work, Sections, Place, InRecord, Reading
<1> QED
  BY <1>1, <1>2 DEF IInv

LEMMA DeliverKeeps ==
  ASSUME IInv, NEW n \in Nat, NEW items \in SUBSET Item, NEW t \in BOOLEAN, Deliver(n, items, t)
  PROVE  IInv'
<1>1. UnpackTypeOK'
  BY DEF IInv, Deliver, UnpackTypeOK, name, progress
<1>2. Limits'
  <2>1. /\ off' = 0 /\ asked' = 0 /\ taken' = 0
        /\ lim' = n /\ received' = n /\ up' = "header"
    BY DEF IInv, Deliver, Limits, progress
  <2> QED
    BY <2>1 DEF Limits, InRecord
<1>3. Work' /\ Sections' /\ Place'
  BY DEF IInv, Deliver, UnpackTypeOK, Work, Sections, Place, InRecord, Reading, name, progress
<1> QED
  BY <1>1, <1>2, <1>3 DEF IInv

LEMMA StopKeeps ==
  ASSUME IInv, NEW r \in {"accepted", "refused"}, Stop(r)
  PROVE  IInv'
  BY DEF IInv, Stop, UnpackTypeOK, Limits, Work, Sections, Place, InRecord, Reading, message,
         record, name, progress

LEMMA HeaderKeeps ==
  ASSUME IInv, Header
  PROVE  IInv' /\ Before(Rank, Rank')
<1> USE DEF IInv
<1>1. counts' \in Seq(Nat)
  <2>1. CASE Found(0, {"header"}) # {}
    <3>1. PICK w \in Found(0, {"header"}) : counts' = w.counts
      BY <2>1 DEF Header, Counts
    <3> QED
      BY <3>1, ItemFacts DEF UnpackTypeOK
  <2>2. CASE Found(0, {"header"}) = {}
    <3>1. counts' \in [1 .. 4 -> Nat]
      BY <2>2, LayoutRead DEF Header, Counts
    <3>2. 4 \in Nat
      OBVIOUS
    <3> QED
      BY <3>1, <3>2, SequenceShape
  <2> QED
    BY <2>1, <2>2
<1>2. UnpackTypeOK'
  BY <1>1 DEF Header, UnpackTypeOK, message, record, name
<1>3. Limits' /\ Work' /\ Sections' /\ Place'
  <2>1. /\ up' = "next" /\ off' = 12 /\ lim' = received' /\ 12 < received'
        /\ asked' = 0 /\ taken' = 0 /\ ptr' = 0
    BY DEF Header, UnpackTypeOK, Limits, Place, InRecord, message, record, name
  <2>2. received' \in Nat
    BY <1>2 DEF UnpackTypeOK
  <2>3. Limits'
    BY <2>1, <2>2 DEF Limits, InRecord
  <2>4. Work'
    BY <2>1 DEF Work, InRecord, Reading, Spent
  <2>5. Sections' /\ Place'
    BY <2>1 DEF Sections, Place
  <2> QED
    BY <2>3, <2>4, <2>5
<1>4. Rank[1] = 0 /\ Rank'[1] = 12
  BY DEF Header, Limits, Rank
<1> QED
  BY <1>2, <1>3, <1>4 DEF Before

LEMMA SectionEndsKeeps ==
  ASSUME IInv, SectionEnds
  PROVE  IInv' /\ Before(Rank, Rank')
<1> USE DEF IInv
<1>1. counts' \in Seq(Nat) /\ Len(counts') = Len(counts) - 1 /\ Len(counts) \in Nat
  BY TailFacts DEF SectionEnds, UnpackTypeOK
<1>2. UnpackTypeOK'
  BY <1>1 DEF SectionEnds, UnpackTypeOK, message, record, name
<1>3. Limits' /\ Work' /\ Sections' /\ Place'
  BY DEF SectionEnds, UnpackTypeOK, Limits, Work, Sections, Place, InRecord, Reading, Spent,
         message, record, name
<1>4. /\ Rank[1] = Rank'[1] /\ Rank[2] = Rank'[2] /\ Rank[3] = -Len(counts)
      /\ Rank'[3] = -Len(counts')
  BY DEF SectionEnds, Rank
<1>5. Rank[3] < Rank'[3]
  BY <1>1, <1>4
<1> QED
  BY <1>2, <1>3, <1>4, <1>5 DEF Before

LEMMA StartNameKeeps ==
  ASSUME IInv, NEW who \in {"question", "fixed", "field"}, StartName(who),
         counts # <<>>, Head(counts) > 0,
         \/ up = "next" /\ who # "field"
         \/ up = "field" /\ who = "field" /\ todo # <<>>
  PROVE  IInv' /\ Before(Rank, Rank')
<1> USE DEF IInv
<1>1. /\ up' = "name" /\ purpose' = who /\ pos' = off
      /\ received' = received /\ content' = content /\ tc' = tc /\ off' = off
      /\ lim' = lim /\ end' = end /\ todo' = todo /\ off1' = off1 /\ ptr' = ptr
      /\ octets' = octets /\ heard' = heard /\ counts' = counts
      /\ asked' = asked /\ taken' = taken /\ result' = result
  BY DEF StartName, message, record, progress
<1>2. UnpackTypeOK'
  BY <1>1 DEF UnpackTypeOK
<1>3. Limits'
  BY <1>1 DEF Limits, InRecord
<1>4. Work'
  BY <1>1 DEF Work, InRecord, Reading, Spent
<1>5. ptr = 0
  BY DEF Place
<1>6. Sections'
  BY <1>1 DEF Sections
<1>7. Place'
  <2>1. off' = pos' /\ ptr' = 0 /\ 0 <= MaxPointers /\ off \in Nat
    BY <1>1, <1>5, LayoutRead DEF UnpackTypeOK
  <2>2. purpose' # "none" /\ (purpose' = "field" => todo' # <<>>)
    BY <1>1
  <2> QED
    BY <1>1, <2>1, <2>2 DEF Place
<1>8. /\ \A j \in 1 .. 4 : Rank[j] = Rank'[j]
      /\ Rank[5] = 0 /\ Rank'[5] = 1
  BY <1>1 DEF Rank
<1> QED
  BY <1>2, <1>3, <1>4, <1>6, <1>7, <1>8 DEF Before

LEMMA NameLabelKeeps ==
  ASSUME IInv, NameLabel
  PROVE  IInv' /\ Before(Rank, Rank')
<1> USE DEF IInv
<1>1. PICK e \in LabelEnds(pos) :
        e <= lim /\ pos' = e /\ octets' = Least(octets + e - pos, MaxName)
  BY DEF NameLabel
<1>2. /\ up = "name" /\ up' = "name" /\ purpose' = purpose
      /\ received' = received /\ content' = content /\ tc' = tc /\ off' = off
      /\ lim' = lim /\ end' = end /\ todo' = todo /\ off1' = off1 /\ ptr' = ptr
      /\ counts' = counts /\ asked' = asked /\ taken' = taken /\ result' = result
      /\ heard' = IF Blank(pos) THEN heard
                  ELSE heard \o (CHOOSE w \in Found(pos, {"label"}) : TRUE).labels
  BY DEF NameLabel, message, record, progress
<1>3. e \in Nat /\ pos < e
  <2>1. CASE Blank(pos)
    BY <1>1, <2>1, LayoutRead DEF LabelEnds, UnpackTypeOK
  <2>2. CASE ~Blank(pos)
    <3>1. PICK w \in Found(pos, {"label"}) : e = w.end
      BY <1>1, <2>2 DEF LabelEnds
    <3>2. w.kind = "label" /\ w.at = pos /\ w.end \in Nat /\ w.at < w.end
      <4>1. content \subseteq Item
        BY DEF UnpackTypeOK
      <4> QED
        BY <4>1, ItemFacts
    <3> QED
      BY <3>1, <3>2
  <2> QED
    BY <2>1, <2>2
<1>4. octets' \in Nat
  BY <1>1, <1>3, LayoutRead DEF UnpackTypeOK, Least
<1>5. heard' \in Seq(Label)
  <2>1. CASE Blank(pos)
    BY <1>2, <2>1 DEF UnpackTypeOK
  <2>2. CASE ~Blank(pos)
    <3>1. Found(pos, {"label"}) # {}
      BY <1>1, <2>2 DEF LabelEnds
    <3>2. PICK w \in Found(pos, {"label"}) : heard' = heard \o w.labels
      BY <1>2, <2>2, <3>1
    <3>3. w.labels \in Seq(Label) /\ heard \in Seq(Label)
      BY ItemFacts DEF UnpackTypeOK
    <3> QED
      BY <3>2, <3>3, ConcatProperties
  <2> QED
    BY <2>1, <2>2
<1>6. UnpackTypeOK'
  BY <1>1, <1>2, <1>3, <1>4, <1>5 DEF UnpackTypeOK
<1>7. Limits'
  BY <1>2 DEF Limits, InRecord
<1>8. Work'
  BY <1>2 DEF Work, InRecord, Reading, Spent
<1>9. Sections'
  BY <1>2 DEF Sections
<1>11. Place'
  <2>1. ptr' = 0 => off' <= pos'
    BY <1>1, <1>2, <1>3 DEF Place, UnpackTypeOK
  <2> QED
    BY <1>2, <2>1 DEF Place
<1>10. /\ \A j \in 1 .. 6 : Rank[j] = Rank'[j]
       /\ Rank[7] = pos /\ Rank'[7] = e
  BY <1>1, <1>2 DEF Rank
<1> QED
  BY <1>3, <1>6, <1>7, <1>8, <1>9, <1>10, <1>11 DEF Before

LEMMA NamePointerKeeps ==
  ASSUME IInv, NamePointer
  PROVE  IInv' /\ Before(Rank, Rank')
<1> USE DEF IInv
<1>1. /\ up = "name" /\ up' = "name" /\ purpose' = purpose
      /\ pos + 2 <= lim /\ ptr < MaxPointers /\ pos' \in Targets(pos)
      /\ off1' = IF ptr = 0 THEN pos + 2 ELSE off1
      /\ ptr' = ptr + 1
      /\ received' = received /\ content' = content /\ tc' = tc /\ off' = off
      /\ lim' = lim /\ end' = end /\ todo' = todo
      /\ octets' = octets /\ heard' = heard /\ counts' = counts
      /\ asked' = asked /\ taken' = taken /\ result' = result
  BY DEF NamePointer, message, record, progress
<1>2. pos' \in Nat
  <2>1. CASE Blank(pos)
    BY <1>1, <2>1 DEF Targets, UnpackTypeOK
  <2>2. CASE ~Blank(pos)
    <3>1. PICK w \in Found(pos, {"pointer"}) : pos' = w.num
      BY <1>1, <2>2 DEF Targets
    <3> QED
      BY <3>1, ItemFacts DEF UnpackTypeOK
  <2> QED
    BY <2>1, <2>2
<1>3. UnpackTypeOK'
  BY <1>1, <1>2 DEF UnpackTypeOK
<1>4. Limits'
  BY <1>1 DEF Limits, InRecord
<1>5. Work'
  BY <1>1 DEF Work, InRecord, Reading, Spent
<1>6. Sections'
  BY <1>1 DEF Sections
<1>8. Place'
  <2>1. ptr' <= MaxPointers /\ ptr' # 0
    BY <1>1, LayoutRead DEF UnpackTypeOK
  <2>2. off' < off1' /\ off1' <= lim'
    BY <1>1 DEF Place, UnpackTypeOK
  <2> QED
    BY <1>1, <2>1, <2>2 DEF Place
<1>7. /\ \A j \in 1 .. 5 : Rank[j] = Rank'[j]
      /\ Rank[6] = ptr /\ Rank'[6] = ptr + 1 /\ ptr \in Nat
  BY <1>1 DEF Rank, UnpackTypeOK
<1> QED
  BY <1>3, <1>4, <1>5, <1>6, <1>7, <1>8 DEF Before

LEMMA NameEndsKeeps ==
  ASSUME IInv, NameEnds
  PROVE  IInv' /\ Before(Rank, Rank')
<1> USE DEF IInv
<1>1. /\ up = "name" /\ up' = purpose /\ off' = NameEnd /\ pos < lim
      /\ todo' = IF purpose = "field" THEN Rest(NameEnd) ELSE todo
      /\ purpose' = "none" /\ pos' = 0 /\ off1' = 0 /\ ptr' = 0 /\ octets' = 0
      /\ heard' = <<>>
      /\ received' = received /\ content' = content /\ tc' = tc
      /\ lim' = lim /\ end' = end /\ counts' = counts
      /\ asked' = asked /\ taken' = taken /\ result' = result
  BY DEF NameEnds, message, progress
<1>2. off' \in Nat /\ off < off' /\ off' <= lim
  <2>1. CASE ptr = 0
    BY <1>1, <2>1 DEF NameEnd, Place, UnpackTypeOK
  <2>2. CASE ptr # 0
    <3>1. ptr > 0
      BY <2>2 DEF UnpackTypeOK
    <3> QED
      BY <1>1, <2>2, <3>1 DEF NameEnd, Place, UnpackTypeOK
  <2> QED
    BY <2>1, <2>2
<1>3. purpose \in {"question", "fixed", "field"}
  BY <1>1 DEF Place, UnpackTypeOK
<1>4. todo' \in Seq(Kind)
  BY <1>1, RestFacts DEF Place, UnpackTypeOK
<1>5. UnpackTypeOK'
  BY <1>1, <1>2, <1>3, <1>4, EmptySeq DEF UnpackTypeOK
<1>6. Limits'
  BY <1>1, <1>2, <1>3 DEF Limits, InRecord, UnpackTypeOK
<1>7. Work'
  <2>1. asked + 11 * taken + Spent + 1 <= off'
    BY <1>1, <1>2, <1>3 DEF Work, InRecord, Reading, Spent, UnpackTypeOK
  <2>2. Spent' = IF purpose = "field" THEN 23 ELSE 13
    BY <1>1, <1>3 DEF InRecord, Spent
  <2>3. Spent = IF purpose = "field" THEN 23 ELSE 12
    BY <1>1, <1>3 DEF InRecord, Spent
  <2>4. asked' + 11 * taken' + Spent' <= off'
    BY <1>1, <1>2, <2>1, <2>2, <2>3 DEF UnpackTypeOK
  <2> QED
    BY <2>4 DEF Work
<1>8. Sections' /\ Place'
  BY <1>1, <1>3 DEF Sections, Place
<1>9. Rank[1] = off /\ Rank'[1] = off'
  BY DEF Rank
<1> QED
  BY <1>2, <1>5, <1>6, <1>7, <1>8, <1>9 DEF Before

LEMMA QuestionKeeps ==
  ASSUME IInv, Question
  PROVE  IInv' /\ Before(Rank, Rank')
<1> USE DEF IInv
<1>1. /\ up = "question" /\ up' = "next" /\ off + 1 # received
      /\ off' = Least(off + 4, received) /\ asked' = asked + 1
      /\ counts' = [counts EXCEPT ![1] = @ - 1]
      /\ received' = received /\ content' = content /\ tc' = tc
      /\ lim' = lim /\ end' = end /\ todo' = todo /\ purpose' = purpose
      /\ pos' = pos /\ off1' = off1 /\ ptr' = ptr
      /\ octets' = octets /\ heard' = heard /\ taken' = taken /\ result' = result
  BY DEF Question, message, record, name
<1>2. lim = received /\ off <= received /\ off \in Nat /\ received \in Nat
  BY <1>1 DEF Limits, InRecord, UnpackTypeOK
<1>3. off' \in Nat /\ off <= off' /\ off' <= received
  BY <1>1, <1>2 DEF Least
<1>4. counts' \in Seq(Nat)
  BY <1>1, CountDown DEF Sections, UnpackTypeOK
<1>5. UnpackTypeOK'
  BY <1>1, <1>3, <1>4 DEF UnpackTypeOK
<1>6. Limits'
  BY <1>1, <1>2, <1>3 DEF Limits, InRecord
<1>7. Work'
  BY <1>1, <1>3 DEF Work, InRecord, Reading, Spent, UnpackTypeOK
<1>8. Sections' /\ Place'
  BY <1>1 DEF Sections, Place
<1>9. /\ Rank[1] = off /\ Rank'[1] = off'
      /\ Rank[2] = asked + taken /\ Rank'[2] = asked + 1 + taken
      /\ asked \in Nat /\ taken \in Nat
  BY <1>1 DEF Rank, UnpackTypeOK
<1>10. Before(Rank, Rank')
  <2>1. CASE off < off'
    BY <1>9, <2>1 DEF Before
  <2>2. CASE off = off'
    BY <1>9, <2>2 DEF Before
  <2> QED
    BY <1>2, <1>3, <2>1, <2>2
<1> QED
  BY <1>5, <1>6, <1>7, <1>8, <1>10

LEMMA FixedKeeps ==
  ASSUME IInv, Fixed
  PROVE  IInv' /\ Before(Rank, Rank')
<1> USE DEF IInv
<1>1. PICK claim \in Claims :
        /\ end' = off + 10 + claim[2]
        /\ lim' = Least(off + 10 + claim[2], received)
        /\ todo' = IF claim[2] = 0 THEN <<>> ELSE Layout[claim[1]]
  BY DEF Fixed
<1>2. /\ up = "fixed" /\ up' = "field" /\ off + 10 <= received
      /\ off' = off + 10
      /\ received' = received /\ content' = content /\ tc' = tc
      /\ purpose' = purpose /\ pos' = pos /\ off1' = off1 /\ ptr' = ptr
      /\ octets' = octets /\ heard' = heard /\ counts' = counts
      /\ asked' = asked /\ taken' = taken /\ result' = result
  BY DEF Fixed, message, name, progress
<1>3. claim[1] \in RRType /\ claim[2] \in Nat
  <2>1. CASE Found(off, {"fixed"}) # {}
    <3>1. PICK w \in Found(off, {"fixed"}) : claim = <<w.type, w.num>>
      BY <2>1 DEF Claims
    <3>2. w.kind = "fixed" /\ w.type \in RRType /\ w.num \in Nat
      <4>1. content \subseteq Item
        BY DEF UnpackTypeOK
      <4> QED
        BY <4>1, ItemFacts
    <3> QED
      BY <3>1, <3>2
  <2>2. CASE Found(off, {"fixed"}) = {}
    BY <2>2, LayoutRead DEF Claims
  <2> QED
    BY <2>1, <2>2
<1>4. todo' \in Seq(Kind)
  BY <1>1, <1>3, LayoutRead, EmptySeq
<1>5. /\ off \in Nat /\ received \in Nat /\ off' \in Nat /\ end' \in Nat /\ lim' \in Nat
      /\ off' <= lim' /\ lim' <= received /\ lim' <= end'
  BY <1>1, <1>2, <1>3 DEF Least, UnpackTypeOK
<1>6. UnpackTypeOK'
  BY <1>2, <1>4, <1>5 DEF UnpackTypeOK
<1>7. Limits'
  BY <1>2, <1>5 DEF Limits, InRecord
<1>8. Work'
  BY <1>2 DEF Work, InRecord, Reading, Spent, UnpackTypeOK
<1>9. Sections' /\ Place'
  BY <1>2 DEF Sections, Place
<1>10. Rank[1] = off /\ Rank'[1] = off + 10
  BY <1>2 DEF Rank
<1> QED
  BY <1>5, <1>6, <1>7, <1>8, <1>9, <1>10 DEF Before

-----------------------------------------------------------------------------
(* Fields: none ends before it starts, and a piece of a repeated one takes *)
(* at least one octet.                                                     *)
LEMMA KindFacts ==
  /\ DOMAIN Size = {"u8", "u16", "u32", "u48", "u64", "a", "aaaa"}
  /\ \A k \in DOMAIN Size : Size[k] \in Nat
  /\ DOMAIN Span = {"string", "txt", "nsec", "opt", "hexN", "b64N", "b32N"}
  /\ \A k \in DOMAIN Span : Span[k][1] \in Nat
  /\ \A k \in {"txt", "nsec", "opt"} : Span[k][1] > 0
<1>1. /\ DOMAIN Size = {"u8", "u16", "u32", "u48", "u64", "a", "aaaa"}
      /\ \A k \in DOMAIN Size : Size[k] \in Nat
  BY DEF Size
<1>2. DOMAIN Span = {"string", "txt", "nsec", "opt", "hexN", "b64N", "b32N"}
  BY DEF Span
<1>3. /\ Span["string"] = <<1, MaxString + 1>> /\ Span["txt"] = <<1, MaxString + 1>>
      /\ Span["nsec"] = <<3, 34>> /\ Span["opt"] = <<4, 65539>>
      /\ Span["hexN"] = <<0, 65535>> /\ Span["b64N"] = <<0, 65535>>
      /\ Span["b32N"] = <<0, 65535>>
  BY DEF Span
<1> QED
  BY <1>1, <1>2, <1>3

LEMMA FieldEndFacts ==
  ASSUME IInv, up = "field", NEW k \in Kind \ Named, NEW e \in FieldEnds(k)
  PROVE  /\ e \in Nat /\ off <= e
         /\ k \in Repeated => off < e
<1> USE DEF IInv
<1>1. off \in Nat /\ lim \in Nat /\ end \in Nat /\ off <= lim /\ lim <= end
  BY DEF UnpackTypeOK, Limits, InRecord
<1>2. Repeated = {"txt", "nsec", "opt", "names"} /\ Remnant = {"hex", "b64"}
  BY DEF Repeated, Remnant
<1>3. CASE k \in DOMAIN Size
  BY <1>1, <1>2, <1>3, KindFacts DEF FieldEnds
<1>4. CASE k \in Remnant
  <2>1. k \notin DOMAIN Size
    BY <1>2, <1>4, KindFacts
  <2> QED
    BY <1>1, <1>2, <1>4, <2>1 DEF FieldEnds
<1>5. CASE k = "octet"
  <2>1. k \notin DOMAIN Size
    BY <1>5, KindFacts
  <2> QED
    BY <1>1, <1>2, <1>5, <2>1 DEF FieldEnds
<1>6. CASE k \in DOMAIN Span
  <2>1. k \notin DOMAIN Size /\ k \notin Remnant /\ k # "octet"
    BY <1>2, <1>6, KindFacts
  <2>2. CASE Found(off, {Written(k)}) # {}
    <3>1. PICK w \in Found(off, {Written(k)}) : e = w.end
      BY <2>1, <2>2 DEF FieldEnds
    <3>2. content \subseteq Item
      BY DEF UnpackTypeOK
    <3>3. /\ w.at = off /\ w.kind = Written(k) /\ w.end \in Nat /\ w.at <= w.end
          /\ w.kind \in {"label", "string", "txt", "nsec", "opt"} => w.at < w.end
      BY <3>2, ItemFacts
    <3>4. k \in {"txt", "nsec", "opt"} => Written(k) = k
      BY DEF Written
    <3>5. k # "names"
      BY <1>6, KindFacts
    <3> QED
      BY <1>2, <3>1, <3>3, <3>4, <3>5
  <2>3. CASE Found(off, {Written(k)}) = {}
    <3>1. /\ e \in (off + Span[k][1]) .. (lim + Span[k][1] + 1)
          /\ Span[k][1] \in Nat
      BY <1>6, <2>1, <2>3, KindFacts DEF FieldEnds
    <3>2. k # "names"
      BY <1>6, KindFacts
    <3>3. k \in Repeated => Span[k][1] > 0
      BY <1>2, <3>2, KindFacts
    <3> QED
      BY <1>1, <3>1, <3>3
  <2> QED
    BY <2>2, <2>3
<1> QED
  BY <1>3, <1>4, <1>5, <1>6 DEF Kind, Named

LEMMA FieldKeeps ==
  ASSUME IInv, Field
  PROVE  IInv' /\ Before(Rank, Rank')
<1> USE DEF IInv
<1>1. PICK e \in FieldEnds(Head(todo)) : e <= lim /\ off' = e /\ todo' = Rest(e)
  BY DEF Field
<1>2. /\ up = "field" /\ up' = "field" /\ todo # <<>> /\ Head(todo) \in Kind \ Named
      /\ received' = received /\ content' = content /\ tc' = tc
      /\ lim' = lim /\ end' = end /\ purpose' = purpose
      /\ pos' = pos /\ off1' = off1 /\ ptr' = ptr
      /\ octets' = octets /\ heard' = heard /\ counts' = counts
      /\ asked' = asked /\ taken' = taken /\ result' = result
  BY DEF Field, AtField, message, name, progress
<1>3. e \in Nat /\ off <= e /\ (Head(todo) \in Repeated => off < e)
  BY <1>1, <1>2, FieldEndFacts
<1>4. /\ todo' \in Seq(Kind)
      /\ Head(todo) \notin Repeated => Len(todo') < Len(todo)
      /\ Len(todo') \in Nat /\ Len(todo) \in Nat
  <2>1. todo \in Seq(Kind)
    BY DEF UnpackTypeOK
  <2> QED
    BY <1>1, <1>2, <2>1, RestFacts
<1>5. UnpackTypeOK'
  BY <1>1, <1>2, <1>3, <1>4 DEF UnpackTypeOK
<1>6. Limits'
  BY <1>1, <1>2 DEF Limits, InRecord
<1>7. Work'
  BY <1>1, <1>2, <1>3 DEF Work, InRecord, Reading, Spent, UnpackTypeOK
<1>8. Sections' /\ Place'
  BY <1>2 DEF Sections, Place
<1>9. /\ Rank[1] = off /\ Rank'[1] = e /\ Rank[2] = Rank'[2] /\ Rank[3] = Rank'[3]
      /\ Rank[4] = -Len(todo) /\ Rank'[4] = -Len(todo') /\ off \in Nat
  BY <1>1, <1>2 DEF Rank, UnpackTypeOK
<1>10. Before(Rank, Rank')
  <2>1. CASE off < e
    BY <1>9, <2>1 DEF Before
  <2>2. CASE off = e
    <3>1. Rank[4] < Rank'[4]
      BY <1>3, <1>4, <1>9, <2>2
    <3> QED
      BY <1>9, <2>2, <3>1 DEF Before
  <2> QED
    BY <1>3, <1>9, <2>1, <2>2
<1> QED
  BY <1>5, <1>6, <1>7, <1>8, <1>10

LEMMA FieldSkippedKeeps ==
  ASSUME IInv, FieldSkipped
  PROVE  IInv' /\ Before(Rank, Rank')
<1> USE DEF IInv
<1>1. /\ up = "field" /\ up' = "field" /\ todo # <<>> /\ todo' = Tail(todo)
      /\ received' = received /\ content' = content /\ tc' = tc /\ off' = off
      /\ lim' = lim /\ end' = end /\ purpose' = purpose
      /\ pos' = pos /\ off1' = off1 /\ ptr' = ptr
      /\ octets' = octets /\ heard' = heard /\ counts' = counts
      /\ asked' = asked /\ taken' = taken /\ result' = result
  BY DEF FieldSkipped, AtField, message, name, progress
<1>2. todo' \in Seq(Kind) /\ Len(todo') = Len(todo) - 1 /\ Len(todo) \in Nat
  BY <1>1, TailFacts DEF UnpackTypeOK
<1>3. UnpackTypeOK'
  BY <1>1, <1>2 DEF UnpackTypeOK
<1>4. Limits'
  BY <1>1 DEF Limits, InRecord
<1>5. Work'
  BY <1>1 DEF Work, InRecord, Reading, Spent
<1>6. Sections' /\ Place'
  BY <1>1 DEF Sections, Place
<1>7. /\ \A j \in 1 .. 3 : Rank[j] = Rank'[j]
      /\ Rank[4] = -Len(todo) /\ Rank'[4] = -Len(todo')
  BY <1>1 DEF Rank
<1>8. Rank[4] < Rank'[4]
  BY <1>2, <1>7
<1> QED
  BY <1>3, <1>4, <1>5, <1>6, <1>7, <1>8 DEF Before

LEMMA RecordKeeps ==
  ASSUME IInv, Record
  PROVE  IInv' /\ Before(Rank, Rank')
<1> USE DEF IInv
<1>1. /\ up = "field" /\ up' = "next" /\ off = end /\ taken' = taken + 1
      /\ counts' = [counts EXCEPT ![1] = @ - 1] /\ lim' = received
      /\ received' = received /\ content' = content /\ tc' = tc /\ off' = off
      /\ end' = end /\ todo' = todo /\ purpose' = purpose
      /\ pos' = pos /\ off1' = off1 /\ ptr' = ptr
      /\ octets' = octets /\ heard' = heard /\ asked' = asked /\ result' = result
  BY DEF Record, message, name
<1>2. off <= received
  BY <1>1 DEF Limits, UnpackTypeOK
<1>3. counts' \in Seq(Nat)
  BY <1>1, CountDown DEF Sections, UnpackTypeOK
<1>4. UnpackTypeOK'
  BY <1>1, <1>3 DEF UnpackTypeOK
<1>5. Limits'
  BY <1>1, <1>2 DEF Limits, InRecord, UnpackTypeOK
<1>6. Work'
  BY <1>1 DEF Work, InRecord, Reading, Spent, UnpackTypeOK
<1>7. Sections' /\ Place'
  BY <1>1 DEF Sections, Place
<1>8. /\ Rank[1] = Rank'[1]
      /\ Rank[2] = asked + taken /\ Rank'[2] = asked + (taken + 1)
      /\ asked \in Nat /\ taken \in Nat
  BY <1>1 DEF Rank, UnpackTypeOK
<1> QED
  BY <1>4, <1>5, <1>6, <1>7, <1>8 DEF Before

-----------------------------------------------------------------------------
(* Every step of Unpack keeps the invariant, and advances or is the last.  *)
LEMMA UnpackKeeps ==
  ASSUME IInv, UnpackNext
  PROVE  IInv' /\ (up' # "done" => Before(Rank, Rank'))
<1>1. CASE HeaderRefused \/ Finish \/ NameRefused \/ QuestionRefused \/ FixedRefused
           \/ FieldRefused \/ RecordRefused
  <2>1. PICK r \in {"accepted", "refused"} : Stop(r)
    BY <1>1 DEF HeaderRefused, Finish, NameRefused, QuestionRefused, FixedRefused,
                FieldRefused, RecordRefused
  <2> QED
    BY <2>1, StopKeeps DEF Stop
<1>2. CASE NextItem
  <2>1. PICK who \in {"question", "fixed"} : StartName(who)
    BY <1>2 DEF NextItem
  <2>2. up = "next" /\ counts # <<>> /\ Head(counts) > 0
    <3>1. counts \in Seq(Nat) /\ counts # <<>> /\ Head(counts) # 0 /\ up = "next"
      BY <1>2 DEF NextItem, IInv, UnpackTypeOK
    <3>2. Head(counts) \in Nat
      BY <3>1, TailFacts
    <3> QED
      BY <3>1, <3>2
  <2> QED
    BY <2>1, <2>2, StartNameKeeps
<1>3. CASE FieldName
  <2>1. StartName("field") /\ up = "field" /\ todo # <<>>
    BY <1>3 DEF FieldName, AtField
  <2>2. counts # <<>> /\ Head(counts) > 0
    BY <2>1 DEF IInv, Sections
  <2> QED
    BY <2>1, <2>2, StartNameKeeps
<1>4. CASE Header \/ SectionEnds
  BY <1>4, HeaderKeeps, SectionEndsKeeps
<1>5. CASE NameLabel \/ NamePointer \/ NameEnds
  BY <1>5, NameLabelKeeps, NamePointerKeeps, NameEndsKeeps
<1>6. CASE Question \/ Fixed
  BY <1>6, QuestionKeeps, FixedKeeps
<1>7. CASE Field \/ FieldSkipped \/ Record
  BY <1>7, FieldKeeps, FieldSkippedKeeps, RecordKeeps
<1> QED
  BY <1>1, <1>2, <1>3, <1>4, <1>5, <1>6, <1>7 DEF UnpackNext, UnpackName, UnpackField

LEMMA StepKeeps ==
  ASSUME IInv, [UnpackStep]_unpackVars
  PROVE  IInv'
<1>1. CASE UnpackNext
  BY <1>1, UnpackKeeps
<1>2. CASE \E n \in Nat, items \in SUBSET Item, t \in BOOLEAN : Deliver(n, items, t)
  BY <1>2, DeliverKeeps
<1>3. CASE UNCHANGED unpackVars
  BY <1>3 DEF IInv, UnpackTypeOK, Limits, Work, Sections, Place, InRecord, Reading, Spent,
              unpackVars, message, record, name, progress
<1> QED
  BY <1>1, <1>2, <1>3 DEF UnpackStep

LEMMA Invariance == UnpackSpec => []IInv
  BY Initially, StepKeeps, PTL DEF UnpackSpec

(* The types hold, for every message and whatever is known of it.          *)
THEOREM UnpackTypeCorrect == UnpackSpec => []UnpackTypeOK
<1>1. IInv => UnpackTypeOK
  BY DEF IInv
<1> QED
  BY <1>1, Invariance, PTL

(* Unpack never slices a message backwards or beyond its end: the rdlength *)
(* cuts it, and the fields and names of a record stay within the cut, for  *)
(* any layout of the types, any lengths and any pointers.                  *)
THEOREM StaysInBounds == UnpackSpec => []InBounds
<1>1. IInv => InBounds
  BY DEF IInv, UnpackTypeOK, Limits, Place, InBounds, InRecord
<1> QED
  BY <1>1, Invariance, PTL

(* The questions and records unpacked are bounded by the octets that came, *)
(* whatever counts the header gives, and so are the pointers of a name.    *)
THEOREM WorkIsBounded == UnpackSpec => []WorkBounded
<1>1. IInv => WorkBounded
  <2>1. ASSUME IInv, Reading
        PROVE  asked + 11 * taken <= off - 12
    BY <2>1 DEF IInv, UnpackTypeOK, Work, Spent
  <2>2. ASSUME IInv, Reading
        PROVE  ptr <= MaxPointers
    BY <2>2, LayoutRead DEF IInv, UnpackTypeOK, Place, Reading
  <2> QED
    BY <2>1, <2>2 DEF WorkBounded, Reading
<1> QED
  BY <1>1, Invariance, PTL

(* Unpack ends: every step that is not its last advances in an order whose *)
(* components are all bounded (by the length of the message, the sections, *)
(* the fields of the layout and the pointers that are followed).           *)
THEOREM UnpackEnds == UnpackSpec => Progresses
<1>1. ASSUME IInv, [UnpackStep]_unpackVars
      PROVE  [up # "idle" /\ up' # "done" => Before(Rank, Rank')]_unpackVars
  <2>1. CASE UnpackNext
    BY <1>1, <2>1, UnpackKeeps
  <2>2. CASE \E n \in Nat, items \in SUBSET Item, t \in BOOLEAN : Deliver(n, items, t)
    BY <2>2 DEF Deliver
  <2>3. CASE UNCHANGED unpackVars
    BY <2>3
  <2> QED
    BY <1>1, <2>1, <2>2, <2>3 DEF UnpackStep
<1> QED
  BY <1>1, Invariance, PTL DEF UnpackSpec, Progresses
=============================================================================
