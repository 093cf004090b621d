----------------------------- MODULE ResolveProof -----------------------------
(***************************************************************************)
(* Whom gyip speaks for and which names crash it, whatever the parts of    *)
(* names are, the domains served and the messages sent.                    *)
(***************************************************************************)
EXTENDS Resolve, Facts

(* A reply of handleQuestions speaks for a zone that ServeMux found; any   *)
(* other reply is the root handler's or, without a question, HandleFailed's. *)
Zoned(rcodes) ==
  /\ reply \in [rcode : rcodes, authoritative : {TRUE}, answers : {reply.answers}]
  /\ Matching(Question.name) # {}

IInv ==
  /\ served \in ServedLists /\ request \in Requests
  /\ pc \in {"dispatch", "respond", "frame", "write", "sent", "crashed"}
  /\ pc = "dispatch" => reply = NoReply
  /\ pc \in {"respond", "frame", "write"} => request.questions # <<>> /\ Zoned({"SUCCESS"})
  /\ pc = "sent" /\ request.questions # <<>> =>
       \/ Zoned({"SUCCESS", "NXDOMAIN"})
       \/ /\ reply = [NoReply EXCEPT !.rcode = "NOTZONE"]
          /\ Match(Question) = <<>>

-----------------------------------------------------------------------------
(* Folded names.                                                           *)

LEMMA NameFacts ==
  ASSUME IInv, request.questions # <<>>
  PROVE  /\ Question.name \in Seq(Part)
         /\ \A d \in ToSet(served) : d \in Seq(Part) /\ d # <<>>
<1>1. request.questions \in Seq([name : Seq(Part), type : Types])
  BY InputAssumption DEF IInv
<1>2. Question.name \in Seq(Part)
  <2> DEFINE q == request.questions
  <2>1. q \in Seq([name : Seq(Part), type : Types]) /\ q # <<>>
    BY <1>1
  <2> HIDE DEF q
  <2>2. q[1] \in [name : Seq(Part), type : Types]
    <3>1. \A S : \A r \in Seq(S) : r # <<>> => r[1] \in S
      OBVIOUS
    <3> QED
      BY <2>1, <3>1, Zenon
  <2> QED
    BY <2>2 DEF Question, q
<1>3. \A i \in DOMAIN served : served[i] \in Seq(Part) \ {<<>>}
  <2>1. served \in Seq(Seq(Part) \ {<<>>})
    BY InputAssumption DEF IInv
  <2> QED
    BY <2>1
<1> QED
  BY <1>2, <1>3 DEF ToSet

LEMMA LowerFacts ==
  ASSUME NEW n \in Seq(Part)
  PROVE  /\ Lower(n) \in Seq(Part)
         /\ Len(Lower(n)) = Len(n)
         /\ \A i \in 1 .. Len(n) : Lower(n)[i] = Fold[n[i]] /\ Fold[Lower(n)[i]] = Lower(n)[i]
<1>1. DOMAIN n = 1 .. Len(n) /\ Len(n) \in Nat /\ \A i \in 1 .. Len(n) : n[i] \in Part
  OBVIOUS
<1>2. Lower(n) = [i \in 1 .. Len(n) |-> Fold[n[i]]]
  BY <1>1 DEF Lower
<1>3. \A i \in 1 .. Len(n) : Fold[n[i]] \in Part /\ Fold[Fold[n[i]]] = Fold[n[i]]
  BY <1>1, TextAssumption
<1> QED
  BY <1>1, <1>2, <1>3

(* A name that ends in a domain of folded letters covers it: what ends a   *)
(* folded name is folded.                                                  *)
LEMMA SuffixIsFolded ==
  ASSUME NEW d \in Seq(Part), NEW n \in Seq(Part), IsSuffix(d, Lower(n))
  PROVE  Lower(d) = d
<1>1. /\ Lower(n) \in Seq(Part) /\ Len(Lower(n)) = Len(n)
      /\ \A i \in 1 .. Len(n) : Fold[Lower(n)[i]] = Lower(n)[i]
  BY LowerFacts
<1>2. Len(d) <= Len(n) /\ \A i \in 1 .. Len(d) : d[i] = Lower(n)[Len(n) - Len(d) + i]
  BY <1>1, SuffixFacts
<1>3. \A i \in 1 .. Len(d) : Fold[d[i]] = d[i]
  <2> TAKE i \in 1 .. Len(d)
  <2>1. Len(n) - Len(d) + i \in 1 .. Len(n)
    BY <1>2
  <2> QED
    BY <1>1, <1>2, <2>1
<1>4. Lower(d) = [i \in 1 .. Len(d) |-> d[i]]
  BY <1>3 DEF Lower
<1> QED
  BY <1>4

(* Of domains that are no longer than a name one is the longest.           *)
LEMMA LongestFacts ==
  ASSUME NEW n \in Seq(Part), NEW M, M # {},
         \A d \in M : d \in Seq(Part) /\ Len(d) <= Len(n)
  PROVE  Longest(M) \in M /\ \A e \in M : Len(e) <= Len(Longest(M))
<1> DEFINE T == {Len(n) - Len(d) : d \in M}
<1>1. Len(n) \in Nat /\ \A d \in M : Len(d) \in Nat
  OBVIOUS
<1>2. T \subseteq Nat /\ T # {}
  BY <1>1
<1> HIDE DEF T
<1>3. PICK t \in T : \A u \in T : t <= u
  BY <1>2, LeastNatural
<1> USE DEF T
<1>4. PICK d \in M : t = Len(n) - Len(d)
  OBVIOUS
<1>5. \A e \in M : Len(e) <= Len(d)
  <2> TAKE e \in M
  <2>1. Len(n) - Len(e) \in T
    OBVIOUS
  <2>2. Len(n) - Len(d) <= Len(n) - Len(e)
    BY <1>3, <1>4, <2>1
  <2>3. Len(n) \in Int /\ Len(d) \in Int /\ Len(e) \in Int
    BY <1>1
  <2> QED
    BY <2>2, <2>3
<1>6. \E e \in M : \A f \in M : Len(f) <= Len(e)
  BY <1>5
<1> QED
  BY <1>6, Zenon DEF Longest

(* ServeMux finds a domain exactly when one is there to be found.          *)
LEMMA LongestIsOne ==
  ASSUME NEW n \in Seq(Part), Matching(n) # {},
         \A d \in ToSet(served) : d \in Seq(Part)
  PROVE  Longest(Matching(n)) \in Matching(n)
<1>1. \A d \in Matching(n) : d \in Seq(Part) /\ Len(d) <= Len(n)
  <2> TAKE d \in Matching(n)
  <2>1. d \in Seq(Part) /\ IsSuffix(d, Lower(n))
    BY DEF Matching
  <2> QED
    BY <2>1, LowerFacts, SuffixFacts
<1> QED
  BY <1>1, LongestFacts

LEMMA MatchFacts ==
  ASSUME IInv, request.questions # <<>>
  PROVE  Match(Question) = <<>> <=> Question.type = "DS" \/ Matching(Question.name) = {}
<1>1. Matching(Question.name) # {} =>
        /\ Longest(Matching(Question.name)) \in ToSet(served)
        /\ Longest(Matching(Question.name)) # <<>>
  BY NameFacts, LongestIsOne DEF Matching
<1> QED
  BY <1>1 DEF Match

-----------------------------------------------------------------------------
(* The invariant.                                                          *)

LEMMA NewAnswers ==
  ASSUME NEW R, NEW A, NEW x \in [rcode : R, authoritative : {TRUE}, answers : A],
         NEW c, NEW y, y = [x EXCEPT !.answers = c]
  PROVE  y \in [rcode : R, authoritative : {TRUE}, answers : {y.answers}]
  OBVIOUS

LEMMA NewRcode ==
  ASSUME NEW R, NEW A, NEW x \in [rcode : R, authoritative : {TRUE}, answers : A],
         NEW c, NEW y, y = [x EXCEPT !.rcode = c]
  PROVE  y \in [rcode : {c}, authoritative : {TRUE}, answers : {y.answers}]
  OBVIOUS

LEMMA InitInvariant == Init => IInv
  BY DEF Init, IInv

LEMMA DispatchInvariant ==
  ASSUME IInv, ServeFailure \/ ServeNotZone \/ ServeZone
  PROVE  IInv'
<1>1. CASE ServeFailure
  BY <1>1 DEF ServeFailure, IInv
<1>2. CASE ServeNotZone
  BY <1>2 DEF ServeNotZone, IInv, Match, Matching, Question, NoReply
<1>3. CASE ServeZone
  <2>1. /\ request.questions # <<>> /\ Match(Question) # <<>>
        /\ reply' \in [rcode : {"SUCCESS"}, authoritative : {TRUE},
                       answers : {reply'.answers}]
        /\ pc' \in {"respond", "write"}
        /\ UNCHANGED <<served, request>>
    BY <1>3 DEF ServeZone, NoReply
  <2>2. Matching(Question.name) # {}
    BY <2>1, MatchFacts
  <2>3. Zoned({"SUCCESS"})'
    BY <2>1, <2>2 DEF Zoned, Matching, Question
  <2> QED
    BY <2>1, <2>3 DEF IInv
<1> QED
  BY <1>1, <1>2, <1>3

LEMMA FrameInvariant ==
  ASSUME IInv, pc \in {"respond", "frame"}, pc' \in {"frame", "write"},
         UNCHANGED <<served, request>>,
         \E a : reply' = [reply EXCEPT !.answers = a]
  PROVE  IInv'
<1>1. reply \in [rcode : {"SUCCESS"}, authoritative : {TRUE}, answers : {reply.answers}]
  BY DEF IInv, Zoned
<1>2. reply' \in [rcode : {"SUCCESS"}, authoritative : {TRUE}, answers : {reply'.answers}]
  BY <1>1, NewAnswers
<1>3. Zoned({"SUCCESS"})'
  BY <1>2 DEF IInv, Zoned, Matching, Question
<1> QED
  BY <1>3 DEF IInv

LEMMA WriteInvariant ==
  ASSUME IInv, WriteReply
  PROVE  IInv'
<1>1. /\ reply \in [rcode : {"SUCCESS"}, authoritative : {TRUE}, answers : {reply.answers}]
      /\ request.questions # <<>> /\ Matching(Question.name) # {}
      /\ pc' = "sent" /\ UNCHANGED <<served, request>>
  BY DEF WriteReply, IInv, Zoned
<1>2. reply' \in [rcode : {"SUCCESS", "NXDOMAIN"}, authoritative : {TRUE},
                  answers : {reply'.answers}]
  <2>1. CASE reply' = [reply EXCEPT !.rcode = "NXDOMAIN"]
    <3>1. reply' \in [rcode : {"NXDOMAIN"}, authoritative : {TRUE},
                      answers : {reply'.answers}]
      BY <1>1, <2>1, NewRcode
    <3> QED
      BY <3>1
  <2>2. CASE reply' = reply
    BY <1>1, <2>2
  <2> QED
    BY <2>1, <2>2 DEF WriteReply
<1>3. Zoned({"SUCCESS", "NXDOMAIN"})'
  BY <1>1, <1>2 DEF Zoned, Matching, Question
<1> QED
  BY <1>1, <1>3 DEF IInv

LEMMA NextInvariant == IInv /\ [Next]_vars => IInv'
<1> SUFFICES ASSUME IInv, [Next]_vars PROVE IInv'
  OBVIOUS
<1>1. CASE ServeFailure \/ ServeNotZone \/ ServeZone
  BY <1>1, DispatchInvariant
<1>2. CASE RespondToQuestion
  <2>1. reply' = [reply EXCEPT !.answers = reply.answers]
    BY <1>2 DEF RespondToQuestion, IInv, Zoned
  <2> QED
    BY <1>2, <2>1, FrameInvariant DEF RespondToQuestion
<1>3. CASE FramePanic
  BY <1>3 DEF FramePanic, IInv
<1>4. ASSUME NEW ips, NEW ttl, FrameWith(ips, ttl), pc = "frame"
      PROVE  IInv'
  <2>1. \E a : reply' = [reply EXCEPT !.answers = a]
    BY <1>4 DEF FrameWith
  <2> QED
    BY <1>4, <2>1, FrameInvariant DEF FrameWith
<1>5. CASE FrameEcho
  BY <1>4, <1>5 DEF FrameEcho, Framing
<1>6. CASE FrameNothing
  BY <1>4, <1>6 DEF FrameNothing, Parsing, Framing
<1>7. CASE FrameNoop
  BY <1>4, <1>7 DEF FrameNoop, Parsing, Framing
<1>8. CASE FrameRoundRobin
  BY <1>4, <1>8 DEF FrameRoundRobin, Parsing, Framing
<1>9. CASE FrameFail
  BY <1>4, <1>9 DEF FrameFail, Parsing, Framing
<1>10. CASE WriteReply
  BY <1>10, WriteInvariant
<1>11. CASE UNCHANGED vars
  BY <1>11 DEF vars, IInv, Zoned, Matching, Match, Question
<1> QED
  BY <1>1, <1>2, <1>3, <1>5, <1>6, <1>7, <1>8, <1>9, <1>10, <1>11 DEF Next

(* The inductive invariant holds of every message.                         *)
THEOREM Invariance == Spec => []IInv
BY InitInvariant, NextInvariant, PTL DEF Spec

-----------------------------------------------------------------------------
(* Where ServeMux finds nothing, no domain spelled in folded letters covers *)
(* the name; where it finds one, that one does.                            *)
LEMMA FoundIsCovering ==
  ASSUME NEW n \in Seq(Part), \A d \in ToSet(served) : d \in Seq(Part)
  PROVE  Matching(n) = {d \in Covering(n) : Lower(d) = d}
<1>1. ASSUME NEW d \in Matching(n)
      PROVE  d \in Covering(n) /\ Lower(d) = d
  BY <1>1, SuffixIsFolded DEF Matching, Covering
<1>2. ASSUME NEW d \in Covering(n), Lower(d) = d
      PROVE  d \in Matching(n)
  BY <1>2 DEF Matching, Covering
<1> QED
  BY <1>1, <1>2

(* Outside the served domains nobody is told anything but NOTZONE, inside  *)
(* them only DS questions and the names of upper-case domains are.         *)
THEOREM SpeaksOnlyForItsZones == Spec => []SpeaksForItsZones
<1>1. IInv => SpeaksForItsZones
  <2> SUFFICES ASSUME IInv, Asked PROVE SpeaksForItsZones
    BY DEF SpeaksForItsZones
  <2>1. pc = "sent" /\ request.questions # <<>>
    BY DEF Asked
  <2>2. Matching(Question.name) = {d \in Covering(Question.name) : Lower(d) = d}
    BY <2>1, NameFacts, FoundIsCovering
  <2>3. CASE Zoned({"SUCCESS", "NXDOMAIN"})
    <3>1. reply.authoritative = TRUE /\ reply.rcode # "NOTZONE"
      BY <2>3 DEF Zoned
    <3>2. Covered
      BY <2>2, <2>3 DEF Zoned, Covered
    <3> QED
      BY <3>1, <3>2 DEF SpeaksForItsZones
  <2>4. CASE /\ reply = [NoReply EXCEPT !.rcode = "NOTZONE"]
             /\ Match(Question) = <<>>
    <3>1. /\ reply.authoritative = FALSE /\ reply.answers = <<>>
          /\ reply.rcode = "NOTZONE"
      BY <2>4 DEF NoReply
    <3>2. Question.type = "DS" \/ Matching(Question.name) = {}
      BY <2>1, <2>4, MatchFacts
    <3> QED
      BY <2>2, <3>1, <3>2 DEF SpeaksForItsZones
  <2> QED
    BY <2>1, <2>3, <2>4 DEF IInv
<1> QED
  BY <1>1, Invariance, PTL

-----------------------------------------------------------------------------
(* When a handler panics.                                                  *)

(* The domains that cover a name, and the longest of them.                 *)
LEMMA CoveringFacts ==
  ASSUME NEW n \in Seq(Part), Covering(n) # {},
         \A d \in ToSet(served) : d \in Seq(Part)
  PROVE  /\ Longest(Covering(n)) \in ToSet(served)
         /\ Longest(Covering(n)) \in Seq(Part)
         /\ \A e \in Covering(n) : Len(e) <= Len(Longest(Covering(n)))
<1>1. \A d \in Covering(n) : d \in Seq(Part) /\ Len(d) <= Len(n)
  <2> TAKE d \in Covering(n)
  <2>1. d \in Seq(Part) /\ IsSuffix(Lower(d), Lower(n))
    BY DEF Covering
  <2>2. Lower(d) \in Seq(Part) /\ Len(Lower(d)) = Len(d)
        /\ Lower(n) \in Seq(Part) /\ Len(Lower(n)) = Len(n)
    BY <2>1, LowerFacts
  <2> QED
    BY <2>1, <2>2, SuffixFacts
<1>2. Longest(Covering(n)) \in Covering(n)
      /\ \A e \in Covering(n) : Len(e) <= Len(Longest(Covering(n)))
  BY <1>1, LongestFacts
<1> QED
  BY <1>2 DEF Covering

(* Of two endings of a name the shorter one is an ending of the longer one; *)
(* as text too.                                                            *)
LEMMA EndsInEnding ==
  ASSUME NEW n \in Seq(Part), NEW c \in Seq(Part), c # <<>>, NEW d \in Seq(Part),
         IsSuffix(d, n), HasSuffix(n, c), Len(c) <= Len(d)
  PROVE  HasSuffix(d, c)
<1>1. /\ Len(n) \in Nat /\ Len(c) \in Nat /\ Len(d) \in Nat /\ Len(c) > 0
      /\ Len(d) <= Len(n) /\ \A i \in 1 .. Len(d) : d[i] = n[Len(n) - Len(d) + i]
  BY SuffixFacts
<1>2. CASE IsSuffix(c, n)
  <2>1. \A i \in 1 .. Len(c) : c[i] = n[Len(n) - Len(c) + i]
    BY <1>2, SuffixFacts
  <2>2. \A i \in 1 .. Len(c) : c[i] = d[Len(d) - Len(c) + i]
    <3> TAKE i \in 1 .. Len(c)
    <3>1. /\ Len(d) - Len(c) + i \in 1 .. Len(d)
          /\ Len(n) - Len(d) + (Len(d) - Len(c) + i) = Len(n) - Len(c) + i
      BY <1>1
    <3> QED
      BY <1>1, <2>1, <3>1
  <2>3. IsSuffix(c, d)
    BY <2>2, SuffixFacts
  <2> QED
    BY <2>3 DEF HasSuffix
<1>3. CASE /\ IsSuffix(Tail(c), n)
           /\ <<n[Len(n) - Len(c) + 1], c[1]>> \in Ending
  <2> DEFINE t == Tail(c)
  <2>1. t \in Seq(Part) /\ Len(t) = Len(c) - 1
    BY <1>1
  <2>2. IsSuffix(t, n)
    BY <1>3
  <2> HIDE DEF t
  <2>3. \A i \in 1 .. Len(t) : t[i] = n[Len(n) - Len(t) + i]
    BY <2>1, <2>2, SuffixFacts
  <2>4. \A i \in 1 .. Len(t) : t[i] = d[Len(d) - Len(t) + i]
    <3> TAKE i \in 1 .. Len(t)
    <3>1. /\ Len(d) - Len(t) + i \in 1 .. Len(d)
          /\ Len(n) - Len(d) + (Len(d) - Len(t) + i) = Len(n) - Len(t) + i
      BY <1>1, <2>1
    <3> QED
      BY <1>1, <2>3, <3>1
  <2>5. IsSuffix(t, d)
    <3>1. Len(t) <= Len(d)
      BY <1>1, <2>1
    <3> QED
      BY <2>1, <2>4, <3>1, SuffixFacts
  <2>6. d[Len(d) - Len(c) + 1] = n[Len(n) - Len(c) + 1]
    <3>1. /\ Len(d) - Len(c) + 1 \in 1 .. Len(d)
          /\ Len(n) - Len(d) + (Len(d) - Len(c) + 1) = Len(n) - Len(c) + 1
      BY <1>1
    <3> QED
      BY <1>1, <3>1
  <2> QED
    BY <1>3, <2>5, <2>6 DEF HasSuffix, t
<1> QED
  BY <1>2, <1>3 DEF HasSuffix

(* The handler's search finds the first domain the name ends in.           *)
LEMMA CurrentFacts ==
  ASSUME NEW n, NEW j \in DOMAIN served, HasSuffix(n, served[j]),
         \E k \in Nat : DOMAIN served = 1 .. k /\ Len(served) = k
  PROVE  \E i \in DOMAIN served :
           i <= j /\ HasSuffix(n, served[i]) /\ CurrentDomain(n) = served[i]
<1> DEFINE I == {i \in 1 .. Len(served) : HasSuffix(n, served[i])}
<1>1. I \subseteq Nat /\ j \in I /\ I \subseteq DOMAIN served
  OBVIOUS
<1>2. PICK i \in I : \A k \in I : i <= k
  BY <1>1, LeastNatural
<1>3. Min(I) \in I /\ \A k \in I : Min(I) <= k
  BY <1>2 DEF Min
<1>4. CurrentDomain(n) = IF I # {} THEN IF Min(I) = 0 THEN <<>> ELSE served[Min(I)] ELSE <<>>
  BY DEF CurrentDomain, SelectInSeq
<1>5. CurrentDomain(n) = served[Min(I)]
  BY <1>1, <1>3, <1>4
<1> QED
  BY <1>1, <1>3, <1>5

(* The handler finds the domain that covers the name, when no list hides   *)
(* it, no longer one is taken for it and the letters are spelled alike.    *)
LEMMA FindsCovering ==
  ASSUME IInv, request.questions # <<>>, Covered,
         NoneHidden, NoneMistaken, SpelledAlike
  PROVE  CurrentDomain(Question.name) = Longest(Covering(Question.name))
<1> DEFINE n == Question.name
           l == Longest(Covering(n))
<1>1. n \in Seq(Part) /\ \A d \in ToSet(served) : d \in Seq(Part) /\ d # <<>>
  BY NameFacts
<1>2. l \in ToSet(served) /\ l \in Seq(Part) /\ IsSuffix(l, n)
  BY <1>1, CoveringFacts DEF Covered, SpelledAlike
<1>3. PICK j \in DOMAIN served : served[j] = l
  BY <1>2 DEF ToSet
<1>4. \E k \in Nat : DOMAIN served = 1 .. k /\ Len(served) = k
  <2>1. served \in Seq(Seq(Part) \ {<<>>})
    BY InputAssumption DEF IInv
  <2> QED
    BY <2>1
<1>5. PICK i \in DOMAIN served :
        i <= j /\ HasSuffix(n, served[i]) /\ CurrentDomain(n) = served[i]
  BY <1>2, <1>3, <1>4, CurrentFacts DEF HasSuffix
<1> DEFINE c == served[i]
<1>6. c \in ToSet(served) /\ c \in Seq(Part) /\ c # <<>>
  BY <1>1 DEF ToSet
<1>7. Len(c) <= Len(l)
  <2>1. ~(Len(c) > Len(l))
    BY <1>5, <1>6 DEF NoneMistaken
  <2> QED
    BY <1>2, <1>6, <2>1
<1>8. HasSuffix(l, c)
  BY <1>1, <1>2, <1>5, <1>6, <1>7, EndsInEnding
<1>9. c = l
  <2>1. CASE i = j
    BY <1>3, <2>1
  <2>2. CASE i # j
    <3>1. i < j
      BY <1>4, <1>5, <2>2
    <3> QED
      BY <1>3, <1>8, <3>1 DEF NoneHidden
  <2> QED
    BY <2>1, <2>2
<1> QED
  BY <1>5, <1>9

(* The handler's two slices, for the domain it finds.                      *)
HandlerPanics ==
  LET d    == CurrentDomain(Question.name)
      rest == Remainder(Question.name, d)
  IN  \/ SlicePanics(Question.name, d)
      \/ ~IsEcho(rest) /\ ParsePanics(Text(rest))

LEMMA SameElements ==
  ASSUME NEW s \in Seq(Part), NEW t \in Seq(Part), Len(s) = Len(t),
         \A i \in 1 .. Len(t) : t[i] = s[i]
  PROVE  s = t
  OBVIOUS

(* What parseIPs is given starts with the part the name starts with.       *)
LEMMA FirstPartPanics ==
  ASSUME NEW rest \in Seq(Part), rest # <<>>
  PROVE  ~IsEcho(rest) /\ ParsePanics(Text(rest)) <=> Kind[rest[1]] \in {"short", "colon"}
<1>1. Text(rest) # <<>> /\ Text(rest)[1] = rest[1]
  <2>1. CASE HasCommand(rest)
    <3>1. Text(rest) = SubSeq(rest, 1, Len(rest) - 1) /\ Len(rest) > 1
      BY <2>1 DEF Text, HasCommand, Front
    <3> DEFINE t == SubSeq(rest, 1, Len(rest) - 1)
    <3>2. t \in Seq(Part) /\ Len(t) >= 1 /\ t[1] = rest[1]
      BY <3>1
    <3> HIDE DEF t
    <3>3. t # <<>>
      BY <3>2
    <3> QED
      BY <3>1, <3>2, <3>3 DEF t
  <2>2. CASE ~HasCommand(rest)
    BY <2>2 DEF Text
  <2> QED
    BY <2>1, <2>2
<1>2. ParsePanics(Text(rest)) <=> Kind[rest[1]] \in {"short", "colon"}
  BY <1>1 DEF ParsePanics
<1> QED
  BY <1>2 DEF IsEcho

LEMMA PanicsWhere ==
  ASSUME IInv, request.questions # <<>>, Covered,
         NoneHidden, NoneMistaken, SpelledAlike
  PROVE  HandlerPanics <=>
           LET rest == Before(Question.name)
           IN  rest = <<>> \/ Kind[rest[1]] \in {"short", "colon"}
<1> DEFINE n    == Question.name
           l    == Longest(Covering(n))
           rest == Before(n)
<1>1. n \in Seq(Part) /\ \A d \in ToSet(served) : d \in Seq(Part)
  BY NameFacts
<1>2. l \in Seq(Part) /\ IsSuffix(l, n)
  BY <1>1, CoveringFacts DEF Covered, SpelledAlike
<1>3. CurrentDomain(n) = l
  BY FindsCovering
<1>4. Remainder(n, l) = rest
  BY <1>2 DEF Remainder, Before
<1>5. rest = SubSeq(n, 1, Len(n) - Len(l))
  BY DEF Before
<1> HIDE DEF n, l, rest
<1>6. /\ Len(n) \in Nat /\ Len(l) \in Nat /\ Len(l) <= Len(n)
      /\ \A i \in 1 .. Len(l) : l[i] = n[Len(n) - Len(l) + i]
  BY <1>1, <1>2, SuffixFacts
<1>7. rest \in Seq(Part) /\ Len(rest) = Len(n) - Len(l)
  BY <1>1, <1>5, <1>6
<1>8. n = l <=> rest = <<>>
  <2>1. CASE n = l
    BY <1>6, <1>7, <2>1
  <2>2. CASE rest = <<>>
    <3>1. Len(n) = Len(l)
      BY <1>6, <1>7, <2>2
    <3>2. \A i \in 1 .. Len(l) : l[i] = n[i]
      <4> TAKE i \in 1 .. Len(l)
      <4>1. Len(n) - Len(l) + i = i
        BY <1>6, <3>1
      <4> QED
        BY <1>6, <4>1
    <3> QED
      BY <2>2, <1>1, <1>2, <3>1, <3>2, SameElements
  <2> QED
    BY <2>1, <2>2
<1>9. rest # <<>> =>
        (~IsEcho(rest) /\ ParsePanics(Text(rest)) <=> Kind[rest[1]] \in {"short", "colon"})
  BY <1>7, FirstPartPanics
<1>10. HandlerPanics <=> n = l \/ (~IsEcho(rest) /\ ParsePanics(Text(rest)))
  <2>1. Question.name = n
    BY DEF n
  <2>2. CurrentDomain(Question.name) = l
    BY <1>3, <2>1
  <2>3. Remainder(Question.name, CurrentDomain(Question.name)) = rest
    BY <1>4, <2>1, <2>2
  <2> QED
    BY <2>1, <2>2, <2>3, Zenon DEF HandlerPanics, SlicePanics
<1>11. HandlerPanics <=> rest = <<>> \/ Kind[rest[1]] \in {"short", "colon"}
  <2>1. CASE rest = <<>>
    BY <1>8, <1>10, <2>1, Zenon
  <2>2. CASE rest # <<>>
    BY <1>8, <1>9, <1>10, <2>2, Zenon
  <2> QED
    BY <2>1, <2>2
<1> QED
  BY <1>11 DEF rest, n

(* A message ends in a panic exactly when the handler's slices do.         *)
CInv ==
  /\ IInv
  /\ pc = "dispatch" => zone = <<>>
  /\ zone # <<>> => request.questions # <<>> /\ Matching(Question.name) # {}
  /\ pc = "frame" => domain = CurrentDomain(Question.name)
  /\ pc \in {"write", "sent"} /\ zone # <<>> /\ Question.type \in {"A", "AAAA"} =>
       ~HandlerPanics
  /\ pc = "crashed" => HandlerPanics

LEMMA CrashInvariant == CInv /\ [Next]_vars => CInv'
<1> SUFFICES ASSUME CInv, [Next]_vars PROVE CInv'
  OBVIOUS
<1>1. IInv /\ IInv'
  BY NextInvariant DEF CInv
<1>2. UNCHANGED <<served, request>> =>
        /\ Question' = Question
        /\ Matching(Question.name)' = Matching(Question.name)
        /\ CurrentDomain(Question.name)' = CurrentDomain(Question.name)
        /\ HandlerPanics' = HandlerPanics
  <2> SUFFICES ASSUME served' = served, request' = request
               PROVE  /\ Question' = Question
                      /\ Matching(Question.name)' = Matching(Question.name)
                      /\ CurrentDomain(Question.name)' = CurrentDomain(Question.name)
                      /\ HandlerPanics' = HandlerPanics
    OBVIOUS
  <2>1. Question' = Question
    BY DEF Question
  <2>2. CurrentDomain(Question.name)' = CurrentDomain(Question.name)
    BY <2>1 DEF CurrentDomain, SelectInSeq
  <2>3. Matching(Question.name)' = Matching(Question.name)
    BY <2>1 DEF Matching
  <2>4. HandlerPanics' = HandlerPanics
    BY <2>1, <2>2, Zenon DEF HandlerPanics
  <2> QED
    BY <2>1, <2>2, <2>3, <2>4
<1>3. CASE ServeFailure \/ ServeNotZone
  BY <1>1, <1>2, <1>3 DEF ServeFailure, ServeNotZone, CInv
<1>4. CASE ServeZone
  <2>1. /\ request.questions # <<>> /\ Match(Question) # <<>>
        /\ zone' = Match(Question) /\ UNCHANGED <<served, request>>
        /\ pc' = IF Question.type \in {"A", "AAAA"} THEN "respond" ELSE "write"
    BY <1>4 DEF ServeZone
  <2>2. Matching(Question.name) # {}
    BY <1>1, <2>1, MatchFacts
  <2> QED
    BY <1>1, <1>2, <2>1, <2>2 DEF CInv
<1>5. CASE RespondToQuestion
  BY <1>1, <1>2, <1>5 DEF RespondToQuestion, CInv
<1>6. CASE FramePanic
  <2>1. /\ pc = "frame" /\ pc' = "crashed" /\ UNCHANGED <<served, request, zone>>
        /\ SlicePanics(Question.name, domain) \/ (~IsEcho(Rest) /\ ParsePanics(Text(Rest)))
    <3>1. SlicePanics(Question.name, domain)
          \/ (Framing /\ ~IsEcho(Rest) /\ ParsePanics(Text(Rest)))
      BY <1>6, Zenon DEF FramePanic
    <3> QED
      BY <1>6, <3>1 DEF FramePanic
  <2>2. HandlerPanics
    BY <2>1 DEF CInv, HandlerPanics, Rest
  <2> QED
    BY <1>1, <1>2, <2>1, <2>2 DEF CInv
<1>7. ASSUME Framing, IsEcho(Rest) \/ ~ParsePanics(Text(Rest)),
             NEW ips, NEW ttl, FrameWith(ips, ttl)
      PROVE  CInv'
  <2>1. ~HandlerPanics
    BY <1>7 DEF Framing, CInv, HandlerPanics, Rest
  <2>2. pc = "frame" /\ pc' = "write" /\ UNCHANGED <<served, request, zone>>
    BY <1>7 DEF Framing, FrameWith
  <2> QED
    BY <1>1, <1>2, <2>1, <2>2 DEF CInv
<1>8. CASE FrameEcho
  BY <1>7, <1>8 DEF FrameEcho
<1>9. CASE FrameNothing
  BY <1>7, <1>9 DEF FrameNothing, Parsing
<1>10. CASE FrameNoop
  BY <1>7, <1>10 DEF FrameNoop, Parsing
<1>11. CASE FrameRoundRobin
  BY <1>7, <1>11 DEF FrameRoundRobin, Parsing
<1>12. CASE FrameFail
  BY <1>7, <1>12 DEF FrameFail, Parsing
<1>13. CASE WriteReply
  BY <1>1, <1>2, <1>13 DEF WriteReply, CInv
<1>14. CASE UNCHANGED vars
  BY <1>1, <1>2, <1>14 DEF vars, CInv
<1> QED
  BY <1>3, <1>4, <1>5, <1>6, <1>8, <1>9, <1>10, <1>11, <1>12, <1>13, <1>14 DEF Next

(* Where the handler finds the domain ServeMux found, it panics on that    *)
(* domain itself and on the names whose first part makes parseIPs panic,   *)
(* and on no other.                                                        *)
THEOREM CrashesAsStated == Spec => []CrashesExactly
<1>1. Init => CInv
  BY InitInvariant DEF Init, CInv
<1>2. CInv => CrashesExactly
  <2> SUFFICES ASSUME CInv, pc \in {"sent", "crashed"}, zone # <<>>,
                      Question.type \in {"A", "AAAA"},
                      NoneHidden, NoneMistaken, SpelledAlike
               PROVE  pc = "crashed" <=>
                        LET rest == Before(Question.name)
                        IN  rest = <<>> \/ Kind[rest[1]] \in {"short", "colon"}
    BY DEF CrashesExactly
  <2>1. IInv /\ request.questions # <<>> /\ Matching(Question.name) # {}
    BY DEF CInv
  <2>2. Covered
    BY <2>1, NameFacts, FoundIsCovering DEF Covered
  <2>3. pc = "crashed" <=> HandlerPanics
    BY DEF CInv
  <2> QED
    BY <2>1, <2>2, <2>3, PanicsWhere
<1> QED
  BY <1>1, <1>2, CrashInvariant, PTL DEF Spec
-----------------------------------------------------------------------------
(* Types.                                                                  *)

LEMMA AddressesTyped ==
  ASSUME NEW s \in Seq(Part)
  PROVE  Addresses(s) \in Seq(Part)
<1> DEFINE S == {p \in Part : IsAddress(p)}
<1>1. Only(s, S) \in Seq(Part \cap S) /\ Part \cap S \subseteq Part
  BY OnlyTyped
<1> QED
  BY <1>1 DEF Addresses

LEMMA SuitableTyped ==
  ASSUME NEW s \in Seq(Part), NEW type
  PROVE  Suitable(s, type) \in Seq(Part)
<1> DEFINE S == {ip \in Part : type = "A" => Kind[ip] = "v4"}
<1>1. Only(s, S) \in Seq(Part \cap S) /\ Part \cap S \subseteq Part
  BY OnlyTyped
<1> QED
  BY <1>1 DEF Suitable

LEMMA ParsedTyped ==
  ASSUME NEW text \in Seq(Part)
  PROVE  Parsed(text) \in Seq(Part)
<1>1. (IF text # <<>> /\ Kind[text[1]] = "bare" THEN Tail(text) ELSE text) \in Seq(Part)
  OBVIOUS
<1> QED
  BY <1>1, AddressesTyped DEF Parsed

LEMMA TextTyped ==
  ASSUME NEW rest \in Seq(Part)
  PROVE  Text(rest) \in Seq(Part)
<1>1. CASE HasCommand(rest)
  <2>1. Len(rest) > 1 /\ Text(rest) = SubSeq(rest, 1, Len(rest) - 1)
    BY <1>1 DEF Text, HasCommand, Front
  <2> QED
    BY <2>1
<1>2. CASE ~HasCommand(rest)
  BY <1>2 DEF Text
<1> QED
  BY <1>1, <1>2

Answer == [type : {"A", "AAAA"}, ip : Part, ttl : {0, ShortTTL, DefaultTTL}]

(* A record for each address that the type can carry.                      *)
LEMMA RecordsFacts ==
  ASSUME NEW ips \in Seq(Part), NEW type \in {"A", "AAAA"},
         NEW ttl \in {0, ShortTTL, DefaultTTL}
  PROVE  LET answers == Records(ips, type, ttl)
         IN  /\ answers \in Seq(Answer)
             /\ [i \in DOMAIN answers |-> answers[i].ip] = Suitable(ips, type)
             /\ answers = <<>> <=> Suitable(ips, type) = <<>>
<1> DEFINE fit     == Suitable(ips, type)
           answers == Records(ips, type, ttl)
           n       == Len(fit)
<1>1. fit \in Seq(Part)
  BY SuitableTyped
<1>2. answers = [i \in DOMAIN fit |-> [type |-> type, ip |-> fit[i], ttl |-> ttl]]
  BY DEF Records
<1> HIDE DEF fit, answers
<1>3. n \in Nat /\ DOMAIN fit = 1 .. n /\ \A i \in 1 .. n : fit[i] \in Part
  BY <1>1
<1> HIDE DEF n
<1>4. DOMAIN answers = 1 .. n
  BY <1>2, <1>3
<1>5. \A i \in 1 .. n : answers[i] \in Answer /\ answers[i].ip = fit[i]
  <2> TAKE i \in 1 .. n
  <2>1. answers[i] = [type |-> type, ip |-> fit[i], ttl |-> ttl]
    BY <1>2, <1>3
  <2> QED
    BY <1>3, <2>1 DEF Answer
<1>6. answers \in Seq(Answer) /\ Len(answers) = n
  <2>1. answers = [i \in 1 .. n |-> answers[i]]
    BY <1>2, <1>4
  <2> QED
    BY <1>3, <1>5, <2>1
<1>7. [i \in DOMAIN answers |-> answers[i].ip] = fit
  <2>1. fit = [i \in 1 .. n |-> fit[i]]
    BY <1>1, <1>3
  <2> QED
    BY <1>4, <1>5, <2>1
<1>8. answers = <<>> <=> fit = <<>>
  <2>1. Len(fit) = n
    BY DEF n
  <2> QED
    BY <1>1, <1>6, <2>1
<1> QED
  BY <1>6, <1>7, <1>8 DEF fit, answers

(* The handler's search finds a domain the name ends in, or none.          *)
LEMMA CurrentEnds ==
  ASSUME IInv, NEW n
  PROVE  \/ CurrentDomain(n) = <<>>
         \/ CurrentDomain(n) \in ToSet(served) /\ HasSuffix(n, CurrentDomain(n))
<1> DEFINE I == {i \in 1 .. Len(served) : HasSuffix(n, served[i])}
<1>1. DOMAIN served = 1 .. Len(served) /\ I \subseteq Nat
  BY InputAssumption DEF IInv
<1>2. CurrentDomain(n) = IF I # {} THEN IF Min(I) = 0 THEN <<>> ELSE served[Min(I)] ELSE <<>>
  BY DEF CurrentDomain, SelectInSeq
<1>3. CASE I = {}
  BY <1>2, <1>3
<1>4. CASE I # {}
  <2>1. PICK i \in I : \A k \in I : i <= k
    BY <1>1, <1>4, LeastNatural
  <2>2. Min(I) \in I
    BY <2>1 DEF Min
  <2>3. CurrentDomain(n) = served[Min(I)]
    BY <1>2, <1>4, <2>2
  <2>4. HasSuffix(n, served[Min(I)]) /\ Min(I) \in DOMAIN served
    BY <1>1, <2>2
  <2> QED
    BY <2>3, <2>4 DEF ToSet
<1> QED
  BY <1>3, <1>4

(* What is left of a name is its beginning, and perhaps the stub of a part. *)
LEMMA RemainderFacts ==
  ASSUME IInv, NEW n \in Seq(Part), \A d \in ToSet(served) : d \in Seq(Part) /\ d # <<>>
  PROVE  LET d    == CurrentDomain(n)
             k    == Len(n) - Len(d)
             rest == Remainder(n, d)
         IN  /\ d \in Seq(Part) /\ k \in 0 .. Len(n) /\ rest \in Seq(Part)
             /\ \A i \in 1 .. k : rest[i] = n[i]
             /\ \/ Len(rest) = k
                \/ /\ Len(rest) = k + 1 /\ k + 1 \in 1 .. Len(n) /\ d \in ToSet(served)
                   /\ <<n[k + 1], d[1]>> \in Ending
                   /\ rest[k + 1] = Stub[<<n[k + 1], d[1]>>]
<1> DEFINE d    == CurrentDomain(n)
           k    == Len(n) - Len(d)
           rest == Remainder(n, d)
<1>0. <<>> \in Seq(Part) /\ Len(<<>>) = 0
  OBVIOUS
<1>1. d = <<>> \/ (d \in ToSet(served) /\ HasSuffix(n, d))
  BY CurrentEnds
<1>2. d \in Seq(Part)
  <2> HIDE DEF d
  <2> QED
    BY <1>0, <1>1
<1>3. rest = IF IsSuffix(d, n) THEN SubSeq(n, 1, k)
             ELSE Append(SubSeq(n, 1, k), Stub[<<n[k + 1], d[1]>>])
  BY DEF Remainder
<1> HIDE DEF d, rest
<1>4. Len(n) \in Nat /\ Len(d) \in Nat
  BY <1>2
<1>5. CASE IsSuffix(d, n)
  <2>1. Len(d) <= Len(n)
    BY <1>2, <1>5, SuffixFacts
  <2>2. k \in 0 .. Len(n)
    BY <1>4, <2>1
  <2>3. rest = SubSeq(n, 1, k)
    BY <1>3, <1>5
  <2>4. rest \in Seq(Part) /\ Len(rest) = k /\ \A i \in 1 .. k : rest[i] = n[i]
    <3> HIDE DEF k
    <3> QED
      BY <2>2, <2>3
  <2> QED
    BY <1>2, <2>2, <2>4 DEF d, rest
<1>6. CASE ~IsSuffix(d, n)
  <2>1. d \in ToSet(served) /\ HasSuffix(n, d)
    <3>1. CASE d = <<>>
      <4>1. Len(d) <= Len(n) /\ \A i \in 1 .. Len(d) : d[i] = n[Len(n) - Len(d) + i]
        BY <1>0, <1>4, <3>1
      <4>2. IsSuffix(d, n)
        BY <1>2, <4>1, SuffixFacts
      <4> QED
        BY <1>6, <4>2
    <3> QED
      BY <1>1, <3>1
  <2>2. Len(d) <= Len(n) /\ <<n[k + 1], d[1]>> \in Ending
    BY <1>6, <2>1 DEF HasSuffix
  <2>3. Len(d) > 0
    BY <1>2, <2>1
  <2>4. k \in 0 .. Len(n) /\ k + 1 \in 1 .. Len(n)
    BY <1>4, <2>2, <2>3
  <2> DEFINE stub == Stub[<<n[k + 1], d[1]>>]
  <2>5. stub \in Part
    BY <2>2, TextAssumption
  <2>6. rest = Append(SubSeq(n, 1, k), stub)
    BY <1>3, <1>6
  <2>7. /\ rest \in Seq(Part) /\ Len(rest) = k + 1 /\ rest[k + 1] = stub
        /\ \A i \in 1 .. k : rest[i] = n[i]
    <3> HIDE DEF k, stub
    <3>1. /\ SubSeq(n, 1, k) \in Seq(Part) /\ Len(SubSeq(n, 1, k)) = k
          /\ \A i \in 1 .. k : SubSeq(n, 1, k)[i] = n[i]
      BY <2>4
    <3> QED
      BY <2>4, <2>5, <2>6, <3>1
  <2> QED
    BY <1>2, <2>1, <2>2, <2>4, <2>7 DEF d, rest
<1> QED
  BY <1>5, <1>6
-----------------------------------------------------------------------------
(* What the handler answers.                                               *)

(* The lists of addresses that the echo reply and the commands are given.  *)
Chosen(ips, rest) ==
  LET found == Parsed(Text(rest))
  IN  \/ IsEcho(rest) /\ ips = <<request.from>>
      \/ /\ ~IsEcho(rest) /\ HasCommand(rest) /\ Kind[Last(rest)] = "rr"
         /\ \E i \in DOMAIN found : ips = <<found[i]>>
      \/ /\ ~IsEcho(rest) /\ HasCommand(rest) /\ Kind[Last(rest)] = "fail"
         /\ Percent[Last(rest)] > 0 /\ ips = <<>>
      \/ /\ ~IsEcho(rest) /\ ips = found
         /\ ~(HasCommand(rest) /\ Kind[Last(rest)] = "rr" /\ found # <<>>)

Handled == Remainder(Question.name, CurrentDomain(Question.name))

AddressQuestion == Question.type \in {"A", "AAAA"}

Framed ==
  IF AddressQuestion
  THEN \E ips \in Seq(Part), ttl \in {0, ShortTTL, DefaultTTL} :
         Chosen(ips, Handled) /\ reply.answers = Records(ips, Question.type, ttl)
  ELSE reply.answers = <<>>

(* The replies under way and those sent say what the handler chose.        *)
KInv ==
  /\ CInv /\ TypeOK
  /\ pc \in {"respond", "frame"} => zone # <<>> /\ AddressQuestion
  /\ pc = "write" => zone # <<>> /\ Framed
  /\ pc = "sent" /\ request.questions # <<>> /\ reply.authoritative =>
       /\ zone # <<>> /\ Framed
       /\ reply.rcode = IF reply.answers = <<>> THEN "NXDOMAIN" ELSE "SUCCESS"

LEMMA HandledTyped ==
  ASSUME IInv, request.questions # <<>>
  PROVE  Handled \in Seq(Part)
<1>1. Question.name \in Seq(Part) /\ \A d \in ToSet(served) : d \in Seq(Part) /\ d # <<>>
  BY NameFacts
<1> QED
  BY <1>1, RemainderFacts DEF Handled

LEMMA SenderTyped ==
  ASSUME TypeOK
  PROVE  request.from \in Part
  BY DEF TypeOK

LEMMA NoReplyTyped ==
  ASSUME NEW r, NEW rcode \in {"SUCCESS", "SERVFAIL", "NOTZONE", "NXDOMAIN"}, NEW b \in BOOLEAN,
         r = [rcode |-> rcode, authoritative |-> b, answers |-> <<>>]
  PROVE  r \in [rcode : {"SUCCESS", "SERVFAIL", "NOTZONE", "NXDOMAIN"},
                authoritative : BOOLEAN, answers : Seq(Answer)]
<1>1. <<>> \in Seq(Answer)
  OBVIOUS
<1> QED
  BY <1>1

LEMMA TypeOKDef ==
  TypeOK <=>
    /\ served \in ServedLists
    /\ request \in [questions : Seq([name : Seq(Part), type : Types]), from : Part]
    /\ zone \in ToSet(served) \cup {<<>>}
    /\ domain \in ToSet(served) \cup {<<>>}
    /\ reply \in [rcode : {"SUCCESS", "SERVFAIL", "NOTZONE", "NXDOMAIN"},
                  authoritative : BOOLEAN, answers : Seq(Answer)]
    /\ pc \in {"dispatch", "respond", "frame", "write", "sent", "crashed"}
  BY DEF TypeOK, Answer

(* What ServeMux finds is a served domain.                                 *)
LEMMA MatchTyped ==
  ASSUME IInv, request.questions # <<>>
  PROVE  Match(Question) \in ToSet(served) \cup {<<>>}
<1>1. Matching(Question.name) # {} => Longest(Matching(Question.name)) \in ToSet(served)
  BY NameFacts, LongestIsOne DEF Matching
<1> QED
  BY <1>1 DEF Match

LEMMA InitHandles == Init => KInv
<1> SUFFICES ASSUME Init PROVE KInv
  OBVIOUS
<1>1. CInv
  BY InitInvariant DEF Init, CInv
<1>2. TypeOK
  <2>1. reply = [rcode |-> "SUCCESS", authoritative |-> FALSE, answers |-> <<>>]
    BY DEF Init, NoReply
  <2>2. reply \in [rcode : {"SUCCESS", "SERVFAIL", "NOTZONE", "NXDOMAIN"},
                   authoritative : BOOLEAN, answers : Seq(Answer)]
    BY <2>1, NoReplyTyped
  <2>3. request \in [questions : Seq([name : Seq(Part), type : Types]), from : Part]
    BY InputAssumption DEF Init
  <2> QED
    BY <2>2, <2>3, TypeOKDef DEF Init
<1> QED
  BY <1>1, <1>2 DEF Init, KInv

LEMMA DispatchHandles ==
  ASSUME KInv, CInv', ServeFailure \/ ServeNotZone \/ ServeZone
  PROVE  KInv'
<1>1. CASE ServeFailure \/ ServeNotZone
  <2>1. /\ reply' = [rcode |-> reply'.rcode, authoritative |-> FALSE, answers |-> <<>>]
        /\ reply'.rcode \in {"SERVFAIL", "NOTZONE"}
        /\ pc' = "sent" /\ UNCHANGED <<served, request, zone, domain>>
    BY <1>1 DEF ServeFailure, ServeNotZone, NoReply
  <2>2. reply' \in [rcode : {"SUCCESS", "SERVFAIL", "NOTZONE", "NXDOMAIN"},
                    authoritative : BOOLEAN, answers : Seq(Answer)]
    BY <2>1, NoReplyTyped
  <2>3. TypeOK'
    BY <2>1, <2>2, TypeOKDef DEF KInv, TypeOK, Answer
  <2> QED
    BY <2>1, <2>3 DEF KInv
<1>2. CASE ServeZone
  <2>1. /\ request.questions # <<>> /\ Match(Question) # <<>>
        /\ zone' = Match(Question) /\ UNCHANGED <<served, request, domain>>
        /\ pc' = IF AddressQuestion THEN "respond" ELSE "write"
        /\ reply' = [rcode |-> "SUCCESS", authoritative |-> TRUE, answers |-> <<>>]
    BY <1>2 DEF ServeZone, AddressQuestion, NoReply
  <2>2. zone' \in ToSet(served) \cup {<<>>}
    BY <2>1, MatchTyped DEF KInv, CInv
  <2>3. reply' \in [rcode : {"SUCCESS", "SERVFAIL", "NOTZONE", "NXDOMAIN"},
                    authoritative : BOOLEAN, answers : Seq(Answer)]
    BY <2>1, NoReplyTyped
  <2>4. TypeOK'
    BY <2>1, <2>2, <2>3 DEF KInv, TypeOK, Answer
  <2>5. AddressQuestion' <=> AddressQuestion
    BY <2>1 DEF AddressQuestion, Question
  <2>6. ~AddressQuestion => Framed'
    BY <2>1, <2>5 DEF Framed
  <2> QED
    BY <2>1, <2>4, <2>5, <2>6 DEF KInv
<1> QED
  BY <1>1, <1>2
(* A handler that has chosen addresses frames their records.               *)
LEMMA FrameHandles ==
  ASSUME KInv, CInv', Framing, NEW ips \in Seq(Part),
         NEW ttl \in {0, ShortTTL, DefaultTTL},
         FrameWith(ips, ttl), Chosen(ips, Rest)
  PROVE  KInv'
<1>1. /\ pc = "frame" /\ pc' = "write" /\ UNCHANGED <<served, request, zone, domain>>
      /\ reply' = [reply EXCEPT !.answers = Records(ips, Question.type, ttl)]
  BY DEF Framing, FrameWith
<1>2. zone # <<>> /\ Question.type \in {"A", "AAAA"} /\ Rest = Handled
  BY <1>1 DEF KInv, CInv, AddressQuestion, Rest, Handled
<1>3. Records(ips, Question.type, ttl) \in Seq(Answer)
  BY <1>2, RecordsFacts
<1>4. reply' \in [rcode : {"SUCCESS", "SERVFAIL", "NOTZONE", "NXDOMAIN"},
                  authoritative : BOOLEAN, answers : Seq(Answer)]
      /\ reply'.answers = Records(ips, Question.type, ttl)
  <2> DEFINE answers == Records(ips, Question.type, ttl)
  <2>1. answers \in Seq(Answer) /\ reply' = [reply EXCEPT !.answers = answers]
    BY <1>1, <1>3
  <2>2. reply \in [rcode : {"SUCCESS", "SERVFAIL", "NOTZONE", "NXDOMAIN"},
                   authoritative : BOOLEAN, answers : Seq(Answer)]
    BY TypeOKDef DEF KInv
  <2> HIDE DEF answers
  <2> QED
    BY <2>1, <2>2 DEF answers
<1>5. TypeOK'
  BY <1>1, <1>4 DEF KInv, TypeOK, Answer
<1>6. /\ AddressQuestion' /\ Question' = Question /\ Handled' = Handled
      /\ Chosen(ips, Handled)'
  <2>1. Question' = Question
    BY <1>1 DEF Question
  <2>2. AddressQuestion'
    BY <1>2, <2>1 DEF AddressQuestion
  <2>3. Handled' = Handled
    BY <1>1, <2>1 DEF Handled, CurrentDomain, SelectInSeq
  <2>4. Chosen(ips, Handled)'
    BY <1>1, <1>2, <2>3 DEF Chosen
  <2> QED
    BY <2>1, <2>2, <2>3, <2>4
<1>7. Framed'
  BY <1>4, <1>6 DEF Framed
<1> QED
  BY <1>1, <1>2, <1>5, <1>7 DEF KInv

LEMMA NextHandles == KInv /\ [Next]_vars => KInv'
<1> SUFFICES ASSUME KInv, [Next]_vars PROVE KInv'
  OBVIOUS
<1>1. CInv'
  BY CrashInvariant DEF KInv
<1>2. IInv /\ TypeOK /\ request.from \in Part
  BY SenderTyped DEF KInv, CInv
<1>3. CASE ServeFailure \/ ServeNotZone \/ ServeZone
  BY <1>1, <1>3, DispatchHandles
<1>4. CASE RespondToQuestion
  <2>1. /\ domain' = CurrentDomain(Question.name) /\ pc = "respond" /\ pc' = "frame"
        /\ UNCHANGED <<served, request, zone, reply>>
    BY <1>4 DEF RespondToQuestion
  <2>2. domain' \in ToSet(served) \cup {<<>>}
    BY <1>2, <2>1, CurrentEnds
  <2>3. TypeOK'
    BY <1>2, <2>1, <2>2 DEF TypeOK
  <2>4. AddressQuestion'
    BY <2>1 DEF KInv, AddressQuestion, Question
  <2> QED
    BY <1>1, <2>1, <2>3, <2>4 DEF KInv
<1>5. CASE FramePanic
  <2>1. TypeOK'
    BY <1>2, <1>5 DEF FramePanic, TypeOK
  <2> QED
    BY <1>1, <1>5, <2>1 DEF FramePanic, KInv
<1> DEFINE found == Parsed(Text(Rest))
<1>6. pc = "frame" => found \in Seq(Part) /\ Rest \in Seq(Part)
  <2> SUFFICES ASSUME pc = "frame" PROVE found \in Seq(Part) /\ Rest \in Seq(Part)
    OBVIOUS
  <2>1. request.questions # <<>> /\ Rest = Handled
    BY DEF KInv, CInv, IInv, Rest, Handled
  <2>2. Rest \in Seq(Part)
    BY <1>2, <2>1, HandledTyped
  <2> QED
    BY <2>2, TextTyped, ParsedTyped
<1> HIDE DEF found
<1>7. CASE FrameEcho
  <2>1. Framing /\ IsEcho(Rest) /\ FrameWith(<<request.from>>, 0)
    BY <1>7 DEF FrameEcho
  <2>2. <<request.from>> \in Seq(Part) /\ Chosen(<<request.from>>, Rest)
    BY <1>2, <2>1 DEF Chosen
  <2> QED
    BY <1>1, <2>1, <2>2, FrameHandles
<1>8. CASE FrameNothing
  <2>1. Framing /\ ~IsEcho(Rest) /\ found = <<>> /\ FrameWith(<<>>, 0)
    BY <1>8 DEF FrameNothing, Parsing, found
  <2>2. <<>> \in Seq(Part) /\ Chosen(<<>>, Rest)
    BY <2>1 DEF Chosen, found
  <2> QED
    BY <1>1, <2>1, <2>2, FrameHandles
<1>9. CASE FrameNoop
  <2>1. Framing /\ ~IsEcho(Rest) /\ ~HasCommand(Rest) /\ FrameWith(found, DefaultTTL)
    BY <1>9 DEF FrameNoop, Parsing, found
  <2>2. found \in Seq(Part) /\ Chosen(found, Rest)
    BY <1>6, <2>1 DEF Chosen, found, Framing
  <2> QED
    BY <1>1, <2>1, <2>2, FrameHandles
<1>10. CASE FrameRoundRobin
  <2>1. /\ Framing /\ ~IsEcho(Rest) /\ HasCommand(Rest) /\ Kind[Last(Rest)] = "rr"
        /\ \E i \in DOMAIN found, ttl \in {ShortTTL, DefaultTTL} :
             FrameWith(<<found[i]>>, ttl)
    BY <1>10 DEF FrameRoundRobin, Parsing, found
  <2>2. PICK i \in DOMAIN found, ttl \in {ShortTTL, DefaultTTL} : FrameWith(<<found[i]>>, ttl)
    BY <2>1
  <2>3. found[i] \in Part
    BY <1>6, <2>1 DEF Framing
  <2>4. <<found[i]>> \in Seq(Part) /\ Chosen(<<found[i]>>, Rest)
    BY <2>1, <2>3 DEF Chosen, found
  <2> QED
    BY <1>1, <2>1, <2>2, <2>4, FrameHandles
<1>11. CASE FrameFail
  <2>1. /\ Framing /\ ~IsEcho(Rest) /\ HasCommand(Rest) /\ Kind[Last(Rest)] = "fail"
        /\ \/ Percent[Last(Rest)] > 0 /\ FrameWith(<<>>, ShortTTL)
           \/ FrameWith(found, DefaultTTL)
    BY <1>11 DEF FrameFail, Parsing, Fails, found
  <2>2. <<>> \in Seq(Part) /\ found \in Seq(Part)
    BY <1>6, <2>1 DEF Framing
  <2>3. Chosen(found, Rest) /\ (Percent[Last(Rest)] > 0 => Chosen(<<>>, Rest))
    BY <2>1 DEF Chosen, found
  <2> QED
    BY <1>1, <2>1, <2>2, <2>3, FrameHandles
<1>12. ASSUME UNCHANGED <<served, request, zone, domain>>, reply'.answers = reply.answers
       PROVE  Framed' <=> Framed
  <2>1. Question' = Question
    BY <1>12 DEF Question
  <2>2. Handled' = Handled
    BY <1>12, <2>1 DEF Handled, CurrentDomain, SelectInSeq
  <2> QED
    BY <1>12, <2>1, <2>2 DEF Framed, AddressQuestion, Chosen
<1>13. CASE WriteReply
  <2>1. /\ pc = "write" /\ pc' = "sent" /\ UNCHANGED <<served, request, zone, domain>>
        /\ reply' = IF reply.answers = <<>> THEN [reply EXCEPT !.rcode = "NXDOMAIN"]
                    ELSE reply
    BY <1>13 DEF WriteReply
  <2>2. reply \in [rcode : {"SUCCESS", "SERVFAIL", "NOTZONE", "NXDOMAIN"},
                   authoritative : BOOLEAN, answers : Seq(Answer)]
        /\ reply.rcode = "SUCCESS"
    BY <1>2, <2>1, TypeOKDef DEF IInv, Zoned
  <2>3. /\ reply'.answers = reply.answers
        /\ reply'.rcode = IF reply.answers = <<>> THEN "NXDOMAIN" ELSE "SUCCESS"
        /\ reply' \in [rcode : {"SUCCESS", "SERVFAIL", "NOTZONE", "NXDOMAIN"},
                      authoritative : BOOLEAN, answers : Seq(Answer)]
    BY <2>1, <2>2
  <2>4. TypeOK'
    BY <1>2, <2>1, <2>3 DEF TypeOK, Answer
  <2>5. zone # <<>> /\ Framed'
    BY <1>12, <2>1, <2>3 DEF KInv
  <2> QED
    BY <1>1, <2>1, <2>3, <2>4, <2>5 DEF KInv
<1>14. CASE UNCHANGED vars
  <2>1. Framed' <=> Framed
    BY <1>12, <1>14 DEF vars
  <2>2. TypeOK'
    BY <1>2, <1>14 DEF vars, TypeOK
  <2> QED
    BY <1>1, <1>14, <2>1, <2>2 DEF vars, KInv, AddressQuestion, Question
<1> QED
  BY <1>3, <1>4, <1>5, <1>7, <1>8, <1>9, <1>10, <1>11, <1>13, <1>14 DEF Next

THEOREM Handles == Spec => []KInv
BY InitHandles, NextHandles, PTL DEF Spec

(* The variables stay in their types: the domains found are served ones,   *)
(* and the answers records of addresses.                                   *)
THEOREM TypeCorrect == Spec => []TypeOK
<1>1. KInv => TypeOK
  BY DEF KInv
<1> QED
  BY <1>1, Handles, PTL
-----------------------------------------------------------------------------
(* What a handler chooses is what the parts before the domain promise.     *)

(* Nothing is lost with the command that is cut off, nor with what a text  *)
(* holds behind the parts it starts with, if no address is there.          *)
LEMMA SameAddresses ==
  ASSUME NEW s \in Seq(Part), NEW t \in Seq(Part), Len(t) <= Len(s),
         \A i \in 1 .. Len(t) : t[i] = s[i],
         \A i \in Len(t) + 1 .. Len(s) : ~IsAddress(s[i])
  PROVE  Addresses(s) = Addresses(t)
<1> DEFINE S == {p \in Part : IsAddress(p)}
<1>1. \A i \in Len(t) + 1 .. Len(s) : s[i] \notin S
  OBVIOUS
<1> HIDE DEF S
<1>2. Only(s, S) = Only(t, S)
  BY <1>1, OnlyPrefix
<1> QED
  BY <1>2 DEF Addresses, S

LEMMA ReadsRest ==
  ASSUME NEW rest \in Seq(Part), rest = <<>> \/ Kind[rest[1]] # "bare"
  PROVE  Parsed(Text(rest)) = Addresses(rest)
<1>1. CASE HasCommand(rest)
  <2> DEFINE n == Len(rest)
             t == SubSeq(rest, 1, n - 1)
  <2>1. n > 1 /\ n \in Nat /\ Text(rest) = t /\ ~IsAddress(rest[n])
    <3>1. Len(rest) > 1 /\ Text(rest) = SubSeq(rest, 1, Len(rest) - 1)
          /\ Kind[rest[Len(rest)]] \in {"rr", "fail"}
      BY <1>1 DEF Text, HasCommand, Front, Last
    <3> QED
      BY <3>1 DEF IsAddress
  <2>2. t \in Seq(Part) /\ Len(t) = n - 1 /\ \A i \in 1 .. n - 1 : t[i] = rest[i]
    BY <2>1
  <2>3. \A i \in Len(t) + 1 .. n : i = n
    BY <2>1, <2>2
  <2> HIDE DEF t
  <2>4. Addresses(rest) = Addresses(t)
    BY <2>1, <2>2, <2>3, SameAddresses
  <2>5. Kind[t[1]] # "bare"
    <3>1. t[1] = rest[1] /\ rest # <<>>
      BY <2>1, <2>2
    <3> QED
      BY <3>1
  <2> QED
    BY <2>1, <2>4, <2>5 DEF Parsed
<1>2. CASE ~HasCommand(rest)
  BY <1>2 DEF Text, Parsed
<1> QED
  BY <1>1, <1>2

(* What is chosen for the parts before the domain themselves.              *)
LEMMA ChosenFromRest ==
  ASSUME NEW rest \in Seq(Part), rest = <<>> \/ Kind[rest[1]] # "bare",
         NEW ips, Chosen(ips, rest)
  PROVE  ips \in PromisedIPs(rest, request.from)
<1> DEFINE found == Addresses(rest)
<1>1. Parsed(Text(rest)) = found
  BY ReadsRest
<1> HIDE DEF found
<1>2. IsEcho(rest) => ~HasCommand(rest)
  BY DEF IsEcho, HasCommand
<1>3. CASE IsEcho(rest)
  <2>1. ips = <<request.from>>
    BY <1>3 DEF Chosen
  <2> QED
    BY <1>2, <1>3, <2>1 DEF PromisedIPs
<1>4. CASE ~IsEcho(rest) /\ HasCommand(rest) /\ Kind[Last(rest)] = "rr" /\ found # <<>>
  <2>1. \E i \in DOMAIN found : ips = <<found[i]>>
    BY <1>1, <1>4 DEF Chosen
  <2>2. ips \in {<<ip>> : ip \in ToSet(found)}
    BY <2>1 DEF ToSet
  <2> QED
    BY <1>4, <2>2 DEF PromisedIPs, found
<1>5. CASE /\ ~IsEcho(rest) /\ HasCommand(rest) /\ Kind[Last(rest)] = "fail"
           /\ Percent[Last(rest)] > 0
  <2>1. ips \in {found, <<>>}
    BY <1>1, <1>5 DEF Chosen
  <2> QED
    BY <1>5, <2>1 DEF PromisedIPs, found
<1>6. CASE /\ ~IsEcho(rest)
           /\ ~(HasCommand(rest) /\ Kind[Last(rest)] = "rr" /\ found # <<>>)
           /\ ~(/\ HasCommand(rest) /\ Kind[Last(rest)] = "fail"
                /\ Percent[Last(rest)] > 0)
  <2>1. ips = found
    BY <1>1, <1>6 DEF Chosen
  <2> QED
    BY <1>6, <2>1 DEF PromisedIPs, found
<1> QED
  BY <1>3, <1>4, <1>5, <1>6

(* What is chosen for more than them, if the rest says nothing.            *)
LEMMA ChosenFromMore ==
  ASSUME NEW rest \in Seq(Part), NEW before \in Seq(Part), Len(before) < Len(rest),
         \A i \in 1 .. Len(before) : before[i] = rest[i],
         \A i \in Len(before) + 1 .. Len(rest) : ~Telling(rest[i]),
         before = <<>> \/ Kind[before[1]] # "bare",
         ~IsEcho(before), ~HasCommand(before),
         NEW ips, Chosen(ips, rest)
  PROVE  ips \in PromisedIPs(before, request.from)
<1>1. Len(rest) \in Nat /\ Len(before) \in Nat /\ Len(rest) > 0
  OBVIOUS
<1>2. ~Telling(rest[Len(rest)])
  BY <1>1
<1>3. ~IsEcho(rest) /\ ~HasCommand(rest)
  BY <1>2 DEF IsEcho, HasCommand, Telling, Last
<1>4. Kind[rest[1]] # "bare"
  <2>1. CASE before = <<>>
    <3>1. ~Telling(rest[1])
      BY <1>1, <2>1
    <3> QED
      BY <3>1 DEF Telling, IsAddress
  <2>2. CASE before # <<>>
    <3>1. before[1] = rest[1]
      BY <1>1, <2>2
    <3> QED
      BY <2>2, <3>1
  <2> QED
    BY <2>1, <2>2
<1>5. Addresses(rest) = Addresses(before)
  <2>1. \A i \in Len(before) + 1 .. Len(rest) : ~IsAddress(rest[i])
    BY DEF Telling
  <2> QED
    BY <2>1, SameAddresses
<1>6. ips = Addresses(before)
  <2>1. ips = Parsed(Text(rest))
    BY <1>3 DEF Chosen
  <2> QED
    BY <1>4, <1>5, <2>1, ReadsRest
<1> QED
  BY <1>6 DEF PromisedIPs

LEMMA PromisesSomething ==
  ASSUME NEW rest \in Seq(Part)
  PROVE  \E ips : ips \in PromisedIPs(rest, request.from)
<1> DEFINE found == Addresses(rest)
<1>1. found \in Seq(Part)
  BY AddressesTyped
<1> HIDE DEF found
<1>2. CASE IsEcho(rest)
  <2>1. <<request.from>> \in PromisedIPs(rest, request.from)
    BY <1>2 DEF PromisedIPs, IsEcho, HasCommand
  <2> QED
    BY <2>1
<1>3. CASE ~IsEcho(rest) /\ HasCommand(rest) /\ Kind[Last(rest)] = "rr" /\ found # <<>>
  <2>1. 1 \in DOMAIN found
    BY <1>1, <1>3
  <2>2. <<found[1]>> \in {<<ip>> : ip \in ToSet(found)}
    BY <2>1 DEF ToSet
  <2>3. <<found[1]>> \in PromisedIPs(rest, request.from)
    BY <1>3, <2>2 DEF PromisedIPs, found
  <2> QED
    BY <2>3
<1>4. CASE ~IsEcho(rest) /\ ~(HasCommand(rest) /\ Kind[Last(rest)] = "rr" /\ found # <<>>)
  <2>1. found \in PromisedIPs(rest, request.from)
    BY <1>4 DEF PromisedIPs, found
  <2> QED
    BY <2>1
<1> QED
  BY <1>2, <1>3, <1>4

(* Where the name is spelled as the domain is, what is left of it is what  *)
(* comes before the domain.                                                *)
LEMMA BeforeIsHandled ==
  ASSUME IInv, request.questions # <<>>, Covered,
         NoneHidden, NoneMistaken, SpelledAlike
  PROVE  Handled = Before(Question.name)
<1> DEFINE n == Question.name
           l == Longest(Covering(n))
<1>1. CurrentDomain(n) = l
  BY FindsCovering
<1>2. IsSuffix(l, n)
  BY DEF Covered, SpelledAlike
<1> QED
  BY <1>1, <1>2 DEF Handled, Remainder, Before

(* Where it is not, what is left of it starts with what comes before the   *)
(* domain, and goes on with parts of the domain.                           *)
LEMMA BeforeStartsHandled ==
  ASSUME IInv, request.questions # <<>>, Covered, NoneMistaken, ~TellingDomain
  PROVE  LET before == Before(Question.name)
         IN  /\ before \in Seq(Part) /\ Handled \in Seq(Part)
             /\ Len(before) <= Len(Handled)
             /\ \A i \in 1 .. Len(before) : before[i] = Handled[i]
             /\ \A i \in Len(before) + 1 .. Len(Handled) : ~Telling(Handled[i])
<1> DEFINE n      == Question.name
           l      == Longest(Covering(n))
           d      == CurrentDomain(n)
           k      == Len(n) - Len(d)
           m      == Len(n) - Len(l)
           before == Before(n)
           rest   == Handled
<1>1. n \in Seq(Part) /\ \A e \in ToSet(served) : e \in Seq(Part) /\ e # <<>>
  BY NameFacts
<1>2. l \in Seq(Part) /\ l \in Covering(n) /\ Len(l) <= Len(n)
  <2>1. \A e \in Covering(n) : e \in Seq(Part) /\ Len(e) <= Len(n)
    <3> TAKE e \in Covering(n)
    <3>1. e \in Seq(Part) /\ IsSuffix(Lower(e), Lower(n))
      BY <1>1 DEF Covering
    <3>2. Lower(e) \in Seq(Part) /\ Len(Lower(e)) = Len(e)
          /\ Lower(n) \in Seq(Part) /\ Len(Lower(n)) = Len(n)
      BY <1>1, <3>1, LowerFacts
    <3> QED
      BY <3>1, <3>2, SuffixFacts
  <2>2. l \in Covering(n)
    BY <1>1, <2>1, LongestFacts DEF Covered
  <2> QED
    BY <2>1, <2>2
<1>3. /\ d \in Seq(Part) /\ k \in 0 .. Len(n) /\ rest \in Seq(Part)
      /\ \A i \in 1 .. k : rest[i] = n[i]
      /\ \/ Len(rest) = k
         \/ /\ Len(rest) = k + 1 /\ k + 1 \in 1 .. Len(n) /\ d \in ToSet(served)
            /\ <<n[k + 1], d[1]>> \in Ending
            /\ rest[k + 1] = Stub[<<n[k + 1], d[1]>>]
  BY <1>1, RemainderFacts DEF Handled
<1>4. Len(d) <= Len(l)
  <2>1. CASE d = <<>>
    BY <1>2, <2>1
  <2>2. CASE d # <<>>
    <3>1. d \in ToSet(served) /\ HasSuffix(n, d)
      BY <2>2, CurrentEnds
    <3>2. ~(Len(d) > Len(l))
      BY <3>1 DEF NoneMistaken
    <3> QED
      BY <1>2, <1>3, <3>2
  <2> QED
    BY <2>1, <2>2
<1>5. \A i \in m + 1 .. Len(n) :
        /\ ~Telling(n[i])
        /\ \A e \in ToSet(served) : <<n[i], e[1]>> \in Ending => ~Telling(Stub[<<n[i], e[1]>>])
  <2>1. before = SubSeq(n, 1, m)
    BY DEF Before
  <2>2. m \in 0 .. Len(n) /\ n \in Seq(Part)
    <3> HIDE DEF n, l
    <3>1. Len(n) \in Nat /\ Len(l) \in Nat
      BY <1>1, <1>2
    <3> QED
      BY <1>1, <1>2, <3>1
  <2>3. Len(before) = m
    <3> HIDE DEF before, m, n
    <3> QED
      BY <2>1, <2>2
  <2> QED
    BY <2>3 DEF TellingDomain
<1>6. before = SubSeq(n, 1, m)
  BY DEF Before
<1> HIDE DEF n, l, d, before, rest
<1>7. /\ Len(n) \in Nat /\ m \in 0 .. Len(n) /\ m <= k
      /\ Len(rest) \in {k, k + 1}
  BY <1>1, <1>2, <1>3, <1>4
<1> HIDE DEF m, k
<1>8. before \in Seq(Part) /\ Len(before) = m /\ \A i \in 1 .. m : before[i] = n[i]
  BY <1>1, <1>6, <1>7
<1>9. \A i \in 1 .. m : before[i] = rest[i]
  BY <1>3, <1>7, <1>8
<1>10. ASSUME NEW i \in m + 1 .. Len(rest)
       PROVE  ~Telling(rest[i])
  <2>1. CASE i <= k
    <3>1. i \in 1 .. k /\ i \in m + 1 .. Len(n)
      BY <1>3, <1>7, <2>1
    <3> QED
      BY <1>3, <1>5, <3>1
  <2>2. CASE i > k
    <3>1. i = k + 1 /\ k + 1 \in m + 1 .. Len(n) /\ d \in ToSet(served)
          /\ <<n[k + 1], d[1]>> \in Ending
          /\ rest[k + 1] = Stub[<<n[k + 1], d[1]>>]
      BY <1>3, <1>7, <2>2
    <3> QED
      BY <1>5, <3>1
  <2> QED
    BY <1>3, <1>7, <2>1, <2>2
<1>11. Len(before) <= Len(rest)
  BY <1>3, <1>7, <1>8
<1> QED
  BY <1>3, <1>8, <1>9, <1>10, <1>11 DEF n, before, rest

LEMMA ChosenIsPromised ==
  ASSUME KInv, request.questions # <<>>, Covered, ~BareFirst,
         NoneHidden, NoneMistaken, SpelledAlike \/ ~Special,
         NEW ips, Chosen(ips, Handled)
  PROVE  ips \in PromisedIPs(Before(Question.name), request.from)
<1> DEFINE before == Before(Question.name)
<1>1. IInv
  BY DEF KInv, CInv
<1>2. before = <<>> \/ Kind[before[1]] # "bare"
  BY DEF BareFirst
<1>3. CASE SpelledAlike
  <2>1. Handled = before
    BY <1>1, <1>3, BeforeIsHandled
  <2>2. Handled \in Seq(Part)
    BY <1>1, HandledTyped
  <2> HIDE DEF before
  <2>3. ips \in PromisedIPs(before, request.from)
    BY <1>2, <2>1, <2>2, ChosenFromRest
  <2> QED
    BY <2>3 DEF before
<1>4. CASE ~Special
  <2>1. ~IsEcho(before) /\ ~HasCommand(before) /\ ~TellingDomain
    BY <1>4 DEF Special
  <2>2. /\ before \in Seq(Part) /\ Handled \in Seq(Part)
        /\ Len(before) <= Len(Handled)
        /\ \A i \in 1 .. Len(before) : before[i] = Handled[i]
        /\ \A i \in Len(before) + 1 .. Len(Handled) : ~Telling(Handled[i])
    BY <1>1, <2>1, BeforeStartsHandled
  <2> HIDE DEF before
  <2>3. CASE Len(before) = Len(Handled)
    <3>1. before = Handled
      BY <2>2, <2>3, SameElements
    <3>2. ips \in PromisedIPs(before, request.from)
      BY <1>2, <2>2, <3>1, ChosenFromRest
    <3> QED
      BY <3>2 DEF before
  <2>4. CASE Len(before) # Len(Handled)
    <3>1. Len(before) < Len(Handled)
      BY <2>2, <2>4
    <3>2. ips \in PromisedIPs(before, request.from)
      BY <1>2, <2>1, <2>2, <3>1, ChosenFromMore
    <3> QED
      BY <3>2 DEF before
  <2> QED
    BY <2>3, <2>4
<1> QED
  BY <1>3, <1>4

(* Where the mux and the handler agree on the domain, the reply holds the  *)
(* addresses of the name before it: all that suit the type, in order, one  *)
(* of them for rr, all or none for fNN, the client's for echo.             *)
THEOREM PromiseIsKept == Spec => []KeepsPromise
<1>1. KInv => KeepsPromise
  <2> SUFFICES ASSUME KInv, Asked, Question.type # "DS",
                      ServedLowerCased, NoneHidden, NoneMistaken, ~BareFirst,
                      SpelledAlike \/ ~Special
               PROVE  Kept
    BY DEF KeepsPromise
  <2>1. IInv /\ pc = "sent" /\ request.questions # <<>>
    BY DEF KInv, CInv, Asked
  <2>2. Question.name \in Seq(Part) /\ \A d \in ToSet(served) : d \in Seq(Part)
    BY <2>1, NameFacts
  <2>3. Matching(Question.name) = Covering(Question.name)
    <3>1. Matching(Question.name) = {d \in Covering(Question.name) : Lower(d) = d}
      BY <2>2, FoundIsCovering
    <3> QED
      BY <3>1 DEF ServedLowerCased, Covering
  <2>4. CASE Covering(Question.name) = {}
    <3>1. reply = [NoReply EXCEPT !.rcode = "NOTZONE"]
      BY <2>1, <2>3, <2>4 DEF IInv, Zoned
    <3> QED
      BY <2>4, <3>1 DEF Kept
  <2>5. CASE Covering(Question.name) # {}
    <3> DEFINE rest == Before(Question.name)
    <3>1. Covered
      BY <2>5 DEF Covered
    <3>2. Match(Question) # <<>>
      BY <2>1, <2>3, <2>5, MatchFacts
    <3>3. reply.authoritative
      BY <2>1, <3>2 DEF IInv, Zoned
    <3>4. /\ Framed
          /\ reply.rcode = IF reply.answers = <<>> THEN "NXDOMAIN" ELSE "SUCCESS"
      BY <2>1, <3>3 DEF KInv
    <3>5. CASE AddressQuestion
      <4>1. PICK ips \in Seq(Part), ttl \in {0, ShortTTL, DefaultTTL} :
              Chosen(ips, Handled) /\ reply.answers = Records(ips, Question.type, ttl)
        BY <3>4, <3>5 DEF Framed
      <4>2. ips \in PromisedIPs(rest, request.from)
        BY <2>1, <3>1, <4>1, ChosenIsPromised
      <4> DEFINE fit == Suitable(ips, Question.type)
      <4>3. /\ [i \in DOMAIN reply.answers |-> reply.answers[i].ip] = fit
            /\ reply.answers = <<>> <=> fit = <<>>
        <5> DEFINE type == Question.type
                   answers == Records(ips, type, ttl)
        <5>1. type \in {"A", "AAAA"} /\ reply.answers = answers
          BY <3>5, <4>1 DEF AddressQuestion
        <5> HIDE DEF type
        <5>2. /\ [i \in DOMAIN answers |-> answers[i].ip] = Suitable(ips, type)
              /\ answers = <<>> <=> Suitable(ips, type) = <<>>
          BY <4>1, <5>1, RecordsFacts
        <5> HIDE DEF answers
        <5> QED
          BY <5>1, <5>2, Zenon DEF type
      <4>4. reply.rcode = IF fit = <<>> THEN "NXDOMAIN" ELSE "SUCCESS"
        BY <3>4, <4>3
      <4> HIDE DEF fit, rest
      <4>5. \E x \in PromisedIPs(rest, request.from) :
              LET answered == IF Question.type \in {"A", "AAAA"}
                              THEN Suitable(x, Question.type) ELSE <<>>
              IN  /\ [i \in DOMAIN reply.answers |-> reply.answers[i].ip] = answered
                  /\ reply.rcode = IF answered = <<>> THEN "NXDOMAIN" ELSE "SUCCESS"
        <5>1. (IF Question.type \in {"A", "AAAA"}
               THEN Suitable(ips, Question.type) ELSE <<>>) = fit
          BY <3>5 DEF AddressQuestion, fit
        <5> QED
          BY <4>2, <4>3, <4>4, <5>1, Zenon
      <4> QED
        BY <2>5, <3>3, <4>5, Zenon DEF Kept, rest
    <3>6. CASE ~AddressQuestion
      <4>1. reply.answers = <<>> /\ reply.rcode = "NXDOMAIN"
        BY <3>4, <3>6 DEF Framed
      <4>2. [i \in DOMAIN reply.answers |-> reply.answers[i].ip] = <<>>
        <5>1. [i \in DOMAIN <<>> |-> reply.answers[i].ip] = <<>>
          OBVIOUS
        <5> QED
          BY <4>1, <5>1
      <4>3. rest \in Seq(Part)
        <5>1. Longest(Covering(Question.name)) \in Seq(Part)
          BY <2>2, <2>5, CoveringFacts
        <5> QED
          BY <2>2, <5>1 DEF Before
      <4>4. PICK ips : ips \in PromisedIPs(rest, request.from)
        BY <4>3, PromisesSomething
      <4> HIDE DEF rest
      <4>5. \E x \in PromisedIPs(rest, request.from) :
              LET answered == IF Question.type \in {"A", "AAAA"}
                              THEN Suitable(x, Question.type) ELSE <<>>
              IN  /\ [i \in DOMAIN reply.answers |-> reply.answers[i].ip] = answered
                  /\ reply.rcode = IF answered = <<>> THEN "NXDOMAIN" ELSE "SUCCESS"
        BY <3>6, <4>1, <4>2, <4>4 DEF AddressQuestion
      <4> QED
        BY <2>5, <3>3, <4>5, Zenon DEF Kept, rest
    <3> QED
      BY <3>5, <3>6
  <2> QED
    BY <2>4, <2>5
<1> QED
  BY <1>1, Handles, PTL
=============================================================================
