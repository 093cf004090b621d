------------------------------- MODULE Resolve -------------------------------
(***************************************************************************)
(* One DNS message through gyip: ServeMux picks a handler, handleQuestions *)
(* picks the served domain again, frames the records and writes the reply. *)
(* Nothing of it is shared with other messages but what main set up before *)
(* the first one, so the module follows a single message.                  *)
(*                                                                         *)
(* A name is the sequence of its parts, see NameParts.                     *)
(***************************************************************************)
EXTENDS NameParts

CONSTANTS
  Fold,         \* Fold[p] is p in lower case
  Percent,      \* Percent[p]: the number of an "fNN" part
  Ending,       \* the pairs <<p, r>>, p # r, where the text of p ends in r's
  Stub,         \* Stub[<<p, r>>]: what is left of p without r and one character
  ServedLists,  \* the lists splitDomains may return
  Requests      \* the messages: [questions: Seq([name, type]), from: Part]

Types == {"A", "AAAA", "DS", "other"}

ASSUME TextAssumption ==
  /\ Fold \in [Part -> Part]
  /\ \A p \in Part : Kind[Fold[p]] = Kind[p] /\ Fold[Fold[p]] = Fold[p]
  /\ Percent \in [{p \in Part : Kind[p] = "fail"} -> Int]
  /\ Ending \subseteq Part \X Part
  /\ Stub \in [Ending -> Part]

ASSUME InputAssumption ==
  /\ \A l \in ServedLists : l # <<>> /\ l \in Seq(Seq(Part) \ {<<>>})
  /\ \A r \in Requests :
       /\ r \in [questions : Seq([name : Seq(Part), type : Types]), from : Part]
       /\ Kind[r.from] \in {"v4", "v6"}

VARIABLES
  served,       \* servingDomains
  request,      \* the message received
  zone,         \* the pattern ServeMux matched, <<>> for "."
  domain,       \* currentQuestionDomain, <<>> for ""
  reply,        \* the message written: [rcode, authoritative, answers]
  pc

vars == <<served, request, zone, domain, reply, pc>>

-----------------------------------------------------------------------------
(* What the code computes from a name.                                     *)

Lower(n) == [i \in DOMAIN n |-> Fold[n[i]]]

(* The registered patterns that match walks into: ServeMux folds the name  *)
(* of the question but looks a pattern up as it was registered.            *)
Matching(n) == {d \in ToSet(served) : IsSuffix(d, Lower(n))}

Longest(S) == CHOOSE d \in S : \A e \in S : Len(e) <= Len(d)

(* Mutant: a served domain answers for the names that nothing matches. *)
MatchNoRoot(q) == IF Matching(q.name) = {}
                  THEN served[1]
                  ELSE Longest(Matching(q.name))

(* The walk meets longer patterns first; a DS question walks on to ".",    *)
(* which main always registers.                                            *)
Match(q) == IF q.type = "DS" \/ Matching(q.name) = {}
            THEN <<>>
            ELSE Longest(Matching(q.name))

(* strings.HasSuffix looks at characters, not at labels. *)
HasSuffix(n, d) ==
  \/ IsSuffix(d, n)
  \/ /\ Len(d) <= Len(n)
     /\ IsSuffix(Tail(d), n)
     /\ <<n[Len(n) - Len(d) + 1], d[1]>> \in Ending

(* The first served domain the name ends in, or "". *)
CurrentDomain(n) ==
  LET i == SelectInSeq(served, LAMBDA d : HasSuffix(n, d))
  IN  IF i = 0 THEN <<>> ELSE served[i]

(* The name without the domain and the character before it.  For "" that   *)
(* character is the trailing dot.  At the apex there is none: the slice    *)
(* [0:-1] panics.                                                          *)
SlicePanics(n, d) == n = d

(* Mutant: a part more is cut off. *)
RemainderTooShort(n, d) == SubSeq(n, 1, Len(n) - Len(d) - 1)

Remainder(n, d) ==
  LET k == Len(n) - Len(d)
  IN  IF IsSuffix(d, n)
      THEN SubSeq(n, 1, k)
      ELSE Append(SubSeq(n, 1, k), Stub[<<n[k + 1], d[1]>>])

IsEcho(rest) == Len(rest) = 1 /\ Kind[rest[1]] = "echo"

HasCommand(rest) == Len(rest) > 1 /\ Kind[Last(rest)] \in {"rr", "fail"}

(* The text parseIPs is given: the command is cut off. *)
Text(rest) == IF HasCommand(rest) THEN Front(rest) ELSE rest

(* The records of frameResponse: an A record needs an IPv4 address, an     *)
(* AAAA record takes either kind.                                          *)
Suitable(ips, type) == Only(ips, {ip \in Part : type = "A" => Kind[ip] = "v4"})

Records(ips, type, ttl) ==
  LET fit == Suitable(ips, type)
  IN  [i \in DOMAIN fit |-> [type |-> type, ip |-> fit[i], ttl |-> ttl]]

DefaultTTL == 43200
ShortTTL   == 10

(* Mutant: a percentage of 0 is not treated apart. *)
FailsAtZero(percent, roll) == roll <= percent

(* Fail.Execute fails the rolls, out of 0 .. 99, up to the percentage. *)
Fails(percent, roll) == percent > 0 /\ roll <= percent

-----------------------------------------------------------------------------
NoReply == [rcode |-> "SUCCESS", authoritative |-> FALSE, answers |-> <<>>]

Init ==
  /\ served \in ServedLists
  /\ request \in Requests
  /\ zone = <<>>
  /\ domain = <<>>
  /\ reply = NoReply
  /\ pc = "dispatch"

(* SetReply copies the first question only, and the loop of handleQuestions *)
(* runs over the copy: there is one question to handle.                     *)
Question == request.questions[1]

(* ServeDNS without a question: HandleFailed. *)
ServeFailure ==
  /\ pc = "dispatch"
  /\ request.questions = <<>>
  /\ reply' = [NoReply EXCEPT !.rcode = "SERVFAIL"]
  /\ pc' = "sent"
  /\ UNCHANGED <<served, request, zone, domain>>

(* ServeDNS finds no served domain: the handler main registers for ".". *)
ServeNotZone ==
  /\ pc = "dispatch"
  /\ request.questions # <<>>
  /\ Match(Question) = <<>>
  /\ reply' = [NoReply EXCEPT !.rcode = "NOTZONE"]
  /\ pc' = "sent"
  /\ UNCHANGED <<served, request, zone, domain>>

(* Mutant: questions of every type are answered. *)
ServeZoneAnyType ==
  /\ pc = "dispatch"
  /\ request.questions # <<>>
  /\ Match(Question) # <<>>
  /\ zone' = Match(Question)
  /\ reply' = [NoReply EXCEPT !.authoritative = TRUE]
  /\ pc' = "respond"
  /\ UNCHANGED <<served, request, domain>>

(* ServeDNS finds one: handleQuestions. *)
ServeZone ==
  /\ pc = "dispatch"
  /\ request.questions # <<>>
  /\ Match(Question) # <<>>
  /\ zone' = Match(Question)
  /\ reply' = [NoReply EXCEPT !.authoritative = TRUE]
  /\ pc' = IF Question.type \in {"A", "AAAA"} THEN "respond" ELSE "write"
  /\ UNCHANGED <<served, request, domain>>

(* respondToQuestion finds the current domain. *)
RespondToQuestion ==
  /\ pc = "respond"
  /\ domain' = CurrentDomain(Question.name)
  /\ pc' = "frame"
  /\ UNCHANGED <<served, request, zone, reply>>

Rest == Remainder(Question.name, domain)

Framing == pc = "frame" /\ ~SlicePanics(Question.name, domain)

FrameWith(ips, ttl) ==
  /\ reply' = [reply EXCEPT !.answers = Records(ips, Question.type, ttl)]
  /\ pc' = "write"
  /\ UNCHANGED <<served, request, zone, domain>>

(* No one recovers from a handler's panic: the process ends. *)
FramePanic ==
  /\ pc = "frame"
  /\ \/ SlicePanics(Question.name, domain)
     \/ Framing /\ ~IsEcho(Rest) /\ ParsePanics(Text(Rest))
  /\ pc' = "crashed"
  /\ UNCHANGED <<served, request, zone, domain, reply>>

FrameEcho == Framing /\ IsEcho(Rest) /\ FrameWith(<<request.from>>, 0)

Parsing == Framing /\ ~IsEcho(Rest) /\ ~ParsePanics(Text(Rest))

(* frameResponse returns nil when parseIPs finds nothing. *)
FrameNothing ==
  /\ Parsing
  /\ Parsed(Text(Rest)) = <<>>
  /\ FrameWith(<<>>, 0)

(* Noop.Execute, RoundRobin.Execute and Fail.Execute. *)
FrameNoop ==
  /\ Parsing
  /\ Parsed(Text(Rest)) # <<>>
  /\ ~HasCommand(Rest)
  /\ FrameWith(Parsed(Text(Rest)), DefaultTTL)

FrameRoundRobin ==
  /\ Parsing
  /\ Parsed(Text(Rest)) # <<>>
  /\ HasCommand(Rest) /\ Kind[Last(Rest)] = "rr"
  /\ LET ips == Parsed(Text(Rest))
     IN  \E i \in DOMAIN ips :
           FrameWith(<<ips[i]>>, IF Len(ips) > 1 THEN ShortTTL ELSE DefaultTTL)

FrameFail ==
  /\ Parsing
  /\ Parsed(Text(Rest)) # <<>>
  /\ HasCommand(Rest) /\ Kind[Last(Rest)] = "fail"
  /\ \E roll \in 0 .. 99 :
       IF Fails(Percent[Last(Rest)], roll)
       THEN FrameWith(<<>>, ShortTTL)
       ELSE FrameWith(Parsed(Text(Rest)), DefaultTTL)

(* handleQuestions sets the return code and writes. *)
WriteReply ==
  /\ pc = "write"
  /\ reply' = IF reply.answers = <<>>
              THEN [reply EXCEPT !.rcode = "NXDOMAIN"]
              ELSE reply
  /\ pc' = "sent"
  /\ UNCHANGED <<served, request, zone, domain>>

Next ==
  \/ ServeFailure \/ ServeNotZone \/ ServeZone
  \/ RespondToQuestion
  \/ FramePanic \/ FrameEcho \/ FrameNothing
  \/ FrameNoop \/ FrameRoundRobin \/ FrameFail
  \/ WriteReply

Spec == Init /\ [][Next]_vars

-----------------------------------------------------------------------------
TypeOK ==
  /\ served \in ServedLists
  /\ request \in [questions : Seq([name : Seq(Part), type : Types]), from : Part]
  /\ zone \in ToSet(served) \cup {<<>>}
  /\ domain \in ToSet(served) \cup {<<>>}
  /\ reply \in [rcode : {"SUCCESS", "SERVFAIL", "NOTZONE", "NXDOMAIN"},
                authoritative : BOOLEAN,
                answers : Seq([type : {"A", "AAAA"}, ip : Part,
                               ttl : {0, ShortTTL, DefaultTTL}])]
  /\ pc \in {"dispatch", "respond", "frame", "write", "sent", "crashed"}

-----------------------------------------------------------------------------
(* What the README promises of a question: the domain that most closely    *)
(* covers the name decides, case aside, and the parts before that domain   *)
(* say what is answered.                                                   *)

Covering(n) == {d \in ToSet(served) : IsSuffix(Lower(d), Lower(n))}

Before(n) == SubSeq(n, 1, Len(n) - Len(Longest(Covering(n))))

(* The lists of addresses that may be answered, before the type counts. *)
PromisedIPs(rest, from) ==
  CASE IsEcho(rest) -> {<<from>>}
    [] HasCommand(rest) /\ Kind[Last(rest)] = "rr" /\ Addresses(rest) # <<>> ->
         {<<ip>> : ip \in ToSet(Addresses(rest))}
    [] HasCommand(rest) /\ Kind[Last(rest)] = "fail" /\ Percent[Last(rest)] > 0 ->
         {Addresses(rest), <<>>}
    [] OTHER -> {Addresses(rest)}

Kept ==
  IF Covering(Question.name) = {}
  THEN reply = [NoReply EXCEPT !.rcode = "NOTZONE"]
  ELSE /\ reply.authoritative
       /\ \E ips \in PromisedIPs(Before(Question.name), request.from) :
            LET answered == IF Question.type \in {"A", "AAAA"}
                            THEN Suitable(ips, Question.type) ELSE <<>>
            IN  /\ [i \in DOMAIN reply.answers |-> reply.answers[i].ip] = answered
                /\ reply.rcode = IF answered = <<>> THEN "NXDOMAIN" ELSE "SUCCESS"

(* The conditions under which the promise is kept.  A list hides no domain *)
(* if none ends, as text, in one listed before it.                         *)
ServedLowerCased == \A d \in ToSet(served) : Lower(d) = d

NoneHidden == \A i, j \in DOMAIN served :
                i < j /\ HasSuffix(served[j], served[i]) => served[i] = served[j]

Asked == pc = "sent" /\ request.questions # <<>>

SpelledAlike == Covering(Question.name) # {} =>
                  IsSuffix(Longest(Covering(Question.name)), Question.name)

Covered == Covering(Question.name) # {}

(* Echo requests and commands, and names whose domain has a part that, or   *)
(* the stub of one that, could be taken for an address or a command.        *)
Telling(p) == IsAddress(p) \/ Kind[p] \in {"rr", "fail", "echo"}

TellingDomain ==
  LET n == Question.name
  IN  \E i \in Len(Before(n)) + 1 .. Len(n) :
        \/ Telling(n[i])
        \/ \E d \in ToSet(served) : /\ <<n[i], d[1]>> \in Ending
                                    /\ Telling(Stub[<<n[i], d[1]>>])

Special == /\ Covered
           /\ \/ IsEcho(Before(Question.name))
              \/ HasCommand(Before(Question.name))
              \/ TellingDomain

BareFirst == /\ Covered
             /\ Before(Question.name) # <<>>
             /\ Kind[Before(Question.name)[1]] = "bare"

(* The name ends, as text, in no domain that is longer than the one which   *)
(* covers it: with dev.gyip.io and gyip.io served, "axdev.gyip.io" does.    *)
NoneMistaken == Covered =>
  \A d \in ToSet(served) :
    Len(d) > Len(Longest(Covering(Question.name))) => ~HasSuffix(Question.name, d)

(* The mux and the handler each look for the domain, in different ways; the *)
(* promise is kept where the two agree: the addresses of the name, those of *)
(* the type asked, in order, one of them for rr, all or none for fNN, the   *)
(* client's for echo (README.md:53, 100, 112-119, 150-153), whichever case  *)
(* the addresses' domain is written in.                                     *)
KeepsPromise ==
  /\ Asked /\ Question.type # "DS"
  /\ ServedLowerCased /\ NoneHidden /\ NoneMistaken /\ ~BareFirst
  /\ SpelledAlike \/ ~Special
  => Kept

(* A handler that finds the domain ServeMux found panics on that domain     *)
(* itself, and on a name whose first part makes parseIPs panic, whatever    *)
(* follows that part; on no other name (gyip.go:75, 122).                   *)
CrashesExactly ==
  /\ pc \in {"sent", "crashed"}
  /\ zone # <<>> /\ Question.type \in {"A", "AAAA"}
  /\ NoneHidden /\ NoneMistaken /\ SpelledAlike
  => (pc = "crashed" <=>
        LET rest == Before(Question.name)
        IN  rest = <<>> \/ Kind[rest[1]] \in {"short", "colon"})

(* Nobody outside the served domains is told anything but NOTZONE, and the  *)
(* authoritative bit is for names inside them.  Inside, NOTZONE is said to  *)
(* DS questions, which walk on to ".", and for domains configured with an   *)
(* upper-case letter, which no folded name meets (gyip.go:310-328).         *)
SpeaksForItsZones ==
  Asked =>
    /\ reply.authoritative => Covered
    /\ reply.answers # <<>> => reply.authoritative
    /\ reply.rcode = "NOTZONE" <=> ~reply.authoritative
    /\ Covered /\ ~reply.authoritative =>
         \/ Question.type = "DS"
         \/ \A d \in Covering(Question.name) : Lower(d) # d

-----------------------------------------------------------------------------
(* Sentences of the documentation the code does not live up to.            *)

(* "the first subdomain after the serving/host domain" is the command       *)
(* (README.md:150), with the domain "that most closely matches"             *)
(* (server.go:59-60), however the served domains are listed.                *)
NestedZonesKeepPromise ==
  /\ Asked /\ Question.type # "DS"
  /\ ServedLowerCased /\ SpelledAlike /\ ~BareFirst
  => Kept

(* "If you ask ... a query with no IP component you get a NXDOMAIN          *)
(* response" (README.md:53): asking for the served domain itself is one.    *)
ApexAnswered == pc = "crashed" => Before(Question.name) # <<>>

(* fNN: "NN is equal to the percentage of failures" (README.md:169).        *)
FailureShare ==
  Asked /\ reply.authoritative /\ reply.answers # <<>> =>
    LET rest == Before(Question.name)
    IN  HasCommand(rest) /\ Kind[Last(rest)] = "fail" =>
          Cardinality({roll \in 0 .. 99 : Fails(Percent[Last(rest)], roll)})
            = Percent[Last(rest)]
=============================================================================
