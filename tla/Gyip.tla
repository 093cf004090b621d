-------------------------------- MODULE Gyip --------------------------------
(***************************************************************************)
(* The process: main of gyip.go from its options to its end, one goroutine *)
(* for each server, the kernel that grants addresses and sends signals.    *)
(* What a server does with a request is in UdpServer, TcpServer and        *)
(* Resolve; here one request at a time is followed, to see what becomes of *)
(* it.                                                                     *)
(***************************************************************************)
EXTENDS Integers, Sequences

CONSTANTS
  Text,         \* what may stand between the commas of --host and --domain
  Address,      \* the addresses hosts are given by or resolve to
  Local,        \* those the machine has
  Name,         \* host names
  Answers,      \* for each name, what net.LookupIP may return; <<>> on error
  Valid,        \* the domains checkDomain accepts, with their final dot
  HostLists,    \* the values tried for the options --host and --domain,
  DomainLists   \* split at the commas

Everywhere == {"0.0.0.0", "::"}
Proto      == {"tcp", "udp"}

ASSUME GyipAssumption ==
  /\ Everywhere \subseteq Local /\ Local \subseteq Address
  /\ Answers \in [Name -> SUBSET Seq(Address)]
  /\ Address \cup Name \cup Valid \subseteq Text
  /\ Name \cap Address = {}
  /\ HostLists \cup DomainLists \subseteq Seq(Text)

VARIABLES
  options,      \* host, domain, portOk, tcpOff, udpOff
  pc,           \* where main stands
  todo,         \* what is left of the list main's loop runs over
  hosts,        \* outputHosts, later hostingDomains
  domains,      \* servingDomains
  mux,          \* the patterns registered with DefaultServeMux
  server,       \* status of the servers launched, by host and protocol
  request,      \* the server that works on a request
  signal,       \* "sent" while SIGINT or SIGTERM is on its way, else "none"
  process       \* "up", "exited", "signalled", "stopped" or "crashed"

list == <<hosts, domains>>
vars == <<options, pc, todo, hosts, domains, mux, server, request, signal,
          process>>

Idle == <<0, "none">>

Init ==
  /\ options \in [host : HostLists, domain : DomainLists, portOk : BOOLEAN,
                  tcpOff : BOOLEAN, udpOff : BOOLEAN]
  /\ pc = "flags"
  /\ todo = <<>> /\ hosts = <<>> /\ domains = <<>>
  /\ mux = {}
  /\ server = [s \in {} |-> "starting"]
  /\ request = Idle
  /\ signal = "none"
  /\ process = "up"

At(place) == process = "up" /\ pc = place

Exit ==
  /\ process' = "exited"
  /\ UNCHANGED <<options, signal, pc, todo, list, mux, server, request>>

-----------------------------------------------------------------------------
(* The options.                                                             *)

NoDomain == At("flags") /\ options.domain = <<"">> /\ Exit

Flags ==
  /\ At("flags") /\ options.domain # <<"">>
  /\ pc' = "hosts"
  /\ todo' = options.host
  /\ UNCHANGED <<options, signal, list, mux, server, request, process>>

(* splitHosts, one entry after the other: resolving a name takes its time. *)
NextHost(found) ==
  /\ todo' = Tail(todo)
  /\ hosts' = hosts \o found
  /\ UNCHANGED <<options, signal, pc, domains, mux, server, request, process>>

HostAddress ==
  /\ At("hosts") /\ todo # <<>>
  /\ Head(todo) \in Address \ {"0.0.0.0"}
  /\ NextHost(<<Head(todo)>>)

(* Mutant: the entries before the literal are kept. *)
HostAnyKept ==
  /\ At("hosts") /\ todo # <<>>
  /\ Head(todo) = "0.0.0.0"
  /\ NextHost(<<Head(todo)>>)

HostAny ==
  /\ At("hosts") /\ todo # <<>>
  /\ Head(todo) = "0.0.0.0"
  /\ todo' = <<>>
  /\ hosts' = <<"0.0.0.0">>
  /\ UNCHANGED <<options, signal, pc, domains, mux, server, request, process>>

(* Mutant: a name that does not resolve stands for every address. *)
HostNameOrAny ==
  /\ At("hosts") /\ todo # <<>>
  /\ Head(todo) \in Name
  /\ \E found \in Answers[Head(todo)] :
       NextHost(IF found = <<>> THEN <<"0.0.0.0">> ELSE found)

HostName ==
  /\ At("hosts") /\ todo # <<>>
  /\ Head(todo) \in Name
  /\ \E found \in Answers[Head(todo)] : NextHost(found)

(* An empty entry, or one that is neither address nor host name. *)
HostDropped ==
  /\ At("hosts") /\ todo # <<>>
  /\ Head(todo) \notin Address \cup Name
  /\ NextHost(<<>>)

HostsDone ==
  /\ At("hosts") /\ todo = <<>>
  /\ hosts' = IF hosts = <<>> THEN <<"0.0.0.0">> ELSE hosts
  /\ pc' = "domains"
  /\ todo' = options.domain
  /\ UNCHANGED <<options, signal, domains, mux, server, request, process>>

(* splitDomains, an entry at a time as well. *)
DomainKept ==
  /\ At("domains") /\ todo # <<>>
  /\ Head(todo) \in Valid
  /\ domains' = Append(domains, Head(todo))
  /\ todo' = Tail(todo)
  /\ UNCHANGED <<options, signal, pc, hosts, mux, server, request, process>>

(* Mutant: a bad domain is reported and kept. *)
DomainReported ==
  /\ At("domains") /\ todo # <<>>
  /\ Head(todo) \notin Valid
  /\ domains' = Append(domains, Head(todo))
  /\ todo' = Tail(todo)
  /\ UNCHANGED <<options, signal, pc, hosts, mux, server, request, process>>

DomainDropped ==
  /\ At("domains") /\ todo # <<>>
  /\ Head(todo) \notin Valid
  /\ todo' = Tail(todo)
  /\ UNCHANGED <<options, signal, pc, list, mux, server, request, process>>

DomainsDone ==
  /\ At("domains") /\ todo = <<>>
  /\ pc' = "check"
  /\ UNCHANGED <<options, signal, todo, list, mux, server, request, process>>

NothingToServe ==
  /\ At("check")
  /\ domains = <<>> \/ (options.tcpOff /\ options.udpOff)
  /\ Exit

(* Mutant: the servers start before the handlers are known. *)
CheckAndLaunch ==
  /\ At("check")
  /\ domains # <<>> /\ ~(options.tcpOff /\ options.udpOff)
  /\ pc' = "launch"
  /\ todo' = hosts
  /\ UNCHANGED <<options, signal, list, mux, server, request, process>>

Check ==
  /\ At("check")
  /\ domains # <<>> /\ ~(options.tcpOff /\ options.udpOff)
  /\ pc' = "register"
  /\ todo' = domains
  /\ UNCHANGED <<options, signal, list, mux, server, request, process>>

-----------------------------------------------------------------------------
(* Handlers, servers, signals.                                              *)

Register ==
  /\ At("register") /\ todo # <<>>
  /\ mux' = mux \cup {Head(todo)}
  /\ todo' = Tail(todo)
  /\ UNCHANGED <<options, signal, pc, list, server, request, process>>

RegisterRoot ==
  /\ At("register") /\ todo = <<>>
  /\ mux' = mux \cup {"."}
  /\ pc' = "launch"
  /\ todo' = hosts
  /\ UNCHANGED <<options, signal, list, server, request, process>>

On(p) == IF p = "tcp" THEN ~options.tcpOff ELSE ~options.udpOff

(* A server that is launched starts when its goroutine runs. *)
Launch ==
  /\ At("launch") /\ todo # <<>>
  /\ LET started == {s \in {Len(hosts) - Len(todo) + 1} \X Proto : On(s[2])}
     IN  server' = [s \in DOMAIN server \cup started |->
                      IF s \in started THEN "starting" ELSE server[s]]
  /\ todo' = Tail(todo)
  /\ UNCHANGED <<options, signal, pc, list, mux, request, process>>

Launched ==
  /\ At("launch") /\ todo = <<>>
  /\ pc' = "notify"
  /\ UNCHANGED <<options, signal, todo, list, mux, server, request, process>>

Notify ==
  /\ At("notify")
  /\ pc' = "notified"
  /\ UNCHANGED <<options, signal, todo, list, mux, server, request, process>>

(* Main comes to the receive from sig. *)
Wait ==
  /\ At("notified")
  /\ pc' = "wait"
  /\ UNCHANGED <<options, signal, todo, list, mux, server, request, process>>

(* Mutant: main goes on waiting. *)
StopLater ==
  /\ At("stopping")
  /\ pc' = "wait"
  /\ UNCHANGED <<options, signal, todo, list, mux, server, request, process>>

(* Main returns, whatever the servers are doing. *)
Stop ==
  /\ At("stopping")
  /\ process' = "stopped"
  /\ UNCHANGED <<options, signal, pc, todo, list, mux, server, request>>

Main ==
  \/ NoDomain \/ Flags
  \/ HostAddress \/ HostAny \/ HostName \/ HostDropped \/ HostsDone
  \/ DomainKept \/ DomainDropped \/ DomainsDone
  \/ NothingToServe \/ Check
  \/ Register \/ RegisterRoot \/ Launch \/ Launched
  \/ Notify \/ Wait \/ Stop

(* SIGINT or SIGTERM, from whoever runs the process. *)
Interrupt ==
  /\ process = "up" /\ signal = "none"
  /\ signal' = "sent"
  /\ UNCHANGED <<options, pc, todo, list, mux, server, request, process>>

(* What becomes of a signal: until Notify it kills the process; afterwards  *)
(* it goes into a channel without a buffer, so that unless main waits there *)
(* nobody takes it.                                                         *)
Kill ==
  /\ process = "up" /\ signal = "sent"
  /\ pc \notin {"notified", "wait", "stopping"}
  /\ process' = "signalled" /\ signal' = "none"
  /\ UNCHANGED <<options, pc, todo, list, mux, server, request>>

Drop ==
  /\ process = "up" /\ signal = "sent"
  /\ pc \in {"notified", "stopping"}
  /\ signal' = "none"
  /\ UNCHANGED <<options, pc, todo, list, mux, server, request, process>>

Receive ==
  /\ At("wait") /\ signal = "sent"
  /\ pc' = "stopping" /\ signal' = "none"
  /\ UNCHANGED <<options, todo, list, mux, server, request, process>>

Signalled == Kill \/ Drop \/ Receive

-----------------------------------------------------------------------------
(* The goroutine of a server.                                               *)

(* The kernel gives an address of the machine to one socket of a protocol;  *)
(* a socket for every address takes them all.                               *)
Clash(a, b) == a = b \/ a \in Everywhere \/ b \in Everywhere

Rivals(s, statuses) ==
  {t \in DOMAIN server : /\ t # s /\ t[2] = s[2]
                         /\ server[t] \in statuses
                         /\ Clash(hosts[t[1]], hosts[s[1]])}

Becomes(s, status) ==
  /\ process = "up"
  /\ s \in DOMAIN server /\ server[s] = "starting"
  /\ server' = [server EXCEPT ![s] = status]
  /\ UNCHANGED <<options, signal, pc, todo, list, mux, request, process>>

Bindable(s) ==
  /\ options.portOk /\ hosts[s[1]] \in Local
  /\ Rivals(s, {"serving"}) = {}

Bind(s) == Bindable(s) /\ Becomes(s, "serving")

(* Mutant: a refused server takes the others with it. *)
RefuseAll(s) ==
  /\ ~Bindable(s) \/ Rivals(s, {"optionless"}) # {}
  /\ process = "up"
  /\ s \in DOMAIN server /\ server[s] = "starting"
  /\ server' = [t \in DOMAIN server |-> "refused"]
  /\ UNCHANGED <<options, signal, pc, todo, list, mux, request, process>>

(* Mutant: a server that cannot bind tries again. *)
RefuseAndRetry(s) ==
  /\ ~Bindable(s) \/ Rivals(s, {"optionless"}) # {}
  /\ Becomes(s, "starting")

(* ListenAndServe returns an error, serve prints it and ends.  The socket   *)
(* of a server that failed after it was bound may still be there.           *)
Refuse(s) ==
  /\ ~Bindable(s) \/ Rivals(s, {"optionless"}) # {}
  /\ Becomes(s, "refused")

(* setUDPSocketOptions fails, and nobody closes the socket. *)
OptionsFail(s) == Bindable(s) /\ s[2] = "udp" /\ Becomes(s, "optionless")

Take(s) ==
  /\ process = "up" /\ request = Idle
  /\ s \in DOMAIN server /\ server[s] = "serving"
  /\ request' = s
  /\ UNCHANGED <<options, signal, pc, todo, list, mux, server, process>>

Answer ==
  /\ process = "up" /\ request # Idle
  /\ request' = Idle
  /\ UNCHANGED <<options, signal, pc, todo, list, mux, server, process>>

HandlerPanics ==
  /\ process = "up" /\ request # Idle
  /\ process' = "crashed"
  /\ UNCHANGED <<options, signal, pc, todo, list, mux, server, request>>

Start(s) == Bind(s) \/ Refuse(s) \/ OptionsFail(s)

Starts == \E s \in DOMAIN server : Start(s)

Next ==
  \/ Main \/ Interrupt \/ Signalled
  \/ Starts
  \/ \E s \in DOMAIN server : Take(s)
  \/ Answer \/ HandlerPanics

Spec == Init /\ [][Next]_vars

(* The scheduler runs main and the servers that start, and a signal that    *)
(* was sent arrives; nobody has to send one.                                *)
FairSpec == /\ Spec
            /\ WF_vars(Main) /\ WF_vars(Starts) /\ WF_vars(Signalled)

-----------------------------------------------------------------------------
Places == {"flags", "hosts", "domains", "check", "register", "launch", "notify",
           "notified", "wait", "stopping"}
Statuses == {"starting", "serving", "refused", "optionless"}

TypeOK ==
  /\ options \in [host : HostLists, domain : DomainLists, portOk : BOOLEAN,
                  tcpOff : BOOLEAN, udpOff : BOOLEAN]
  /\ pc \in Places
  /\ hosts \in Seq(Address)
  /\ domains \in Seq(Valid)
  /\ mux \subseteq Valid \cup {"."}
  /\ DOMAIN server \subseteq (1 .. Len(hosts)) \X Proto
  /\ server \in [DOMAIN server -> Statuses]
  /\ request \in DOMAIN server \cup {Idle}
  /\ signal \in {"none", "sent"}
  /\ process \in {"up", "exited", "signalled", "stopped", "crashed"}

(* A request meets a ServeMux that knows every served domain and ".": the   *)
(* handlers are registered before a server is launched (gyip.go:310-343).   *)
MuxComplete ==
  request # Idle =>
    /\ \A i \in DOMAIN options.domain :
         options.domain[i] \in Valid => options.domain[i] \in mux
    /\ "." \in mux

Settled(p) == \A s \in DOMAIN server : s[2] = p => server[s] # "starting"

(* However hosts are doubled or overlap and whichever server is first, each *)
(* address main listens on is served when all have tried, by its own server *)
(* or by one for every address, unless port or address is not to be had or  *)
(* a socket was left behind (gyip.go:262-266, 331-343).                     *)
HostsServed ==
  \A s \in DOMAIN server :
    (/\ pc \notin {"launch", "register"} /\ Settled(s[2]) /\ options.portOk
     /\ hosts[s[1]] \in Local \ Everywhere
     /\ \A t \in DOMAIN server : server[t] # "optionless")
    => \E t \in DOMAIN server :
         /\ t[2] = s[2] /\ server[t] = "serving"
         /\ hosts[t[1]] \in {hosts[s[1]]} \cup Everywhere

AsksEverywhere(entry) ==
  \/ entry \in Everywhere
  \/ /\ entry \in Name
     /\ \E found \in Answers[entry] : \E k \in DOMAIN found : found[k] \in Everywhere

Unusable(entry) == entry \notin Address /\ (entry \in Name => <<>> \in Answers[entry])

(* The process listens everywhere only when it was told to, or when nothing *)
(* of --host is usable (gyip.go:350-396); the names that do not resolve and *)
(* the entries that are neither do not widen what it listens on.            *)
EverywhereOnlyIfAsked ==
  \A s \in DOMAIN server :
    hosts[s[1]] \in Everywhere =>
      \/ \E i \in DOMAIN options.host : AsksEverywhere(options.host[i])
      \/ \A i \in DOMAIN options.host : Unusable(options.host[i])

(* The literal 0.0.0.0 stands alone, wherever it is in the list: beside it  *)
(* no other server could bind (gyip.go:364-367).                            *)
AnyAlone ==
  \A s \in DOMAIN server :
    (\E i \in DOMAIN options.host : options.host[i] = "0.0.0.0") => s[1] = 1

(* Every server that is launched comes to serve or gives up, though others  *)
(* fail: the process neither waits for it nor ends with it (gyip.go:262).   *)
EveryServerSettles ==
  (pc = "wait") ~> (process # "up" \/ (Settled("tcp") /\ Settled("udp")))

(* Whoever sends a signal again as long as the process runs ends it, though *)
(* those that come between Notify and the receive are lost, and though main *)
(* waits for no server: no signal is taken without the process ending       *)
(* (gyip.go:345-347).                                                       *)
SignalsEnd == WF_vars(Interrupt) => <>(process # "up")
=============================================================================
