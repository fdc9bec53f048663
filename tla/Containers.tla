----------------------------- MODULE Containers ------------------------------
(***************************************************************************)
(* The Docker source (internal/docker: client.go, source.go, resolve.go):  *)
(* what the labels of running containers ask for, read in two requests     *)
(* while containers start, stop and move between networks and networks     *)
(* come and go, and asked for again on what Docker announces. The stream    *)
(* of events is open all along: what is lost when it drops is module       *)
(* RunLoop's subject, and UnitEvents'.                                      *)
(*                                                                         *)
(* Networks are named by numbers, in the order of their names. A label is  *)
(* read already: rules.Parse is left out but for what Collapse does.       *)
(***************************************************************************)
EXTENDS Integers, Sequences

CONSTANTS
  Ids,           \* the containers that carry the label
  Names,         \* the names networks have
  Drivers,       \* the drivers networks have
  Addresses,     \* the addresses containers are given
  HostAddress,   \* the Docker host's, as the daemon was given it
  Label          \* for each container, what its labels and ports say

preference == <<"macvlan", "ipvlan", "host", "bridge">>
OnTheLAN == {"macvlan", "ipvlan"}
NoName == -1

Rule(slot, port) == [slot |-> slot, port |-> port]

ASSUME ContainerAssumption ==
  /\ Names \subseteq Nat /\ {"none", "unknown"} \cap Drivers = {}
  /\ \A c \in Ids :
       /\ DOMAIN Label[c] = {"network", "rules", "published"}
       /\ Label[c].network \in Names \cup {NoName}
       /\ Label[c].rules \in Seq([slot: Nat, port: Nat])
       /\ Label[c].published \in Seq(Nat)

VARIABLES
  \* Docker.
  drivers,   \* the driver of each network, or "none" where there is none
  running,
  links,     \* for each container, the networks it is on and its address there
  \* The source.
  asked,     \* a pass has been asked for
  listing,   \* a pass is between its two requests
  raw,       \* the containers the first request listed, with their networks
  answer,    \* the forwards the last pass that did not fail answered with
  \* History.
  missed,    \* a pass failed, since the last that did not
  rewired,   \* containers put on or taken off a network while running, since then
  quiet      \* how many passes in a row, up to two, have listed with no change since

docker == <<drivers, running, links>>
source == <<asked, listing, raw, answer>>
history == <<missed, rewired, quiet>>
vars == <<docker, source, history>>

Alone == [n \in {} |-> HostAddress]
NoneListed == [c \in {} |-> Alone]
Existing == {n \in Names : drivers[n] # "none"}

-----------------------------------------------------------------------------
(* Resolve: from containers to forwards. *)

(* toContainer's join. A network with no entry is reported as unknown. *)
Driver(n) == IF drivers[n] = "none" THEN "unknown" ELSE drivers[n]
Networks(on) == {[name |-> n, driver |-> Driver(n), address |-> on[n]] : n \in DOMAIN on}

Rank(driver) == CHOOSE i \in DOMAIN preference : preference[i] = driver
Supported(networks) == {n \in networks : \E i \in DOMAIN preference : preference[i] = n.driver}

(* Wrong: networks are neither listed nor chosen by name. *)
Before_ByDriver(a, b) == Rank(a.driver) < Rank(b.driver)

(* By driver, and then by name. *)
Before(a, b) ==
  Rank(a.driver) < Rank(b.driver) \/ (a.driver = b.driver /\ a.name < b.name)

(* What selectNetwork may choose: nothing, when it has no network that will *)
(* do.                                                                     *)
SelectNetwork(networks, requested) ==
  IF requested # NoName THEN {n \in Supported(networks) : n.name = requested}
  ELSE {n \in Supported(networks) : \A other \in Supported(networks) : ~Before(other, n)}

DescribeTarget(network) ==
  IF network.driver \in OnTheLAN THEN [target |-> network.name, client |-> network.address]
  ELSE [target |-> NoName, client |-> HostAddress]

(* The first rule for a slot wins. *)
Collapse(rules) ==
  {rules[i] : i \in {j \in DOMAIN rules : \A k \in 1 .. j - 1 : rules[k].slot # rules[j].slot}}

(* Wrong: what was inferred beats what was written down. *)
Found_PublishedFirst(label) ==
  [i \in DOMAIN label.published |-> Rule(label.published[i], label.published[i])] \o label.rules

Found(label) ==
  label.rules \o [i \in DOMAIN label.published |-> Rule(label.published[i], label.published[i])]

Forwards(c, network) ==
  {[owner |-> c, rule |-> rule, to |-> DescribeTarget(network)] : rule \in Collapse(Found(Label[c]))}

(* The answers there may be for containers on these networks. *)
Resolve(listed) ==
  LET choices == [c \in DOMAIN listed |-> SelectNetwork(Networks(listed[c]), Label[c].network)]
      served == {c \in DOMAIN listed : choices[c] # {}}
  IN {UNION {Forwards(c, chosen[c]) : c \in served} :
        chosen \in {f \in [served -> UNION {choices[c] : c \in served}] :
                      \A c \in served : f[c] \in choices[c]}}

-----------------------------------------------------------------------------
(* Docker, external to the program. *)

(* The events asked for: a container starting and dying; the others come    *)
(* with one of them or change nothing.                                     *)
Listened_StartsOnly == {"start"}
Listened == {"start", "die"}

Announces(event) == asked' = (asked \/ event \in Listened)

Start(c) ==
  /\ c \notin running /\ running' = running \cup {c}
  /\ \E on \in UNION {[some -> Addresses] : some \in SUBSET Existing} :
       links' = [links EXCEPT ![c] = on]
  /\ Announces("start") /\ quiet' = 0
  /\ UNCHANGED <<drivers, listing, raw, answer, missed, rewired>>

Stop(c) ==
  /\ c \in running /\ running' = running \ {c}
  /\ links' = [links EXCEPT ![c] = Alone]
  /\ Announces("die") /\ quiet' = 0
  /\ UNCHANGED <<drivers, listing, raw, answer, missed, rewired>>

(* Docker announces these of the network, which is not listened to. *)
Rewire(c) ==
  /\ rewired' = rewired \cup {c} /\ quiet' = 0
  /\ UNCHANGED <<drivers, running, source, missed>>

Connect(c, n) ==
  /\ c \in running /\ n \in Existing \ DOMAIN links[c]
  /\ \E a \in Addresses :
       links' = [links EXCEPT ![c] = [m \in DOMAIN @ \cup {n} |-> IF m = n THEN a ELSE @[m]]]
  /\ Rewire(c)

Disconnect(c, n) ==
  /\ n \in DOMAIN links[c]
  /\ links' = [links EXCEPT ![c] = [m \in DOMAIN @ \ {n} |-> @[m]]]
  /\ Rewire(c)

Create(n) ==
  /\ n \notin Existing
  /\ \E driver \in Drivers : drivers' = [drivers EXCEPT ![n] = driver]
  /\ quiet' = 0
  /\ UNCHANGED <<running, links, source, missed, rewired>>

(* Docker keeps a network a running container is on. *)
Remove(n) ==
  /\ n \in Existing /\ \A c \in running : n \notin DOMAIN links[c]
  /\ drivers' = [drivers EXCEPT ![n] = "none"]
  /\ quiet' = 0
  /\ UNCHANGED <<running, links, source, missed, rewired>>

-----------------------------------------------------------------------------
(* The source and its passes. *)

(* The interval, or another source. *)
Tick == asked' = TRUE /\ UNCHANGED <<docker, listing, raw, answer, history>>

(* A pass asks for the running containers ... *)
ListContainers ==
  /\ asked /\ ~listing
  /\ asked' = FALSE /\ listing' = TRUE
  /\ raw' = [c \in running |-> links[c]]
  /\ missed' = FALSE /\ rewired' = {} /\ quiet' = IF quiet = 0 THEN 1 ELSE 2
  /\ UNCHANGED <<docker, answer>>

(* Wrong: what was found of a container once is not looked for again. *)
ListNetworks_Cached ==
  /\ listing /\ listing' = FALSE
  /\ UNCHANGED <<docker, asked, history>>
  /\ \E found \in Resolve(raw) :
       answer' = {f \in answer : f.owner \in DOMAIN raw}
                   \cup {f \in found : \A g \in answer : g.owner # f.owner}
  /\ raw' = NoneListed

(* ... and then for the networks, and joins the two. *)
ListNetworks ==
  /\ listing /\ listing' = FALSE
  /\ UNCHANGED <<docker, asked, history>>
  /\ answer' \in Resolve(raw) /\ raw' = NoneListed

(* Docker could not be asked, the one or the other: nothing is answered. *)
Fail ==
  /\ listing \/ asked
  /\ asked' = (asked /\ listing)
  /\ listing' = FALSE /\ raw' = NoneListed
  /\ missed' = TRUE /\ quiet' = 0
  /\ UNCHANGED <<docker, answer, rewired>>

-----------------------------------------------------------------------------
Init ==
  /\ drivers \in [Names -> Drivers \cup {"none"}]
  /\ running = {} /\ links = [c \in Ids |-> Alone]
  /\ asked = TRUE /\ listing = FALSE
  /\ raw = NoneListed /\ answer = {}
  /\ missed = FALSE /\ rewired = {} /\ quiet = 0

Docker ==
  \/ \E c \in Ids : Start(c) \/ Stop(c) \/ \E n \in Names : Connect(c, n) \/ Disconnect(c, n)
  \/ \E n \in Names : Create(n) \/ Remove(n)
Source == Tick \/ ListContainers \/ ListNetworks \/ Fail

Next == Docker \/ Source
Spec == Init /\ [][Next]_vars

(* The interval is never switched off, and a Docker that fails does not     *)
(* fail for ever. The last conjunct is SF_vars(ListNetworks), which is      *)
(* enabled whenever a pass is listing, in a form quicker to check.         *)
FairSpec ==
  /\ Spec /\ WF_vars(Tick) /\ SF_vars(ListContainers)
  /\ []<>listing => []<><<ListNetworks>>_vars

-----------------------------------------------------------------------------
(* Properties. *)

Of(c, forwards) == {f \in forwards : f.owner = c}

(* The network a container is reached on (docs/docker.md, "Containers on    *)
(* several networks"): the one named, or the best by driver and by name.    *)
Reachable(c) ==
  {n \in DOMAIN links[c] : \E i \in DOMAIN preference : preference[i] = drivers[n]}
BestNetwork(c, n) ==
  IF Label[c].network # NoName THEN n = Label[c].network /\ n \in Reachable(c)
  ELSE /\ n \in Reachable(c)
       /\ \A m \in Reachable(c) :
            Rank(drivers[n]) < Rank(drivers[m]) \/ (drivers[n] = drivers[m] /\ n <= m)

(* Where that is: on the LAN its own address, or else the host's.           *)
ReachedAt(c) ==
  {IF drivers[n] \in OnTheLAN THEN links[c][n] ELSE HostAddress :
     n \in {m \in Names : BestNetwork(c, m)}}

(* In it is each slot written down, or published and not written down,      *)
(* once, where the container is best reached as it is now.                 *)
IsWhole(c, forwards) ==
  LET label == Label[c]
      written == {label.rules[i].slot : i \in DOMAIN label.rules}
      slots == written \cup {label.published[i] : i \in DOMAIN label.published}
  IN IF c \notin running \/ ReachedAt(c) = {} THEN forwards = {}
     ELSE /\ {f.rule.slot : f \in forwards} = slots
          /\ \A f, g \in forwards : f.rule.slot = g.rule.slot => f = g
          /\ \A f \in forwards :
               /\ IF f.rule.slot \in written
                  THEN \E i \in DOMAIN label.rules : label.rules[i] = f.rule
                  ELSE f.rule.port = f.rule.slot
               /\ f.to.client \in ReachedAt(c)

(* "Must never return a partial list" (Source.Desired): an answer has what  *)
(* each container asks for that is still as the first request listed it -  *)
(* whatever happened to the others, and to networks, between the two.      *)
Unmoved(c) == c \in DOMAIN raw /\ c \in running /\ raw[c] = links[c]
WholeAnswer ==
  [][ListNetworks => \A c \in Ids : Unmoved(c) => IsWhole(c, Of(c, answer'))]_vars

(* Two passes over a Docker that did not change answer alike, whatever      *)
(* order it lists networks in: "an unstable choice would flip the target   *)
(* address back and forth and rewrite the rule forever" (selectNetwork).   *)
SameAnswer == [][ListNetworks /\ quiet = 2 => answer' = answer]_vars

(* Events are enough: once each has been acted on, the answer is what the   *)
(* running containers ask for now, but for those put on or taken off a     *)
(* network while running.                                                  *)
Settled == ~asked /\ ~listing /\ ~missed
UpToDate == Settled => \A c \in Ids \ rewired : IsWhole(c, Of(c, answer))

(* Once Docker has stopped changing, the answer comes to be what every      *)
(* container asks for and stays so: of those rewired, of which no event     *)
(* tells, of those a mixed pass left out, and after any failed passes.     *)
EventuallyWhole ==
  <>[][FALSE]_docker => <>[](\A c \in Ids : IsWhole(c, Of(c, answer)))
==============================================================================
