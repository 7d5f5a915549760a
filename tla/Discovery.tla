----------------------------- MODULE Discovery ------------------------------
(***************************************************************************)
(* How control points learn of the server (core/ssdp/), over a process     *)
(* that is configured, started, stopped, killed and started again          *)
(* (main.rs, config.rs).                                                   *)
(*                                                                         *)
(* The first round of announcements is main's own; then an announcer sends *)
(* one per interval, a responder answers searches, and at the end main     *)
(* aborts both, wherever they are in what they are sending, and says       *)
(* byebye.  Datagrams are lost and overtake each other.  A control point   *)
(* believes each advertisement for its max-age.                            *)
(***************************************************************************)
EXTENDS Naturals, Sequences, FiniteSets, Functions

CONSTANTS
  Targets,         \* the identities the server advertises
  ALL,             \* these, in the order they are announced in
  Configs,         \* the configuration files considered
  Searches,        \* the datagrams control points send
  Interval,        \* notify_interval, in ticks
  TicksPerSecond,
  MaxU32,          \* the largest u32
  MAX_DATAGRAM_LEN,
  Delay,           \* the longest a datagram is on its way, in ticks
  Late,            \* how late a sleeping task may wake
  Wait,            \* how long a control point listens for answers
  MaxTime,         \* bounds the clock
  MaxStarts,       \* bounds how often the process is started
  MaxSearches,     \* bounds how many searches there are
  MaxLost,         \* bounds how many datagrams are lost
  MaxUpsets,       \* bounds starts, searches and losses together, but for searches lost
  None             \* no time, no search

ASSUME AllAssumption ==
  /\ ALL \in Seq(Targets)
  /\ \A t \in Targets : \E i \in DOMAIN ALL : ALL[i] = t
ASSUME TimeAssumption ==
  /\ {Interval, TicksPerSecond, MaxStarts} \subseteq Nat \ {0}
  /\ {MaxU32, MAX_DATAGRAM_LEN, Delay, Late, Wait, MaxTime, MaxSearches, MaxLost, MaxUpsets} \subseteq Nat
ASSUME NoneAssumption ==
  None \notin Nat \cup Targets \cup {"ssdp:all"} \cup [datagram : Searches, port : Nat, sent : Nat]

VARIABLES
  config,   \* the configuration file
  now,      \* the time
  main,     \* what main() is at, "off" while there is no process
  starts,   \* how often it was started
  id,       \* the uuid of the process, or of the last one
  wake,     \* when the announcer's sleep ends
  inbox,    \* the searches waiting at the socket
  net,      \* the advertisements on their way
  asking,   \* the search on its way
  ports,    \* how many searches there were, each from a port of its own
  lost,     \* how many datagrams were lost
  lease,    \* server -> target -> until when the control point believes it
  search,   \* the search the control point listens for answers to
  found,    \* the targets that answered it
  ended,    \* history: server -> when it ended the last time
  met,      \* history: the targets heard of and not taken back since it announces
  missed,   \* history: how many datagrams of the process were lost since then
  steady,   \* history: it serves and nothing was lost since the search was sent
  clean     \* history: it was stopped with nothing under way

process == <<main, starts, id, wake, inbox>>
network == <<net, asking, ports, lost>>
point   == <<lease, search, found>>
history == <<ended, met, missed, steady, clean>>
vars    == <<config, now, process, network, point, history>>

Servers == 1 .. MaxStarts

Upsets == starts + ports + lost

Least(m, n) == IF m <= n THEN m ELSE n

(* SsdpConfig::max_age, in seconds.                                        *)
max_age == Least(2 * (Interval \div TicksPerSecond), MaxU32)

MaxAge == max_age * TicksPerSecond

NoLease == [s \in Servers |-> [t \in Targets |-> 0]]

-----------------------------------------------------------------------------
(* The configuration.                                                      *)

(* Mutant: any text is taken for a uuid.                                   *)
LoadAnyUuid(file) ==
  /\ file.text = "toml"
  /\ file.directories # 0
  /\ file.port > 1024
  /\ file.level = "info"
  /\ file.cache => file.path # ""

(* Config::load, read, parsed and validated: none of the ConfigErrors.     *)
load(file) ==
  /\ file.text = "toml"
  /\ file.directories # 0
  /\ file.port > 1024
  /\ file.uuid \in {"auto", "fixed"}
  /\ file.level = "info"
  /\ file.cache => file.path # ""

(* The expect() of init_logging and resolve_uuid: a level and a uuid that  *)
(* parse.  "auto" is met whatever its case.                                *)
Expected(file) ==
  /\ file.level = "info"
  /\ file.uuid \in {"auto", "Auto", "fixed"}

(* Args::parse: only then is there a configuration to load.                *)
ToRun(file) == file.args = "run"

(* A uuid of its own for this process, or the same for all of them.        *)
resolve_uuid(uuid) == IF uuid = "fixed" THEN 1 ELSE starts'

-----------------------------------------------------------------------------
(* Datagrams.                                                              *)

(* Mutant: an advertisement outlives its max-age.                          *)
AdvertiseTwice(kind, target, port) ==
  [kind |-> kind, server |-> id, target |-> target, port |-> port,
   age |-> 2 * MaxAge, sent |-> now]

(* build_notify_alive, build_notify_byebye, build_search_response: what    *)
(* the control point goes by.                                              *)
Advertisement(kind, target, port) ==
  [kind |-> kind, server |-> id, target |-> target, port |-> port,
   age |-> IF kind = "byebye" THEN 0 ELSE MaxAge, sent |-> now]

Ads(kind, targets, port) == {Advertisement(kind, t, port) : t \in Range(targets)}

(* The search target asked for, or None if the datagram is no search.      *)
parse_search_request(datagram) ==
  IF datagram.len > MAX_DATAGRAM_LEN \/ ~datagram.utf8 \/ ~datagram.msearch
     \/ datagram.st = <<>>
  THEN None
  ELSE Head(datagram.st)

(* Mutant: a search for everything is answered for the device alone.       *)
MatchingDevice(st) ==
  IF st = "ssdp:all" THEN <<ALL[1]>> ELSE IF st \in Targets THEN <<st>> ELSE <<>>

(* Mutant: whatever is searched for is there.                              *)
MatchingAnything(st) == IF st = "ssdp:all" THEN ALL ELSE <<st>>

(* All there are, or the one whose type is searched for.                   *)
matching(st) ==
  IF st = "ssdp:all" THEN ALL ELSE IF st \in Targets THEN <<st>> ELSE <<>>

Answers(datagram) ==
  IF parse_search_request(datagram) = None THEN <<>>
  ELSE matching(parse_search_request(datagram))

-----------------------------------------------------------------------------
(* The process.                                                            *)

(* Nothing is left of it but what it sent.                                 *)
End ==
  /\ main' = "off"
  /\ wake' = None /\ inbox' = <<>>
  /\ ended' = [ended EXCEPT ![id] = now]
  /\ steady' = FALSE
  /\ UNCHANGED <<config, now, starts, id, asking, ports, lost, point, met, missed>>

(* From the arguments to the configuration and the uuid.                   *)
Start ==
  /\ main = "off" /\ starts < MaxStarts /\ Upsets < MaxUpsets
  /\ starts' = starts + 1
  /\ IF ~(ToRun(config) /\ load(config)) THEN UNCHANGED <<main, id>>
     ELSE IF ~Expected(config) THEN main' = "panicked" /\ UNCHANGED id
     ELSE main' = "ssdp" /\ id' = resolve_uuid(config.uuid)
  /\ clean' = FALSE
  /\ UNCHANGED <<config, now, wake, inbox, network, point, ended, met, missed, steady>>

(* The interface has an address and the socket can be bound, or it is over.*)
BindSsdp ==
  /\ main = "ssdp"
  /\ \/ /\ main' = "http"
        /\ UNCHANGED <<config, now, starts, id, wake, inbox, network, point, history>>
     \/ End /\ UNCHANGED <<net, clean>>

(* Mutant: a port that is taken goes unnoticed until something is served.  *)
BindHttpLater ==
  /\ main = "http"
  /\ main' = "serve" /\ met' = {} /\ missed' = 0
  /\ net' = net \cup Ads("alive", ALL, 0)
  /\ wake' = now + Interval
  /\ UNCHANGED <<config, now, starts, id, inbox, asking, ports, lost, point, ended, steady, clean>>

(* The port is free and every media directory there, or it is over.        *)
BindHttp ==
  /\ main = "http"
  /\ \/ /\ main' = "announce" /\ met' = {} /\ missed' = 0
        /\ UNCHANGED <<config, now, starts, id, wake, inbox, network, point, ended, steady, clean>>
     \/ End /\ UNCHANGED <<net, clean>>

(* announce_alive, then the tasks are spawned.                             *)
AnnounceFirst ==
  /\ main = "announce"
  /\ net' = net \cup Ads("alive", ALL, 0)
  /\ main' = "serve"
  /\ wake' = now + Interval
  /\ UNCHANGED <<config, now, starts, id, inbox, asking, ports, lost, point, history>>

(* Mutant: the announcer sleeps until its word has run out.                *)
AnnounceLate ==
  /\ main = "serve" /\ wake # None /\ now >= wake
  /\ net' = net \cup Ads("alive", ALL, 0)
  /\ wake' = now + MaxAge
  /\ UNCHANGED <<config, now, main, starts, id, inbox, asking, ports, lost, point, history>>

(* Mutant: the loop is missing.                                            *)
AnnounceOnce ==
  /\ main = "serve" /\ wake # None /\ now >= wake
  /\ net' = net \cup Ads("alive", ALL, 0)
  /\ wake' = None
  /\ UNCHANGED <<config, now, main, starts, id, inbox, asking, ports, lost, point, history>>

(* announce_alive_periodically: another round, and to sleep again.         *)
Announce ==
  /\ main = "serve" /\ wake # None /\ now >= wake
  /\ net' = net \cup Ads("alive", ALL, 0)
  /\ wake' = now + Interval
  /\ UNCHANGED <<config, now, main, starts, id, inbox, asking, ports, lost, point, history>>

(* serve_search_requests: what is not a search is passed over.             *)
Respond ==
  /\ main = "serve" /\ inbox # <<>>
  /\ net' = net \cup Ads("response", Answers(Head(inbox).datagram), Head(inbox).port)
  /\ inbox' = Tail(inbox)
  /\ UNCHANGED <<config, now, main, starts, id, wake, asking, ports, lost, point, history>>

(* What has been sent when this is interrupted.                            *)
Begun(kind, targets, port) ==
  {Ads(kind, SubSeq(targets, 1, n), port) : n \in 0 .. Len(targets)}

Announcing ==
  IF main = "announce" \/ (main = "serve" /\ wake # None /\ now >= wake)
  THEN Begun("alive", ALL, 0) ELSE {{}}

Answering ==
  IF main = "serve" /\ inbox # <<>>
  THEN Begun("response", Answers(Head(inbox).datagram), Head(inbox).port) ELSE {{}}

Leaving == IF main = "byebye" THEN Begun("byebye", ALL, 0) ELSE {{}}

Interrupted == {a \cup b \cup c : a \in Announcing, b \in Answering, c \in Leaving}

(* Mutant: the announcer is not aborted, and main waits for it to sleep.   *)
StopResponder ==
  /\ main = "serve"
  /\ main' = "byebye"
  /\ \E sent \in Interrupted :
       /\ net' = net \cup sent \cup Ads("alive", ALL, 0)
       /\ clean' = (net \cup sent = {})
  /\ wake' = None /\ steady' = FALSE
  /\ UNCHANGED <<config, now, starts, id, inbox, asking, ports, lost, point, ended, met, missed>>

(* SIGTERM: the tasks are aborted, wherever they are.                      *)
Stop ==
  /\ main = "serve"
  /\ main' = "byebye"
  /\ \E sent \in Interrupted : net' = net \cup sent
  /\ wake' = None /\ steady' = FALSE
  /\ clean' = (net' = {})
  /\ UNCHANGED <<config, now, starts, id, inbox, asking, ports, lost, point, ended, met, missed>>

(* announce_byebye, and main returns.                                      *)
SayByebye ==
  /\ main = "byebye"
  /\ End /\ net' = net \cup Ads("byebye", ALL, 0)
  /\ UNCHANGED clean

(* Killed, or SIGTERM before there is a handler for it.                    *)
Kill ==
  /\ main \notin {"off", "panicked"}
  /\ \E sent \in Interrupted : net' = net \cup sent
  /\ End /\ clean' = FALSE

-----------------------------------------------------------------------------
(* The network and the control point.                                      *)

Hears(d) == d.kind # "byebye"

Deliver(d) ==
  /\ net' = net \ {d}
  /\ lease' = [lease EXCEPT ![d.server][d.target] = IF Hears(d) THEN now + d.age ELSE 0]
  /\ met' = IF d.server # id THEN met
            ELSE IF Hears(d) THEN met \cup {d.target} ELSE met \ {d.target}
  /\ found' = IF search # None /\ d.kind = "response" /\ d.port = search.port
              THEN found \cup {d.target} ELSE found
  /\ UNCHANGED <<config, now, process, asking, ports, lost, search, ended, missed, steady, clean>>

Lose(d) ==
  /\ lost < MaxLost /\ Upsets < MaxUpsets /\ lost' = lost + 1
  /\ net' = net \ {d}
  /\ missed' = IF d.server = id THEN missed + 1 ELSE missed
  /\ steady' = FALSE /\ clean' = FALSE
  /\ UNCHANGED <<config, now, process, asking, ports, point, ended, met>>

(* Another search, once the last has been listened for.                    *)
Ask(datagram) ==
  /\ search = None /\ asking = None /\ main # "off"
  /\ ports < MaxSearches /\ Upsets < MaxUpsets
  /\ ports' = ports + 1
  /\ asking' = [datagram |-> datagram, port |-> ports + 1, sent |-> now]
  /\ search' = asking'
  /\ found' = {}
  /\ steady' = (main = "serve")
  /\ UNCHANGED <<config, now, process, net, lost, lease, ended, met, missed, clean>>

(* The search comes to the socket, if there is one.                        *)
DeliverSearch ==
  /\ asking # None /\ asking' = None
  /\ inbox' = IF main \in {"off", "panicked", "ssdp"} THEN inbox
              ELSE Append(inbox, asking)
  /\ UNCHANGED <<config, now, main, starts, id, wake, net, ports, lost, point, history>>

LoseSearch ==
  /\ asking # None /\ asking' = None
  /\ lost < MaxLost /\ lost' = lost + 1
  /\ steady' = FALSE
  /\ UNCHANGED <<config, now, process, net, ports, point, ended, met, missed, clean>>

Close ==
  /\ search # None /\ now = search.sent + Wait
  /\ search' = None /\ found' = {} /\ steady' = FALSE
  /\ UNCHANGED <<config, now, process, network, lease, ended, met, missed, clean>>

(* Starting, sending and stopping take no time on this scale, a sleep may  *)
(* end late, a datagram arrives within Delay or never.                     *)
Prompt ==
  /\ main \in {"off", "serve"} /\ inbox = <<>>
  /\ wake # None => now < wake + Late
  /\ \A d \in net : now < d.sent + Delay
  /\ asking # None => now < asking.sent + Delay
  /\ search # None => now < search.sent + Wait

Tick ==
  /\ now < MaxTime /\ starts > 0 /\ Prompt
  /\ now' = now + 1
  /\ UNCHANGED <<config, process, network, point, history>>

-----------------------------------------------------------------------------
Init ==
  /\ config \in Configs
  /\ now = 0
  /\ main = "off" /\ starts = 0 /\ id = 1
  /\ wake = None /\ inbox = <<>>
  /\ net = {} /\ asking = None /\ ports = 0 /\ lost = 0
  /\ lease = NoLease /\ search = None /\ found = {}
  /\ ended = [s \in Servers |-> 0]
  /\ met = {} /\ missed = 0 /\ steady = FALSE /\ clean = FALSE

Process ==
  \/ Start \/ BindSsdp \/ BindHttp \/ AnnounceFirst \/ Announce \/ Respond
  \/ Stop \/ SayByebye \/ Kill

Network ==
  \/ \E d \in net : Deliver(d) \/ Lose(d)
  \/ \E datagram \in Searches : Ask(datagram)
  \/ DeliverSearch \/ LoseSearch \/ Close \/ Tick

Next == Process \/ Network

Spec == Init /\ [][Next]_vars

-----------------------------------------------------------------------------
(* Properties.                                                             *)

Messages == [kind : {"alive", "byebye", "response"}, server : Servers,
             target : Targets, port : 0 .. MaxSearches, age : {0, MaxAge}, sent : Nat]

Asked == [datagram : Searches, port : 1 .. MaxSearches, sent : Nat]

(* Every variable holds what its field or local of the code may.           *)
TypeOK ==
  /\ config \in Configs /\ now \in Nat
  /\ main \in {"off", "ssdp", "http", "announce", "serve", "byebye"}
  /\ starts \in 0 .. MaxStarts
  /\ id \in Servers /\ (main # "off" => id <= starts)
  /\ wake \in Nat \cup {None}
  /\ inbox \in Seq(Asked)
  /\ net \subseteq Messages
  /\ {asking, search} \subseteq Asked \cup {None} /\ ports \in 0 .. MaxSearches
  /\ lease \in [Servers -> [Targets -> Nat]]
  /\ found \subseteq Targets /\ met \subseteq Targets
  /\ lost \in 0 .. MaxLost
  /\ ended \in [Servers -> Nat]
  /\ missed \in Nat
  /\ {steady, clean} \subseteq BOOLEAN

Running == IF main = "off" THEN {} ELSE {id}

Presence == INSTANCE Presence WITH
  Servers <- Servers, Targets <- Targets, Delay <- Delay, MaxAge <- MaxAge,
  now <- now, running <- Running, ended <- ended, lease <- lease

(* Discovery keeps the promise of Presence: only a server that runs, or    *)
(* ran a moment ago, is believed, and for max-age each time.               *)
ImplementsPresence == Presence!Spec

(* However the process ends, killed in the middle of a round or stopped    *)
(* with its byebyes lost, and under whatever uuid it comes back, no        *)
(* control point lists what is gone for longer than the last word it sent  *)
(* is on its way and good for (config.rs:40-44).                           *)
ForgottenInTime == Presence!ForgottenInTime

Known == \A t \in met : now <= lease[id][t]

(* A server that serves is not forgotten by a control point that has heard *)
(* of it, as long as no datagram of it is lost: the next announcement is   *)
(* always there before the last has run out (config.rs:40-44).             *)
Remembered == main = "serve" /\ missed = 0 => Known

(* "A single missed announcement doesn't cause premature expiry"           *)
(* (config.rs:41-43), for max-age is twice the interval.                   *)
OneLossTolerated == main = "serve" /\ missed <= 1 => Known

(* What the code gives instead: the announcement after a lost one is       *)
(* missing for no longer than two sleeps overrun, a datagram is on its way *)
(* and the seconds that max-age leaves out (config.rs:49; ssdp/mod.rs:96). *)
BackAfterOneLoss ==
  main = "serve" /\ missed <= 1 =>
    \A t \in met : now <= lease[id][t] + (2 * Interval - MaxAge) + 2 * Late + Delay

(* A server stopped while nothing of it was under way is forgotten as soon *)
(* as its byebyes have arrived: no task it left behind brings it back      *)
(* (main.rs:206-210).                                                      *)
GoneAfterByebye ==
  main = "off" /\ clean /\ net = {} => \A t \in Targets : lease[id][t] = 0

Wanted(datagram) ==
  {t \in Targets : datagram.msearch /\ datagram.st # <<>>
                     /\ Head(datagram.st) \in {t, "ssdp:all"}}

(* A control point that searches while the server serves has, when it      *)
(* stops listening, heard of everything it searched for and of nothing     *)
(* else (examples/ssdp_discover.rs; targets.rs, matching).                 *)
SearchComplete ==
  search # None =>
    /\ found \subseteq Wanted(search.datagram)
    /\ steady /\ now = search.sent + Wait => Wanted(search.datagram) \subseteq found

(* Nothing is advertised before there is an HTTP server bound to answer at *)
(* the location advertised (main.rs:161-181).                              *)
AnnouncesOnlyBound ==
  [][net' \subseteq net \/ main \in {"announce", "serve", "byebye"}]_vars

(* A process with a configuration that passed validation gets over every   *)
(* expect() that relies on it (main.rs:62, 73-81).                         *)
NeverPanics == main # "panicked"
=============================================================================
